--------------------------- MODULE MCTranslation ---------------------------
(***************************************************************************)
(* Small instances of Translation for TLC.                                 *)
(***************************************************************************)
EXTENDS Translation, TLC

CONSTANTS h1, h2, i1, e1, e2, r1, a1, a2, zero

NoKNI == [s \in Side |-> FALSE]
BothKNI == [s \in Side |-> TRUE]

NoRules == [p \in {} |-> KNI]
OneRule == [p \in {0} |-> h1]

HostSymmetry == Permutations({h1, h2})
WorkerSymmetry == Permutations({h1, h2}) \cup Permutations({e1, e2})
=============================================================================
