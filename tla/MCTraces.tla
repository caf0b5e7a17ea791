------------------------------ MODULE MCTraces ------------------------------
(***************************************************************************)
(* Small instances of Traces for TLC.                                      *)
(***************************************************************************)
EXTENDS Traces

CONSTANTS w1, w2

OnePerSide == [w \in {w1, w2} |-> IF w = w1 THEN "public" ELSE "private"]
=============================================================================
