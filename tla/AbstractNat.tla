---------------------------- MODULE AbstractNat ----------------------------
(***************************************************************************)
(* What address translation promises, without threads, locks, ports that   *)
(* age, or an address that changes: private tuples are bound to public     *)
(* ones, one at a time, and a public tuple is never bound while it leads   *)
(* somewhere.  Translation is shown to implement this.                     *)
(***************************************************************************)
CONSTANTS
  Host,       \* private tuples
  PubTuple,   \* public tuples
  Internal,   \* the target that is the program's own host
  None

VARIABLES
  out,        \* public tuple that packets of a private tuple leave with
  back        \* where packets for a public tuple are sent

\* Every private tuple that is translated has its way back.
Answered == \A h \in Host : out[h] # None => back[out[h]] = h

Init ==
  /\ out \in [Host -> PubTuple \cup {None}]
  /\ back \in [PubTuple -> Host \cup {Internal, None}]
  /\ Answered

Open(k, target) ==
  /\ back[k] = None
  /\ back' = [back EXCEPT ![k] = target]
  /\ out' = IF target \in Host THEN [out EXCEPT ![target] = k] ELSE out

\* Closing a public tuple takes the translation of its private tuple away.
Close(k) ==
  /\ back' = [back EXCEPT ![k] = None]
  /\ out' = IF back[k] \in Host THEN [out EXCEPT ![back[k]] = None] ELSE out

Next == \E k \in PubTuple : \/ \E target \in Host \cup {Internal} : Open(k, target)
                            \/ Close(k)

Spec == Init /\ [][Next]_<<out, back>>
=============================================================================
