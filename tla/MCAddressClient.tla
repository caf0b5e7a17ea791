-------------------------- MODULE MCAddressClient --------------------------
(***************************************************************************)
(* Small instances of AddressClient for TLC.                               *)
(***************************************************************************)
EXTENDS AddressClient

CONSTANTS c1, c2, w1, w2, m1, m2, zero
=============================================================================
