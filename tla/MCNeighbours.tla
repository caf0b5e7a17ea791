---------------------------- MODULE MCNeighbours ----------------------------
(***************************************************************************)
(* Small instances of Neighbours for TLC: the last two bytes of addresses. *)
(***************************************************************************)
EXTENDS Neighbours

\* Two addresses that differ in the order of their bytes, and one more.
Stations == {<<1, 2>>, <<2, 1>>, <<1, 7>>}
TwoStations == {<<1, 7>>, <<1, 8>>}
ThisPort == <<1, 1>>
ThisLinkLocal == <<254, 1>>
=============================================================================
