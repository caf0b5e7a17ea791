-------------------------- MODULE NeighboursProofs --------------------------
(***************************************************************************)
(* Whose MAC address the table of neighbours has for an address, for any   *)
(* stations and both IP versions.                                          *)
(***************************************************************************)
EXTENDS Neighbours, TLAPS

\* Converting twice gives the address back.
LEMMA SwapTwice == \A s \in Station : Swap(Swap(s)) = s
BY StationAssumption DEF Swap

\* Table, messages and outcome keep their types.
LEMMA TypeStep == NeighboursTypeOK /\ [Next]_vars => NeighboursTypeOK'
<1> SUFFICES ASSUME NeighboursTypeOK, [Next]_vars PROVE NeighboursTypeOK'
  OBVIOUS
<1>k. \A s \in Station : s \in Key /\ Swap(s) \in Key
  BY DEF Key
<1>1. ASSUME NEW s \in Station, NEW option \in BOOLEAN, NeighbourReply(s, option)
      PROVE  NeighboursTypeOK'
  <2>1. Swap(Swap(s)) \in Key
    BY <1>k, SwapTwice
  <2> QED
    BY <1>1, <2>1 DEF NeighbourReply, StoreReply, Kni, NeighboursTypeOK
<1>2. ASSUME NEW s \in Station, SendTo(s) PROVE NeighboursTypeOK'
  BY <1>2 DEF SendTo, NeighboursTypeOK
<1>3. ASSUME NEW s \in Station, LookupMiss(s) PROVE NeighboursTypeOK'
  BY <1>3, <1>k DEF LookupMiss, LearnSource, NeighboursTypeOK
<1>4. ASSUME NEW s \in Station, Answer(s) PROVE NeighboursTypeOK'
  BY <1>4 DEF Answer, NeighboursTypeOK
<1>5. ASSUME NEW target, NEW plain, NeighbourRequest(target, plain)
      PROVE  NeighboursTypeOK'
  BY <1>5 DEF NeighbourRequest, NeighboursTypeOK
<1>6. ASSUME NEW i \in Id, NEW toUs, NEW echoRequest, handleICMP(i, toUs, echoRequest)
      PROVE  NeighboursTypeOK'
  BY <1>6 DEF handleICMP, NeighboursTypeOK
<1>7. ASSUME NEW i \in Id, UseConnection(i) \/ Timeout(i) PROVE NeighboursTypeOK'
  BY <1>7 DEF UseConnection, Timeout, NeighboursTypeOK
<1>8. CASE LoseMessage
  BY <1>8 DEF LoseMessage, NeighboursTypeOK
<1>9. CASE UNCHANGED vars
  BY <1>9 DEF vars, NeighboursTypeOK
<1> QED
  BY <1>1, <1>2, <1>3, <1>4, <1>5, <1>6, <1>7, <1>8, <1>9 DEF Next

\* What a step stores is the MAC address of the station whose address is the
\* key, in either byte order; in network order the station was heard.
LEMMA OwnMACStep ==
  ASSUME NeighboursTypeOK, OwnMAC, [Next]_vars
  PROVE  OwnMAC'
<1>1. ASSUME UNCHANGED <<arpTable, heard>> PROVE OwnMAC'
  BY <1>1 DEF OwnMAC
<1>2. ASSUME NEW s \in Station, StoreReply(s), UNCHANGED heard PROVE OwnMAC'
  BY <1>2, SwapTwice DEF StoreReply, OwnMAC, NeighboursTypeOK
<1>3. ASSUME NEW s \in Station, LookupMiss(s) PROVE OwnMAC'
  <2>1. /\ heard' = heard \cup {s}
        /\ \A r \in Station : arpTable'[r] = IF r = Swap(s) THEN s ELSE arpTable[r]
    BY <1>3 DEF LookupMiss, LearnSource, NeighboursTypeOK, Key
  <2>2. Swap(Swap(s)) = s
    BY SwapTwice
  <2> QED
    BY <2>1, <2>2 DEF OwnMAC
<1> QED
  BY <1>1, <1>2, <1>3 DEF Next, SendTo, Answer, NeighbourReply,
     NeighbourRequest, UseConnection, Timeout, handleICMP, LoseMessage, vars

\* Every reachable state is well formed.
THEOREM NeighboursTypeCorrect == Spec => []NeighboursTypeOK
<1>1. Init => NeighboursTypeOK
  BY DEF Init, NeighboursTypeOK
<1> QED
  BY <1>1, TypeStep, PTL DEF Spec

\* A packet for a station is sent to the MAC address of another one only if the
\* addresses of both are each other's with their bytes exchanged and the other
\* sent a packet without translation: handleARP stores addresses in host order,
\* the handlers store the senders of packets in network order (translation.go).
THEOREM WhoseMAC == Spec => []OwnMAC
<1>1. Init => NeighboursTypeOK /\ OwnMAC
  BY DEF Init, NeighboursTypeOK, OwnMAC, Key
<1>2. NeighboursTypeOK /\ OwnMAC /\ [Next]_vars => NeighboursTypeOK' /\ OwnMAC'
  BY TypeStep, OwnMACStep
<1> QED
  BY <1>1, <1>2, PTL DEF Spec

=============================================================================
