----------------------------- MODULE Neighbours -----------------------------
(***************************************************************************)
(* What one port does with a packet before address translation: ARP and    *)
(* IPv6 neighbour discovery (nat/arp.go, nat/neigh.go), ICMP (nat/icmp.go) *)
(* and the table of neighbours that both translation handlers fill and the *)
(* opposite port's handler reads to send a packet.                         *)
(*                                                                         *)
(* An IPv4 address is in host order everywhere in the program and in       *)
(* network order in a packet; with two bytes per address the conversion is *)
(* the exchange of both.  An IPv6 address is never converted.  A station's *)
(* MAC address is identified by the address of the station.                *)
(***************************************************************************)
EXTENDS Integers, FiniteSets

CONSTANTS
  Station,     \* addresses, in host order, of the stations on the network
  Own,         \* address of the port
  LinkLocal,   \* its IPv6 link-local address
  V6,          \* IPv6
  HasKNI,      \* the port has a kni-name
  IsPublic,    \* the port is public, so it has a portmap
  Id,          \* ICMP identifiers
  None

Byte == 0 .. 255

ASSUME StationAssumption ==
  /\ Station \subseteq Byte \X Byte
  /\ {Own, LinkLocal} \subseteq (Byte \X Byte) \ Station
  /\ None \notin Station

ASSUME PortKindAssumption ==
  /\ V6 \in BOOLEAN /\ HasKNI \in BOOLEAN /\ IsPublic \in BOOLEAN

\* SwapBytesIPv4Addr, and nothing for IPv6.
Swap(a) == IF V6 THEN a ELSE <<a[2], a[1]>>

Key == Station \cup {Swap(s) : s \in Station}

\* The targets, as they are in a request, that the port answers for.
OwnTarget == {Swap(Own)} \cup IF V6 THEN {LinkLocal} ELSE {}

VARIABLES
  arpTable,   \* port.arpTable: MAC address of a key, or None
  asked,      \* addresses, in network order, in requests sent by the port
  replies,    \* stations whose answer is on its way to the port
  icmp,       \* translation entry of each identifier: none, live or old
  heard,      \* stations that sent a packet without translation (history)
  out         \* what became of the last packet

vars == <<arpTable, asked, replies, icmp, heard, out>>

Kni == IF HasKNI THEN "kni" ELSE "drop"

Init ==
  /\ arpTable = [k \in Key |-> None]
  /\ asked = {} /\ replies = {} /\ heard = {}
  /\ icmp = [i \in Id |-> "none"]
  /\ out = "drop"

-----------------------------------------------------------------------------
(* handleARP and handleIPv6NeighborDiscovery *)

\* A station asks for the MAC address of target; plain: the hardware address
\* in the ARP request is blank, or the solicitation has a link layer option.
\* With a KNI interface the kernel answers.
NeighbourRequest(target, plain) ==
  /\ out' = IF HasKNI THEN "kni"
            ELSE IF target \in OwnTarget /\ plain THEN "answer" ELSE "drop"
  /\ UNCHANGED <<arpTable, asked, replies, icmp, heard>>

\* Fault: the address in the answer is taken as it is.
StoreReplyUnswapped(s) == arpTable' = [arpTable EXCEPT ![Swap(s)] = s]

\* The sender address of the answer, converted to host order, is the key.
StoreReply(s) == arpTable' = [arpTable EXCEPT ![Swap(Swap(s))] = s]

\* option: an advertisement has a link layer option.
NeighbourReply(s, option) ==
  /\ s \in replies
  /\ replies' = replies \ {s}
  /\ IF V6 /\ ~option THEN UNCHANGED arpTable ELSE StoreReply(s)
  /\ out' = Kni
  /\ UNCHANGED <<asked, icmp, heard>>

\* Fault: the request carries the address in host order.
SendToUnswapped(s) ==
  /\ IF arpTable[s] = None
     THEN asked' = asked \cup {s} /\ out' = "drop"
     ELSE UNCHANGED asked /\ out' = "send"
  /\ UNCHANGED <<arpTable, replies, icmp, heard>>

\* getMACForIPv4 and getMACForIPv6 for a packet to station s: a packet whose
\* station is unknown is dropped after a request was sent.
SendTo(s) ==
  /\ IF arpTable[s] = None
     THEN asked' = asked \cup {Swap(s)} /\ out' = "drop"
     ELSE UNCHANGED asked /\ out' = "send"
  /\ UNCHANGED <<arpTable, replies, icmp, heard>>

\* Fault: the address of the receiver is the key.
LearnDestination(s) ==
  \E k \in Station : arpTable' = [arpTable EXCEPT ![k] = s]

\* The source address is the key as it is in the packet.
LearnSource(s) == arpTable' = [arpTable EXCEPT ![Swap(s)] = s]

\* A packet of station s for which the translation handler finds no entry.
LookupMiss(s) ==
  /\ LearnSource(s)
  /\ heard' = heard \cup {s}
  /\ UNCHANGED <<asked, replies, icmp, out>>

-----------------------------------------------------------------------------
(* handleICMP *)

\* A request or an answer with identifier i, sent to the port itself or not.
\* "panic": the age is read from a portmap that the port does not have.
handleICMP(i, toUs, echoRequest) ==
  /\ out' = IF toUs /\ HasKNI /\ icmp[i] = "none" THEN "kni"
            ELSE IF toUs /\ HasKNI /\ ~IsPublic THEN "panic"
            ELSE IF toUs /\ HasKNI /\ icmp[i] = "old" THEN "kni"
            ELSE IF toUs /\ echoRequest THEN "answer" ELSE "translate"
  /\ UNCHANGED <<arpTable, asked, replies, icmp, heard>>

\* The translation handlers make and use a connection of an identifier.
UseConnection(i) ==
  /\ icmp' = [icmp EXCEPT ![i] = "live"]
  /\ UNCHANGED <<arpTable, asked, replies, heard, out>>

\* connectionTimeout passes, and the old entry may be deleted later.
Timeout(i) ==
  /\ icmp[i] # "none"
  /\ icmp' = [icmp EXCEPT ![i] = IF @ = "live" THEN "old" ELSE "none"]
  /\ UNCHANGED <<arpTable, asked, replies, heard, out>>

-----------------------------------------------------------------------------
(* The stations *)

Answer(s) ==
  /\ Swap(s) \in asked
  /\ asked' = asked \ {Swap(s)}
  /\ replies' = replies \cup {s}
  /\ UNCHANGED <<arpTable, icmp, heard, out>>

LoseMessage ==
  /\ \/ /\ \E a \in asked : asked' = asked \ {a}
        /\ UNCHANGED replies
     \/ /\ \E s \in replies : replies' = replies \ {s}
        /\ UNCHANGED asked
  /\ UNCHANGED <<arpTable, icmp, heard, out>>

Next ==
  \/ \E s \in Station : \/ SendTo(s) \/ LookupMiss(s) \/ Answer(s)
                        \/ \E option \in BOOLEAN : NeighbourReply(s, option)
  \/ \E target \in Key \cup OwnTarget, plain \in BOOLEAN :
       NeighbourRequest(target, plain)
  \/ \E i \in Id : \/ UseConnection(i) \/ Timeout(i)
                   \/ \E toUs, echoRequest \in BOOLEAN :
                        handleICMP(i, toUs, echoRequest)
  \/ LoseMessage

Spec == Init /\ [][Next]_vars

\* Packets for a station keep coming, requests that are repeated are answered
\* now and then, and an answer that is sent again and again arrives.
Fairness ==
  \A s \in Station : /\ WF_vars(SendTo(s)) /\ SF_vars(Answer(s))
                     /\ SF_vars(NeighbourReply(s, TRUE))

FairSpec == Spec /\ Fairness

-----------------------------------------------------------------------------
(* Properties *)

\* MAC addresses in the table belong to stations, requests are only about
\* stations, and every packet has one of the known ends.
NeighboursTypeOK ==
  /\ arpTable \in [Key -> Station \cup {None}]
  /\ asked \subseteq {Swap(s) : s \in Station}
  /\ replies \subseteq Station /\ heard \subseteq Station
  /\ icmp \in [Id -> {"none", "live", "old"}]
  /\ out \in {"drop", "kni", "answer", "send", "translate", "panic"}

\* A packet goes to the station it is addressed to, with one exception: the
\* station whose address is the other one's with its bytes exchanged, if it sent
\* a packet that had no translation, whose sender is stored in network order.
\* An answer to a request never misleads.
OwnMAC ==
  \A s \in Station : \/ arpTable[s] \in {None, s}
                     \/ arpTable[s] = Swap(s) /\ Swap(s) \in heard

\* "Store new local network entry in ARP cache": the sender of a packet without
\* a translation entry is known from then on, and no request is sent for it.
HeardIsKnown == \A s \in heard : arpTable[s] # None

\* Packets for a station are dropped for a while only: whatever requests and
\* answers are lost, there is an entry under the key that is looked up, which
\* is its own but for the exception of OwnMAC.
Resolved == \A s \in Station : <>[](arpTable[s] # None)

\* "port.portmap exists because port is public": handleICMP never reads the
\* portmap of a private port.
PortmapExists == out # "panic"
=============================================================================
