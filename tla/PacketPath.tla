----------------------------- MODULE PacketPath -----------------------------
(***************************************************************************)
(* The way of one packet through PublicToPrivateTranslation or             *)
(* PrivateToPublicTranslation (nat/translation.go): which output of the    *)
(* splitter the handler returns and which packets it hands to dumpPacket   *)
(* on the way.  A handler is a function of what it finds, given here by a  *)
(* record; how the tables come to hold it is in modules Translation,       *)
(* Neighbours and AddressClient.                                           *)
(***************************************************************************)
EXTENDS Sequences

CONSTANT KNI    \* sides whose port has a kni-name

Side == {"public", "private"}
Opposite(s) == IF s = "public" THEN "private" ELSE "public"

\* Outputs of a splitter, which are also the kinds of trace.
Dir == {"drop", "send", "kni"}

\* A trace file belongs to a port and a kind.
Trace == Side \X Dir

ASSUME KNIAssumption == KNI \subseteq Side

\* What a handler finds: the layers of the packet; whether a neighbour or echo
\* message is one it answers; the address of the port it is sent to, if any;
\* whether the DHCP client takes it; the flags of the port and of the public
\* port; the translation entry ("kni" if its address is zero) and whether its
\* public port is one of the portmap; whether the connection is young or static,
\* a port is free, and the MAC address of the receiver is known.
Found ==
  [l3 : {"ip", "arp", "other"}, l4 : {"tcp", "udp", "icmp", "other"},
   neighbour : BOOLEAN, answers : BOOLEAN, toUs : {"no", "unicast", "multicast"},
   dhcp : BOOLEAN, acquired : BOOLEAN, pubAcquired : BOOLEAN,
   entry : {"none", "host", "kni"}, mapped : BOOLEAN, live : BOOLEAN,
   free : BOOLEAN, mac : BOOLEAN]

\* dumpPacket of the packet in hand, and of one that the program made itself.
It(s, d) == [trace |-> <<s, d>>, own |-> FALSE]
Made(s) == [trace |-> <<s, "send">>, own |-> TRUE]

\* The handler returns d after the dumps ds; the first one is of every packet
\* that arrives.
End(s, ds, d) == [dumps |-> <<It(s, "send")>> \o ds, dir |-> d]

\* The packet is dumped with the direction that is returned.
Leave(s, d) == End(s, <<It(s, d)>>, d)

\* An answer of the port itself is dumped and sent, the packet dropped.
Reply(s) == End(s, <<Made(s), It(s, "drop")>>, "drop")

\* An index is out of range: the goroutine panics and the process ends.
Panic(s) == End(s, <<>>, "panic")

-----------------------------------------------------------------------------

\* handleARP
Arp(s, f) == IF s \in KNI THEN Leave(s, "kni")
             ELSE IF f.answers THEN Reply(s) ELSE Leave(s, "drop")

\* parsePacketAndCheckARP for a packet that is not IP.
parsePacketAndCheckARP(s, f) ==
  IF f.l3 = "arp" THEN Arp(s, f) ELSE Leave(s, "drop")

\* The identifier of an ICMP packet has an active translation entry.
IcmpActive(s, f) == s = "public" /\ f.entry # "none" /\ f.live

\* handleIPv6NeighborDiscovery and handleICMP: TRUE when the packet goes no
\* further.  Of a multicast packet only neighbour messages are handled.
IcmpEnds(s, f) ==
  \/ f.toUs # "no" /\ f.neighbour
  \/ f.toUs = "unicast" /\ (f.answers \/ (s \in KNI /\ ~IcmpActive(s, f)))

\* The port answers no echo request for which a KNI interface is there, unless
\* the identifier has an active entry.  A private port has no portmap to look
\* the age of an entry up in.
handleICMP(s, f) ==
  IF s \notin KNI \/ (IcmpActive(s, f) /\ ~f.neighbour)
  THEN IF f.answers THEN Reply(s) ELSE Leave(s, "drop")
  ELSE IF s = "private" /\ f.entry # "none" /\ ~f.neighbour THEN Panic(s)
  ELSE Leave(s, "kni")

\* handleDHCP or handleDHCPv6 took the packet; it may have sent a request.
handleDHCP(s, f) == IF f.answers THEN Reply(s) ELSE Leave(s, "drop")

\* Fault: the translated packet is dumped on the port it came from.
TranslateSamePort(s, f) ==
  IF f.mac THEN End(s, <<It(s, "send")>>, "send")
  ELSE End(s, <<Made(Opposite(s)), It(s, "drop")>>, "drop")

\* The receiver's MAC address is needed; when it is not known a request is
\* sent from the opposite port and the packet dropped.
Translate(s, f) ==
  IF f.mac THEN End(s, <<It(Opposite(s), "send")>>, "send")
  ELSE End(s, <<Made(Opposite(s)), It(s, "drop")>>, "drop")

\* PublicToPrivateTranslation from the lookup on.
PublicLookup(s, f) ==
  IF f.entry = "none" THEN Leave(s, IF s \in KNI /\ f.acquired THEN "kni" ELSE "drop")
  ELSE IF ~f.mapped THEN Panic(s)
  ELSE IF ~f.live THEN Leave(s, "drop")
  ELSE IF f.entry = "kni" THEN Leave(s, "kni") ELSE Translate(s, f)

\* PrivateToPublicTranslation from the lookup on.
PrivateLookup(s, f) ==
  IF f.entry = "none" THEN IF f.acquired /\ f.pubAcquired /\ f.free
                           THEN Translate(s, f) ELSE Leave(s, "drop")
  ELSE IF ~f.mapped THEN Panic(s)
  ELSE IF f.entry = "kni" THEN Leave(s, "kni") ELSE Translate(s, f)

Handle(s, f) ==
  IF f.l3 # "ip" THEN parsePacketAndCheckARP(s, f)
  ELSE IF f.l4 = "other" THEN Leave(s, "drop")
  ELSE IF f.l4 = "icmp" /\ IcmpEnds(s, f) THEN handleICMP(s, f)
  ELSE IF f.l4 = "udp" /\ f.dhcp THEN handleDHCP(s, f)
  ELSE IF s = "public" THEN PublicLookup(s, f)
  ELSE IF s \in KNI /\ f.acquired /\ f.toUs # "no" THEN Leave(s, "kni")
  ELSE PrivateLookup(s, f)

\* What the handler of side s can do.
Passes == [s \in Side |-> {Handle(s, f) : f \in Found}]
=============================================================================
