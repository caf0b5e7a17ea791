--------------------------- MODULE AddressClient ---------------------------
(***************************************************************************)
(* How one interface gets its address, for one IP version: the DHCP client *)
(* (nat/dhcp.go, nat/dhcp6.go), the GRPC requests that set an address      *)
(* (nat/grpc.go) and the copy of the address on the KNI interface          *)
(* (nat/util.go).                                                          *)
(*                                                                         *)
(* The endless loop of sendDHCPRequests, the packet handlers that receive  *)
(* the answers of the servers and the GRPC requests run concurrently and   *)
(* share the subnet structure of the port without a lock, so every access  *)
(* to it is a step.  DHCP and DHCPv6 have the same control: discover is    *)
(* also Solicit, offer Advertise and ack Reply.  Transaction identifiers   *)
(* are left out, because no handler looks at the one of an answer.         *)
(*                                                                         *)
(* The network may lose, delay, reorder and duplicate messages.            *)
(***************************************************************************)
EXTENDS Integers, FiniteSets

CONSTANTS
  Lease,        \* addresses the DHCP servers lease
  Manual,       \* addresses a GRPC request may set
  ZeroAddr,     \* no address
  InitAddr,     \* address in the configuration; ZeroAddr stands for "dhcp"
  Caller,       \* GRPC requests served at the same time
  Handler,      \* instances of the packet handlers of the port
  V6,           \* DHCPv6
  HasKNI,       \* the port has a kni-name
  SetKniIP,     \* option -set-kni-IP
  Timely,       \* a round trip takes longer than storing a field and
                \* less than requestInterval
  Duplicates,   \* an answer may arrive more than once
  MaxInFlight,  \* bound on the messages on their way to the client
  None

ASSUME AddressAssumption == ZeroAddr \notin Lease \cup Manual

ASSUME OptionAssumption ==
  /\ V6 \in BOOLEAN /\ HasKNI \in BOOLEAN
  /\ SetKniIP \in BOOLEAN /\ Timely \in BOOLEAN /\ Duplicates \in BOOLEAN

Addr == Lease \cup Manual \cup {ZeroAddr, InitAddr}

VARIABLES
  addr,       \* Subnet.Addr
  acquired,   \* Subnet.addressAcquired
  lastSent,   \* Subnet.ds.lastDHCPPacketTypeSent
  kniSet,     \* Subnet.kniAddressSet
  kni,        \* addresses of the KNI interface in the kernel
  loop,       \* where the loop of sendDHCPRequests is
  hand,       \* handler of each thread: where it is and its message
  rpc,        \* each GRPC request: where it is, the address it replaces, the one it
              \* gives to the kernel; met, two ran at the same time (history)
  toServer,   \* messages on their way to the servers
  toClient,   \* messages on their way to the client
  granted     \* addresses some server acknowledged (history)

client == <<addr, acquired, lastSent>>
link == <<kniSet, kni>>
network == <<toServer, toClient, granted>>
vars == <<client, link, loop, hand, rpc, network>>

-----------------------------------------------------------------------------
(* Messages.  ok says that the mandatory options of an answer are there and *)
(* decodable; a refusal, or any other answer to a request, is an ack that   *)
(* is not ok, which has the same effect.                                    *)

Discover == [type |-> "discover", addr |-> ZeroAddr]
Request(a) == [type |-> "request", addr |-> a]
ClientMessage == {Discover} \cup {Request(a) : a \in Lease}
Answer == [type : {"offer", "ack"}, addr : Lease, ok : BOOLEAN]

\* A request was sent and its type is not stored yet.
Storing == loop = "mark" \/ \E h \in Handler : hand[h].pc = "mark"

Quiet == /\ toServer = {} /\ toClient = {}
         /\ \A h \in Handler : hand[h].pc = "idle"

\* A request that is not there yet.
Unmet == [pc |-> "idle", old |-> None, new |-> None, met |-> FALSE]

Init ==
  /\ addr = InitAddr /\ acquired = (InitAddr # ZeroAddr)
  /\ lastSent = "none" /\ kniSet = FALSE /\ kni = {}
  /\ loop = "sleep" /\ rpc = [k \in Caller |-> Unmet]
  /\ hand = [h \in Handler |-> [pc |-> "idle", msg |-> None]]
  /\ toServer = {} /\ toClient = {} /\ granted = {}

-----------------------------------------------------------------------------
(* setLinkIPv4KNIAddress and setLinkIPv6KNIAddress.  The kernel refuses to  *)
(* remove an address that is not there and to add one that is; every call   *)
(* may also fail for a reason of its own.                                   *)

LinkAdd(links, a, ok) ==
  IF HasKNI /\ ok /\ a \notin links THEN links \cup {a} ELSE links

AddFails(links, a, ok) == HasKNI /\ (~ok \/ a \in links)

\* Nothing is removed when the old address is zero.
DelFails(a, ok) == HasKNI /\ a # ZeroAddr /\ (~ok \/ a \notin kni)

-----------------------------------------------------------------------------
(* sendDHCPRequests *)

\* Fault: a discover request that was sent once is not repeated.
WakeOnce ==
  /\ loop = "sleep"
  /\ Timely => Quiet
  /\ loop' = IF ~acquired /\ lastSent = "none" THEN "send" ELSE
             IF acquired /\ SetKniIP /\ ~kniSet THEN "kni" ELSE "sleep"
  /\ UNCHANGED <<client, link, hand, rpc, network>>

\* requestInterval is over: the flag decides what this round does.
Wake ==
  /\ loop = "sleep"
  /\ Timely => Quiet
  /\ loop' = IF ~acquired THEN "send" ELSE
             IF SetKniIP /\ ~kniSet THEN "kni" ELSE "sleep"
  /\ UNCHANGED <<client, link, hand, rpc, network>>

LoopSend ==
  /\ loop = "send"
  /\ toServer' = toServer \cup {Discover}
  /\ loop' = "mark"
  /\ UNCHANGED <<client, link, hand, rpc, toClient, granted>>

\* The type of the request is stored after it was sent.
LoopMark ==
  /\ loop = "mark"
  /\ lastSent' = "discover"
  /\ loop' = "sleep"
  /\ UNCHANGED <<addr, acquired, link, hand, rpc, network>>

\* Fault: the result of the call is not looked at.
LoopKNIUnchecked(ok) ==
  /\ loop = "kni"
  /\ kni' = LinkAdd(kni, addr, ok)
  /\ kniSet' = TRUE
  /\ loop' = "sleep"
  /\ UNCHANGED <<client, hand, rpc, network>>

LoopKNI(ok) ==
  /\ loop = "kni"
  /\ kni' = LinkAdd(kni, addr, ok)
  /\ kniSet' = ~AddFails(kni, addr, ok)
  /\ loop' = "sleep"
  /\ UNCHANGED <<client, hand, rpc, network>>

-----------------------------------------------------------------------------
(* handleDHCP and handleDHCPv6 *)

At(h, pc) == hand[h].pc = pc
Move(h, pc) == hand' = [hand EXCEPT ![h].pc = pc]
Finish(h) == hand' = [hand EXCEPT ![h] = [pc |-> "idle", msg |-> None]]

\* Fault: a message that could not be parsed is dispatched all the same.
ReceiveUnparsed(h, m, twice) ==
  /\ At(h, "idle") /\ m \in toClient
  /\ toClient' = IF twice THEN toClient ELSE toClient \ {m}
  /\ hand' = [hand EXCEPT ![h].pc = "dispatch"]
  /\ UNCHANGED <<client, link, loop, rpc, toServer, granted>>

\* Fault: answers are also looked at when the port has an address.
ReceiveAlways(h, m, twice) ==
  /\ At(h, "idle") /\ m \in toClient
  /\ toClient' = IF twice THEN toClient ELSE toClient \ {m}
  /\ hand' = [hand EXCEPT ![h] = [pc |-> "dispatch", msg |-> m]]
  /\ UNCHANGED <<client, link, loop, rpc, toServer, granted>>

\* A message arrives (twice: and is delivered again later).  It is no matter
\* for the client when the port has an address.
Receive(h, m, twice) ==
  /\ At(h, "idle") /\ m \in toClient
  /\ toClient' = IF twice THEN toClient ELSE toClient \ {m}
  /\ IF acquired THEN UNCHANGED hand
     ELSE hand' = [hand EXCEPT ![h] = [pc |-> "dispatch", msg |-> m]]
  /\ UNCHANGED <<client, link, loop, rpc, toServer, granted>>

\* Fault: an answer to a request is taken whatever its type is.
DispatchAnyType(h) ==
  LET m == hand[h].msg
      next == IF lastSent = "discover" /\ m.type = "offer" THEN "send"
              ELSE IF lastSent = "request" /\ m.ok THEN "addr" ELSE "reset"
  IN /\ At(h, "dispatch")
     /\ Move(h, next)
     /\ UNCHANGED <<client, link, loop, rpc, network>>

\* The type sent last decides whether this is the answer that is waited for.
\* handleDHCPOffer looks at nothing more; the others want their options.
Dispatch(h) ==
  LET m == hand[h].msg
      next == IF lastSent = "discover" /\ m.type = "offer"
              THEN IF V6 /\ ~m.ok THEN "reset" ELSE "send"
              ELSE IF lastSent = "request" /\ m.type = "ack" /\ m.ok
              THEN "addr" ELSE "reset"
  IN /\ At(h, "dispatch")
     /\ Move(h, next)
     /\ UNCHANGED <<client, link, loop, rpc, network>>

\* A bad response: start again with a discover request.
Reset(h) ==
  /\ At(h, "reset")
  /\ acquired' = FALSE /\ lastSent' = "none"
  /\ Finish(h)
  /\ UNCHANGED <<addr, link, loop, rpc, network>>

SendRequest(h) ==
  /\ At(h, "send")
  /\ toServer' = toServer \cup {Request(hand[h].msg.addr)}
  /\ Move(h, "mark")
  /\ UNCHANGED <<client, link, loop, rpc, toClient, granted>>

MarkRequest(h) ==
  /\ At(h, "mark")
  /\ lastSent' = "request"
  /\ Finish(h)
  /\ UNCHANGED <<addr, acquired, link, loop, rpc, network>>

\* handleDHCPAck and handleDHCPv6Reply: address, flag, KNI interface.
AckAddr(h) ==
  /\ At(h, "addr")
  /\ addr' = hand[h].msg.addr
  /\ Move(h, "flag")
  /\ UNCHANGED <<acquired, lastSent, link, loop, rpc, network>>

AckFlag(h) ==
  /\ At(h, "flag")
  /\ acquired' = TRUE
  /\ Move(h, "kni")
  /\ UNCHANGED <<addr, lastSent, link, loop, rpc, network>>

\* The error of the call is dropped and kniAddressSet is left alone.
AckKNI(h, ok) ==
  /\ At(h, "kni")
  /\ kni' = LinkAdd(kni, addr, ok)
  /\ Finish(h)
  /\ UNCHANGED <<client, kniSet, loop, rpc, network>>

-----------------------------------------------------------------------------
(* ChangeInterfaceAddress.  It takes no lock, so several run at once.      *)

\* Other requests under way when k starts.
Others(k) == {j \in Caller \ {k} : rpc[j].pc # "idle"}

RpcAddr(k, a) ==
  /\ rpc[k].pc = "idle"
  /\ rpc' = [j \in Caller |->
       LET met == rpc[j].met \/ Others(k) # {}
       IN  IF j = k THEN [pc |-> "args", old |-> addr, new |-> None, met |-> met]
           ELSE [rpc[j] EXCEPT !.met = met]]
  /\ addr' = a
  /\ UNCHANGED <<acquired, lastSent, link, loop, hand, network>>

\* The address that was stored is read again for the call.
RpcArgs(k) ==
  /\ rpc[k].pc = "args"
  /\ rpc' = [rpc EXCEPT ![k] = [pc |-> "link", old |-> rpc[k].old, new |-> addr, met |-> rpc[k].met]]
  /\ UNCHANGED <<client, link, loop, hand, network>>

RpcDone(k) == rpc' = [rpc EXCEPT ![k] = [Unmet EXCEPT !.met = rpc[k].met]]

\* The kernel with the old address replaced by the new one.
Relinked(k, del, add) ==
  IF DelFails(rpc[k].old, del) THEN kni ELSE LinkAdd(kni \ {rpc[k].old}, rpc[k].new, add)

\* Fault: the request succeeds whatever the kernel says.
RpcLinkUnchecked(k, del, add) ==
  /\ rpc[k].pc = "link"
  /\ kni' = Relinked(k, del, add)
  /\ acquired' = TRUE
  /\ RpcDone(k)
  /\ UNCHANGED <<addr, lastSent, kniSet, loop, hand, network>>

\* del, add: the kernel removes the old and adds the new address.
RpcLink(k, del, add) ==
  /\ rpc[k].pc = "link"
  /\ kni' = Relinked(k, del, add)
  /\ acquired' = (~DelFails(rpc[k].old, del)
                    /\ ~AddFails(kni \ {rpc[k].old}, rpc[k].new, add))
  /\ RpcDone(k)
  /\ UNCHANGED <<addr, lastSent, kniSet, loop, hand, network>>

-----------------------------------------------------------------------------
(* DHCP servers and the network *)

Answers(m) == IF m.type = "discover"
              THEN [type : {"offer"}, addr : Lease, ok : BOOLEAN]
              ELSE [type : {"ack"}, addr : {m.addr}, ok : BOOLEAN]

Serve(m, answer) ==
  /\ Timely => ~Storing
  /\ m \in toServer /\ Cardinality(toClient \cup {answer}) <= MaxInFlight
  /\ toServer' = toServer \ {m}
  /\ toClient' = toClient \cup {answer}
  /\ granted' = IF answer.type = "ack" /\ answer.ok
                THEN granted \cup {answer.addr} ELSE granted
  /\ UNCHANGED <<client, link, loop, hand, rpc>>

Lose ==
  /\ Timely => ~Storing
  /\ \/ /\ \E m \in toServer : toServer' = toServer \ {m}
        /\ UNCHANGED toClient
     \/ /\ \E m \in toClient : toClient' = toClient \ {m}
        /\ UNCHANGED toServer
  /\ UNCHANGED <<client, link, loop, hand, rpc, granted>>

-----------------------------------------------------------------------------

HandlerStep(h) == \/ Dispatch(h) \/ Reset(h) \/ SendRequest(h) \/ MarkRequest(h)
                  \/ AckAddr(h) \/ AckFlag(h) \/ \E ok \in BOOLEAN : AckKNI(h, ok)

LoopStep == LoopSend \/ LoopMark \/ \E ok \in BOOLEAN : LoopKNI(ok)

Next ==
  \/ Wake
  \/ LoopStep
  \/ \E h \in Handler : \/ \E m \in toClient, twice \in {FALSE, Duplicates} : Receive(h, m, twice)
                        \/ HandlerStep(h)
  \/ \E k \in Caller : \/ \E a \in Manual : RpcAddr(k, a)
                       \/ RpcArgs(k)
                       \/ \E del, add \in BOOLEAN : RpcLink(k, del, add)
  \/ \E m \in toServer : \E answer \in Answers(m) : Serve(m, answer)
  \/ Lose

Spec == Init /\ [][Next]_vars

\* The goroutine of the loop and the handlers are scheduled and the timer of
\* the loop fires.  A message that is sent again and again gets through now and
\* then, and so does a good answer to it.  The kernel does not refuse an address
\* for ever.
GoodServe(type) ==
  \E m \in toServer : m.type = type /\ \E answer \in Answers(m) :
    answer.ok /\ Serve(m, answer)

GoodReceive(sent, type) ==
  /\ lastSent = sent
  /\ \E h \in Handler, m \in toClient : m.type = type /\ m.ok /\ Receive(h, m, FALSE)

Fairness ==
  /\ WF_vars(Wake) /\ WF_vars(LoopStep) /\ SF_vars(LoopKNI(TRUE))
  /\ \A h \in Handler : WF_vars(HandlerStep(h))
  /\ SF_vars(GoodServe("discover")) /\ SF_vars(GoodServe("request"))
  /\ SF_vars(GoodReceive("discover", "offer"))
  /\ SF_vars(GoodReceive("request", "ack"))
  /\ WF_vars(Lose \/ \E h \in Handler, m \in toClient : Receive(h, m, FALSE))

FairSpec == Spec /\ Fairness

-----------------------------------------------------------------------------
(* Properties *)

\* A GRPC request.
Setting == [pc : {"idle"}, old : {None}, new : {None}, met : BOOLEAN]
             \cup [pc : {"args"}, old : Addr, new : {None}, met : BOOLEAN]
             \cup [pc : {"link"}, old : Addr, new : Addr, met : BOOLEAN]

\* Fields, messages and the places of the threads keep their types; a handler
\* that left handleDHCP at once has no message in hand.
ClientTypeOK ==
  /\ addr \in Addr /\ acquired \in BOOLEAN
  /\ lastSent \in {"none", "discover", "request"}
  /\ kniSet \in BOOLEAN /\ kni \subseteq Addr
  /\ loop \in {"sleep", "send", "mark", "kni"}
  /\ rpc \in [Caller -> Setting]
  /\ hand \in [Handler ->
       [pc : {"dispatch", "reset", "send", "mark", "addr", "flag", "kni"}, msg : Answer]
         \cup {[pc |-> "idle", msg |-> None]}]
  /\ toServer \subseteq ClientMessage /\ toClient \subseteq Answer
  /\ granted \subseteq Lease

\* An address the port got from DHCP is one that a server acknowledged: late,
\* duplicated and reordered answers, and answers to an older request, never
\* make the port use an address it was only offered.
AddressGranted ==
  Manual = {} /\ InitAddr = ZeroAddr /\ acquired => addr \in granted

\* No GRPC request is under way.
NoRequest == \A k \in Caller : rpc[k].pc = "idle"

\* "Port already has address, ignore this traffic": an address the port has is
\* neither dropped nor replaced by DHCP traffic.
KeepsAddress ==
  acquired /\ NoRequest /\ NoRequest' => acquired' /\ addr' = addr

AddressKept == [][KeepsAddress]_vars

\* kniAddressSet promises that the KNI interface of the port has the address of
\* the port, also when GRPC requests replaced that address since and the kernel
\* refused a part of it, as long as no two of them ran at the same time: then the
\* address of one may be stored last and the kernel called last by the other.
KNIAgrees ==
  HasKNI /\ kniSet /\ acquired /\ NoRequest /\ (\A k \in Caller : ~rpc[k].met) =>
    addr \in kni

\* A port without an address gets one in the end, although messages are lost
\* and servers send bad answers: the loop starts over.  It takes one offer per
\* request: a second one that arrives before the acknowledgement starts over too.
AddressAcquired == <>[]acquired

\* With -set-kni-IP the KNI interface gets the address of its port in the end,
\* although the kernel refuses it at first.
KNIConfigured == SetKniIP /\ HasKNI => (acquired ~> addr \in kni)

-----------------------------------------------------------------------------
(* The inductive invariant behind AddressGranted *)

\* A good acknowledgement stands for an address that was granted.
AckGranted(m) == m.type = "ack" /\ m.ok => m.addr \in granted

GrantInv ==
  /\ \A m \in toClient : AckGranted(m)
  /\ \A h \in Handler : hand[h].pc # "idle" => AckGranted(hand[h].msg)
  /\ \A h \in Handler : hand[h].pc \in {"addr", "flag"} =>
       hand[h].msg.type = "ack" /\ hand[h].msg.ok
  /\ (acquired \/ \E h \in Handler : hand[h].pc = "flag") => addr \in granted
=============================================================================
