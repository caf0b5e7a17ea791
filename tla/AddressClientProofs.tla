------------------------ MODULE AddressClientProofs ------------------------
(***************************************************************************)
(* A port uses only addresses that a DHCP server acknowledged, for any     *)
(* number of handlers, leases and messages in flight.                      *)
(***************************************************************************)
EXTENDS AddressClient, TLAPS

\* What the answers of a server look like.
LEMMA AnswersType ==
  ASSUME NEW m \in ClientMessage, NEW answer \in Answers(m)
  PROVE  answer \in Answer
BY DEF ClientMessage, Answers, Answer, Request, Discover

-----------------------------------------------------------------------------

\* Nothing is granted and nothing under way when the program starts.
LEMMA ClientInit == Init => ClientTypeOK
<1> SUFFICES ASSUME Init PROVE ClientTypeOK
  OBVIOUS
<1>1. acquired \in BOOLEAN
  BY DEF Init
<1>2. hand \in [Handler -> {[pc |-> "idle", msg |-> None]}]
  BY DEF Init
<1>3. rpc \in [Caller -> Setting]
  BY DEF Init, Unmet, Setting
<1> QED BY Zenon, <1>1, <1>2, <1>3 DEF Init, ClientTypeOK, Addr

\* Each step of the loop, the handlers, the GRPC request and the network keeps
\* fields, messages and handlers well formed.
LEMMA ClientStep == ClientTypeOK /\ [Next]_vars => ClientTypeOK'
<1> SUFFICES ASSUME ClientTypeOK, [Next]_vars PROVE ClientTypeOK'
  OBVIOUS
<1> USE DEF ClientTypeOK
<1>1. CASE Wake
  BY <1>1 DEF Wake, client, link, network
<1>2. CASE LoopSend
  BY <1>2 DEF LoopSend, client, link, ClientMessage
<1>3. CASE LoopMark
  BY <1>3 DEF LoopMark, link, network
<1>4. ASSUME NEW ok \in BOOLEAN, LoopKNI(ok) PROVE ClientTypeOK'
  BY <1>4 DEF LoopKNI, LinkAdd, AddFails, client, network
<1>5. ASSUME NEW h \in Handler, NEW m \in toClient, NEW twice \in {FALSE, Duplicates},
             Receive(h, m, twice)
      PROVE  ClientTypeOK'
  BY <1>5 DEF Receive, At, client, link
<1>6. ASSUME NEW h \in Handler, HandlerStep(h) PROVE ClientTypeOK'
  <2>1. CASE Dispatch(h)
    BY <2>1 DEF Dispatch, At, Move, client, link, network
  <2>2. CASE Reset(h)
    BY Zenon, <2>2 DEF Reset, At, Finish, link, network
  <2>3. CASE SendRequest(h)
    BY <2>3 DEF SendRequest, At, Move, client, link, ClientMessage, Answer
  <2>4. CASE MarkRequest(h)
    BY <2>4 DEF MarkRequest, At, Finish, link, network
  <2>5. CASE AckAddr(h)
    BY <2>5 DEF AckAddr, At, Move, link, network, Answer, Addr
  <2>6. CASE AckFlag(h)
    BY <2>6 DEF AckFlag, At, Move, link, network
  <2>7. ASSUME NEW ok \in BOOLEAN, AckKNI(h, ok) PROVE ClientTypeOK'
    BY <2>7 DEF AckKNI, LinkAdd, At, Finish, client, network
  <2> QED BY <1>6, <2>1, <2>2, <2>3, <2>4, <2>5, <2>6, <2>7 DEF HandlerStep
<1>7. ASSUME NEW k \in Caller, NEW a \in Manual, RpcAddr(k, a) PROVE ClientTypeOK'
  <2>1. addr' \in Addr
    BY <1>7 DEF RpcAddr, Addr
  <2>2. rpc' \in [Caller -> Setting]
    <3>1. ASSUME NEW j \in Caller PROVE rpc'[j] \in Setting
      <4>1. CASE j = k
        BY <1>7, <4>1 DEF RpcAddr, Setting
      <4>2. CASE j # k
        <5>1. ASSUME NEW met \in BOOLEAN PROVE [rpc[j] EXCEPT !.met = met] \in Setting
          BY <3>1 DEF Setting
        <5> QED BY Zenon, <1>7, <3>1, <4>2, <5>1 DEF RpcAddr
      <4> QED BY <4>1, <4>2
    <3> QED BY Zenon, <1>7, <3>1 DEF RpcAddr
  <2> QED BY Zenon, <1>7, <2>1, <2>2 DEF RpcAddr, link, network
<1>12. ASSUME NEW k \in Caller, RpcArgs(k) PROVE ClientTypeOK'
  <2>1. rpc[k].old \in Addr /\ rpc[k].met \in BOOLEAN
    BY <1>12 DEF RpcArgs, Setting
  <2> DEFINE new == [pc |-> "link", old |-> rpc[k].old, new |-> addr, met |-> rpc[k].met]
  <2>2. rpc' \in [Caller -> Setting]
    <3>1. new \in Setting
      BY <2>1 DEF Setting
    <3>2. rpc' = [rpc EXCEPT ![k] = new]
      BY Zenon, <1>12 DEF RpcArgs
    <3> HIDE DEF new
    <3> QED BY <3>1, <3>2
  <2> QED BY Zenon, <1>12, <2>2 DEF RpcArgs, client, link, network
<1>8. ASSUME NEW k \in Caller, NEW del \in BOOLEAN, NEW add \in BOOLEAN, RpcLink(k, del, add)
      PROVE  ClientTypeOK'
  <2>1. kni' \subseteq Addr
    <3>1. rpc[k].new \in Addr
      BY <1>8 DEF RpcLink, Setting
    <3> QED BY <1>8, <3>1 DEF RpcLink, Relinked, LinkAdd
  <2>2. acquired' \in BOOLEAN
    BY <1>8 DEF RpcLink
  <2>3. rpc' \in [Caller -> Setting]
    BY <1>8 DEF RpcLink, RpcDone, Unmet, Setting
  <2> QED BY Zenon, <1>8, <2>1, <2>2, <2>3 DEF RpcLink, network
<1>9. ASSUME NEW m \in toServer, NEW answer \in Answers(m), Serve(m, answer)
      PROVE  ClientTypeOK'
  BY <1>9, AnswersType DEF Serve, Answer, client, link
<1>10. CASE Lose
  BY <1>10 DEF Lose, client, link
<1>11. CASE UNCHANGED vars
  BY <1>11 DEF vars, client, link, network
<1> HIDE DEF ClientTypeOK
<1> QED
  BY Zenon, <1>1, <1>2, <1>3, <1>4, <1>5, <1>6, <1>7, <1>8, <1>9, <1>10, <1>11, <1>12
     DEF Next, LoopStep

\* Fields, messages in flight and the local state of every handler are well
\* formed in all reachable states, for any servers, handlers and options.
THEOREM ClientTypeCorrect == Spec => []ClientTypeOK
BY ClientInit, ClientStep, PTL DEF Spec

-----------------------------------------------------------------------------

\* A step that neither delivers nor dispatches anything and changes neither the
\* address nor the flag keeps the invariant.
LEMMA GrantKept ==
  ASSUME GrantInv, UNCHANGED <<addr, acquired, hand, toClient, granted>>
  PROVE  GrantInv'
BY DEF GrantInv, AckGranted

\* What a handler does to its own message keeps the invariant, for a port whose
\* address can only come from DHCP.
LEMMA GrantHandler ==
  ASSUME ClientTypeOK, GrantInv, NEW h \in Handler, HandlerStep(h)
  PROVE  GrantInv'
<1> USE DEF ClientTypeOK, GrantInv, AckGranted
<1>1. CASE Dispatch(h)
  BY <1>1 DEF Dispatch, At, Move, client, link, network
<1>2. CASE Reset(h)
  BY <1>2 DEF Reset, At, Finish, link, network
<1>3. CASE SendRequest(h)
  BY <1>3 DEF SendRequest, At, Move, client, link
<1>4. CASE MarkRequest(h)
  BY <1>4 DEF MarkRequest, At, Finish, link, network
<1>5. CASE AckAddr(h)
  BY <1>5 DEF AckAddr, At, Move, link, network
<1>6. CASE AckFlag(h)
  BY <1>6 DEF AckFlag, At, Move, link, network
<1>7. ASSUME NEW ok \in BOOLEAN, AckKNI(h, ok) PROVE GrantInv'
  BY <1>7 DEF AckKNI, At, Finish, client, network
<1> HIDE DEF ClientTypeOK, GrantInv, AckGranted
<1> QED BY <1>1, <1>2, <1>3, <1>4, <1>5, <1>6, <1>7 DEF HandlerStep

\* While no GRPC request sets an address, the invariant is inductive.
LEMMA GrantStep ==
  ASSUME Manual = {}, ClientTypeOK, NoRequest, GrantInv, [Next]_vars
  PROVE  GrantInv' /\ NoRequest'
<1>0. rpc' = rpc => NoRequest'
  BY DEF NoRequest
<1>1. CASE Wake
  BY <1>0, <1>1, GrantKept DEF Wake, client, link, network
<1>2. CASE LoopSend
  BY <1>0, <1>2, GrantKept DEF LoopSend, client, link
<1>3. CASE LoopMark
  BY <1>0, <1>3, GrantKept DEF LoopMark, link, network
<1>4. ASSUME NEW ok \in BOOLEAN, LoopKNI(ok) PROVE GrantInv' /\ NoRequest'
  BY <1>0, <1>4, GrantKept DEF LoopKNI, client, network
<1>5. ASSUME NEW h \in Handler, NEW m \in toClient, NEW twice \in {FALSE, Duplicates},
             Receive(h, m, twice)
      PROVE  GrantInv' /\ NoRequest'
  BY <1>0, <1>5 DEF Receive, At, client, link, ClientTypeOK, GrantInv, AckGranted
<1>6. ASSUME NEW h \in Handler, HandlerStep(h)
      PROVE  GrantInv' /\ NoRequest'
  BY Zenon, <1>0, <1>6, GrantHandler DEF HandlerStep, Dispatch, Reset, SendRequest, MarkRequest,
     AckAddr, AckFlag, AckKNI
<1>7. ASSUME NEW m \in toServer, NEW answer \in Answers(m), Serve(m, answer)
      PROVE  GrantInv' /\ NoRequest'
  BY <1>0, <1>7 DEF Serve, client, link, GrantInv, AckGranted
<1>8. CASE Lose
  BY <1>0, <1>8 DEF Lose, client, link, GrantInv, AckGranted
<1>9. CASE UNCHANGED vars
  BY <1>0, <1>9, GrantKept DEF vars, client, link, network
<1>10. ASSUME NEW k \in Caller PROVE ~RpcArgs(k) /\ ~ \E del, add \in BOOLEAN : RpcLink(k, del, add)
  BY DEF RpcArgs, RpcLink, NoRequest
<1> QED
  BY Zenon, <1>1, <1>2, <1>3, <1>4, <1>5, <1>6, <1>7, <1>8, <1>9, <1>10
     DEF Next, LoopStep

\* An address the port has is one that a server acknowledged, whatever the
\* network does to the messages and however many handlers run at once, as long
\* as DHCP is the only source of addresses.
THEOREM GrantedAddresses ==
  ASSUME Manual = {}, InitAddr = ZeroAddr
  PROVE  Spec => []AddressGranted
<1>1. Init => GrantInv /\ NoRequest
  <2> SUFFICES ASSUME Init PROVE GrantInv /\ NoRequest
    OBVIOUS
  <2>1. \A h \in Handler : hand[h].pc = "idle"
    BY DEF Init
  <2>2. ~acquired /\ toClient = {}
    BY Zenon DEF Init
  <2>3. NoRequest
    BY DEF Init, Unmet, NoRequest
  <2> QED BY <2>1, <2>2, <2>3 DEF GrantInv
<1>2. ClientTypeOK /\ GrantInv /\ NoRequest /\ [Next]_vars
        => GrantInv' /\ NoRequest'
  BY GrantStep
<1>3. GrantInv => AddressGranted
  BY DEF GrantInv, AddressGranted
<1> QED BY <1>1, <1>2, <1>3, ClientTypeCorrect, PTL DEF Spec

-----------------------------------------------------------------------------

\* A handler of a port that has an address is at most busy with its interface.
Settled == acquired => \A h \in Handler : hand[h].pc \in {"idle", "kni"}

\* With one handler an answer is judged and stored before the next is received.
LEMMA SettledStep ==
  ASSUME Manual = {}, \A g, h \in Handler : g = h,
         ClientTypeOK, NoRequest, Settled, [Next]_vars
  PROVE  Settled' /\ NoRequest' /\ KeepsAddress
<1> USE DEF ClientTypeOK, NoRequest, Settled, KeepsAddress
<1>1. ASSUME UNCHANGED <<addr, acquired, hand, rpc>>
      PROVE  Settled' /\ NoRequest' /\ KeepsAddress
  BY <1>1
<1>2. ASSUME NEW h \in Handler, NEW m \in toClient, NEW twice \in {FALSE, Duplicates},
             Receive(h, m, twice)
      PROVE  Settled' /\ NoRequest' /\ KeepsAddress
  BY <1>2 DEF Receive, At, client
<1>3. ASSUME NEW h \in Handler, HandlerStep(h)
      PROVE  Settled' /\ NoRequest' /\ KeepsAddress
  <2>1. CASE Dispatch(h)
    BY <2>1 DEF Dispatch, At, Move, client
  <2>2. CASE Reset(h)
    BY <2>2 DEF Reset, At, Finish
  <2>3. CASE SendRequest(h)
    BY <2>3 DEF SendRequest, At, Move, client
  <2>4. CASE MarkRequest(h)
    BY <2>4 DEF MarkRequest, At, Finish
  <2>5. CASE AckAddr(h)
    BY <2>5 DEF AckAddr, At, Move
  <2>6. CASE AckFlag(h)
    BY <2>6 DEF AckFlag, At, Move
  <2>7. ASSUME NEW ok \in BOOLEAN, AckKNI(h, ok)
        PROVE  Settled' /\ NoRequest' /\ KeepsAddress
    BY <2>7 DEF AckKNI, At, Finish, client
  <2> QED BY <1>3, <2>1, <2>2, <2>3, <2>4, <2>5, <2>6, <2>7 DEF HandlerStep
<1>4. ASSUME NEW k \in Caller PROVE ~RpcArgs(k) /\ ~ \E del, add \in BOOLEAN : RpcLink(k, del, add)
  BY DEF RpcArgs, RpcLink, NoRequest
<1> HIDE DEF ClientTypeOK, NoRequest, Settled, KeepsAddress
<1> QED
  BY Zenon, <1>1, <1>2, <1>3, <1>4 DEF Next, LoopStep, Wake, LoopSend, LoopMark, LoopKNI,
     Serve, Lose, vars, client, link, network

\* A port served by one handler keeps the address it got, whatever answers are
\* lost, late, duplicated or bad.  With two handlers it does not: the flag is
\* read in one step and the answer judged in another.
THEOREM AddressKeptByOneHandler ==
  ASSUME Manual = {}, \A g, h \in Handler : g = h
  PROVE  Spec => AddressKept
<1>1. Init => Settled /\ NoRequest
  BY DEF Init, Unmet, Settled, NoRequest
<1>2. ClientTypeOK /\ Settled /\ NoRequest /\ [Next]_vars
        => Settled' /\ NoRequest' /\ [KeepsAddress]_vars
  BY SettledStep
<1> QED BY <1>1, <1>2, ClientTypeCorrect, PTL DEF Spec, AddressKept

-----------------------------------------------------------------------------

\* Without leases no answer exists, so no handler is ever busy.
LEMMA NoAnswers ==
  ASSUME Lease = {}, ClientTypeOK
  PROVE  \A h \in Handler : hand[h].pc = "idle"
BY DEF ClientTypeOK, Answer

\* Nor does one take a step.
LEMMA NoHandler ==
  ASSUME Lease = {}, ClientTypeOK, NEW h \in Handler
  PROVE  ~HandlerStep(h)
<1>1. hand[h].pc = "idle"
  BY NoAnswers
<1> QED
  BY <1>1 DEF HandlerStep, Dispatch, Reset, SendRequest, MarkRequest, AckAddr,
     AckFlag, AckKNI, At

\* While requests come one after the other, the one under way gives the kernel
\* the address that is stored.
Alone ==
  (\A k \in Caller : ~rpc[k].met) =>
    /\ \A j, k \in Caller : rpc[j].pc # "idle" /\ rpc[k].pc # "idle" => j = k
    /\ \A k \in Caller : rpc[k].pc = "link" => rpc[k].new = addr

\* A handler is what could change the address in between.
LEMMA AloneStep ==
  ASSUME Lease = {}, ClientTypeOK, Alone, [Next]_vars
  PROVE  Alone'
<1>1. ASSUME UNCHANGED <<addr, rpc>> PROVE Alone'
  BY <1>1 DEF Alone
<1>2. ASSUME NEW k \in Caller, NEW a \in Manual, RpcAddr(k, a) PROVE Alone'
  <2>1. \A j \in Caller : rpc'[j].met = (rpc[j].met \/ Others(k) # {})
    BY <1>2 DEF RpcAddr, ClientTypeOK, Setting
  <2>2. \A j \in Caller \ {k} : rpc'[j].pc = rpc[j].pc
    BY <1>2 DEF RpcAddr, ClientTypeOK, Setting
  <2>3. rpc'[k].pc = "args"
    BY <1>2 DEF RpcAddr
  <2> SUFFICES ASSUME \A j \in Caller : ~rpc'[j].met
               PROVE  /\ \A i, j \in Caller : rpc'[i].pc # "idle" /\ rpc'[j].pc # "idle" => i = j
                      /\ \A j \in Caller : rpc'[j].pc = "link" => rpc'[j].new = addr'
    BY DEF Alone
  <2>4. Others(k) = {}
    BY Zenon, <2>1
  <2>5. \A j \in Caller \ {k} : rpc'[j].pc = "idle"
    BY <2>2, <2>4 DEF Others
  <2> QED
    BY Zenon, <2>3, <2>5
<1>3. ASSUME NEW k \in Caller, RpcArgs(k) PROVE Alone'
  BY <1>3 DEF RpcArgs, Alone, ClientTypeOK, Setting, client
<1>4. ASSUME NEW k \in Caller, NEW del \in BOOLEAN, NEW add \in BOOLEAN, RpcLink(k, del, add)
      PROVE  Alone'
  BY <1>4 DEF RpcLink, RpcDone, Unmet, Alone, ClientTypeOK, Setting
<1>5. ASSUME NEW h \in Handler PROVE ~HandlerStep(h)
  BY <1>5, NoHandler
<1> QED
  BY Zenon, <1>1, <1>2, <1>3, <1>4, <1>5 DEF Next, LoopStep, Wake, LoopSend, LoopMark, LoopKNI,
     Receive, Serve, Lose, vars, client, link, network

\* The promise of kniAddressSet is kept by every step of the loop and of the GRPC
\* requests, with each of their kernel calls failing or not.
LEMMA KNIAgreesStep ==
  ASSUME Lease = {}, ClientTypeOK, Alone, KNIAgrees, [Next]_vars
  PROVE  KNIAgrees'
<1>1. ASSUME UNCHANGED <<addr, acquired, kniSet, kni, rpc>> PROVE KNIAgrees'
  BY <1>1 DEF KNIAgrees, NoRequest
<1>2. ASSUME NEW ok \in BOOLEAN, LoopKNI(ok) PROVE KNIAgrees'
  BY <1>2 DEF LoopKNI, LinkAdd, AddFails, KNIAgrees, NoRequest, client
<1>3. ASSUME NEW k \in Caller, NEW a \in Manual, RpcAddr(k, a) PROVE KNIAgrees'
  <2>1. rpc'[k].pc = "args"
    BY <1>3 DEF RpcAddr
  <2> QED
    BY <2>1 DEF KNIAgrees, NoRequest
<1>6. ASSUME NEW k \in Caller, RpcArgs(k) PROVE KNIAgrees'
  <2>1. rpc'[k].pc = "link"
    BY <1>6 DEF RpcArgs, ClientTypeOK, Setting
  <2> QED
    BY <2>1 DEF KNIAgrees, NoRequest
<1>4. ASSUME NEW k \in Caller, NEW del \in BOOLEAN, NEW add \in BOOLEAN, RpcLink(k, del, add)
      PROVE  KNIAgrees'
  <2>1. (\A j \in Caller : ~rpc'[j].met) => \A j \in Caller : ~rpc[j].met
    BY <1>4 DEF RpcLink, RpcDone, Unmet, ClientTypeOK, Setting
  <2>2. HasKNI /\ acquired' => rpc[k].new \in kni'
    BY Zenon, <1>4 DEF RpcLink, Relinked, LinkAdd, AddFails
  <2>3. (\A j \in Caller : ~rpc[j].met) => rpc[k].new = addr'
    BY <1>4 DEF RpcLink, Alone
  <2> QED
    BY Zenon, <2>1, <2>2, <2>3 DEF KNIAgrees
<1>5. ASSUME NEW h \in Handler PROVE ~HandlerStep(h)
  BY <1>5, NoHandler
<1> QED
  BY Zenon, <1>1, <1>2, <1>3, <1>4, <1>5, <1>6 DEF Next, LoopStep, Wake, LoopSend, LoopMark,
     Receive, Serve, Lose, vars, client, link, network

\* For addresses that come from the configuration and from GRPC requests,
\* kniAddressSet is true to the kernel, although ChangeInterfaceAddress replaces
\* the address before calls that may fail and races with the loop, unless two
\* of these requests run at the same time.
THEOREM KNITrue ==
  ASSUME Lease = {}
  PROVE  Spec => []KNIAgrees
<1>1. Init => Alone /\ KNIAgrees
  BY DEF Init, Unmet, Alone, KNIAgrees
<1>2. ClientTypeOK /\ Alone /\ KNIAgrees /\ [Next]_vars => Alone' /\ KNIAgrees'
  BY AloneStep, KNIAgreesStep
<1> QED BY <1>1, <1>2, ClientTypeCorrect, PTL DEF Spec
=============================================================================
