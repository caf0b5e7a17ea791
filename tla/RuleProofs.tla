----------------------------- MODULE RuleProofs -----------------------------
(***************************************************************************)
(* Configured forwarding rules survive everything but a GRPC request.      *)
(***************************************************************************)
EXTENDS TranslationProofs

Rule == DOMAIN ForwardPorts
RuleHost == {ForwardPorts[p] : p \in Rule} \cap Host

\* What a handler may be about to do: it deletes connections of ports without a
\* rule only, and allocates ports for private tuples without a rule only.
RuleSparing ==
  \A t \in Worker :
    LET w == work[t]
    IN /\ w.pc \in {"expire", "tcp", "take", "store"} => w.pub[2] \notin Rule
       /\ w.pc \in {"alloc", "take", "store"} => w.host \notin RuleHost

RuleInv ==
  /\ \A p \in Rule : /\ portmap[p].static
                     /\ pubTable[<<InitAddr, p>>] = ForwardPorts[p]
  /\ \A h \in RuleHost : \E q \in Rule :
       ForwardPorts[q] = h /\ priTable[h] = <<InitAddr, q>>
  /\ \A k \in PubTuple : pubTable[k] \in RuleHost => k[2] \in Rule
  /\ RuleSparing

\* Rules name ports of the portmap, so their tuples are tuples of the tables.
LEMMA RuleTypes ==
  /\ Rule \subseteq Port
  /\ \A p \in Rule : <<InitAddr, p>> \in PubTuple
BY ForwardAssumption, TupleAssumption DEF Rule, PubTuple

\* The rules InitFlows stores are in force when the handlers start.
LEMMA RuleInit == Init => RuleInv
<1> SUFFICES ASSUME Init PROVE RuleInv
  OBVIOUS
<1>1. ASSUME NEW p \in Rule
      PROVE  portmap[p].static /\ pubTable[<<InitAddr, p>>] = ForwardPorts[p]
  <2>1. p \in Port /\ <<InitAddr, p>> \in PubTuple
    BY RuleTypes
  <2> QED
    BY Zenon, <2>1 DEF Init, Rule, JustUsed, Cleared
<1>2. ASSUME NEW h \in RuleHost
      PROVE  \E q \in Rule : ForwardPorts[q] = h /\ priTable[h] = <<InitAddr, q>>
  BY DEF Init, Rule, RuleHost
<1>3. ASSUME NEW k \in PubTuple, pubTable[k] \in RuleHost
      PROVE  k[2] \in Rule
  BY <1>3, TupleAssumption DEF Init, Rule, RuleHost, Target
<1>4. RuleSparing
  BY DEF Init, RuleSparing, Idle, Thread
<1> QED
  BY <1>1, <1>2, <1>3, <1>4 DEF RuleInv

\* Deleting the connection of a port without a rule leaves the rules alone.
LEMMA DeleteKeepsRules ==
  ASSUME Safe, RuleInv, NEW p \in Port, p \notin Rule, NEW entry,
         deleteOldConnection(p, entry), RuleSparing'
  PROVE  RuleInv'
<1> DEFINE key == <<pubAddr, p>>
<1>1. key \in PubTuple /\ pubTable[key] \notin RuleHost
  BY DEF Safe, TypeOK, PubTuple, RuleInv
<1>2. \A k \in PubTuple : pubTable'[k] = IF k = key THEN None ELSE pubTable[k]
  BY <1>1 DEF deleteOldConnection, Safe, TypeOK
<1>3. \A h \in RuleHost : priTable'[h] = priTable[h]
  BY <1>1 DEF deleteOldConnection, Safe, TypeOK, RuleHost
<1>4. \A q \in Rule : portmap'[q] = portmap[q]
  BY RuleTypes DEF deleteOldConnection, Safe, TypeOK
<1>5. \A q \in Rule : pubTable'[<<InitAddr, q>>] = pubTable[<<InitAddr, q>>]
  BY <1>2, RuleTypes
<1>6. \A k \in PubTuple : pubTable'[k] \in RuleHost => k[2] \in Rule
  BY <1>2, TupleAssumption DEF RuleInv, RuleHost, Target
<1> QED
  BY <1>3, <1>4, <1>5, <1>6 DEF RuleInv

\* So does storing a connection of another private tuple at such a port.
LEMMA StoreKeepsRules ==
  ASSUME Safe, RuleInv, NEW p \in Port, p \notin Rule, NEW h \in Host,
         h \notin RuleHost, NEW b, StoreConnection(p, h, b), RuleSparing'
  PROVE  RuleInv'
<1> DEFINE key == <<pubAddr, p>>
<1>1. key \in PubTuple
  BY DEF Safe, TypeOK, PubTuple
<1>2. \A k \in PubTuple : pubTable'[k] = IF k = key THEN h ELSE pubTable[k]
  BY <1>1 DEF StoreConnection, Safe, TypeOK
<1>3. \A g \in RuleHost : priTable'[g] = priTable[g]
  BY DEF StoreConnection, Safe, TypeOK, RuleHost
<1>4. \A q \in Rule : portmap'[q] = portmap[q]
  BY RuleTypes DEF StoreConnection, Safe, TypeOK
<1>5. \A q \in Rule : pubTable'[<<InitAddr, q>>] = pubTable[<<InitAddr, q>>]
  BY <1>2, RuleTypes
<1>6. \A k \in PubTuple : pubTable'[k] \in RuleHost => k[2] \in Rule
  BY <1>2 DEF RuleInv
<1> QED
  BY <1>3, <1>4, <1>5, <1>6 DEF RuleInv

\* And so does a step that keeps the lookup tables and every static flag.
LEMMA QuietKeepsRules ==
  ASSUME Safe, RuleInv, UNCHANGED <<pubTable, priTable>>,
         \A q \in Port : portmap'[q].static = portmap[q].static, RuleSparing'
  PROVE  RuleInv'
BY RuleTypes DEF RuleInv

-----------------------------------------------------------------------------

\* One thread moves on, to a point where it threatens no rule.
LEMMA SparingStep ==
  ASSUME RuleSparing, NEW t \in Worker,
         \A u \in Thread : u # t => work'[u] = work[u],
         work'[t].pc \in {"expire", "tcp", "take", "store"} => work'[t].pub[2] \notin Rule,
         work'[t].pc \in {"alloc", "take", "store"} => work'[t].host \notin RuleHost
  PROVE  RuleSparing'
BY DEF RuleSparing, Thread

\* A thread that returns, or goes on to a point without deletion or allocation.
LEMMA HarmlessMove ==
  ASSUME Safe, RuleSparing, NEW t \in Worker,
         NEW pc \in PC \ {"expire", "tcp", "alloc", "take", "store"},
         \/ Return(t, pc)
         \/ \E pub, host, flag : Start(t, pc, pub, host, flag)
         \/ Goto(t, pc)
  PROVE  RuleSparing'
<1>1. WorkOK /\ t \in Thread
  BY DEF Safe, WorkOK, TypeOK, Thread
<1>2. work'[t].pc = pc /\ \A u \in Thread : u # t => work'[u] = work[u]
  BY Zenon, <1>1, OneThreadMoves
<1> QED
  BY <1>2, SparingStep

\* Every step but a request for a rule keeps the configured rules.
LEMMA RuleStep ==
  ASSUME Safe, RuleInv, Rpc = {}, [Next]_vars
  PROVE  RuleInv'
<1>0. WorkOK /\ RuleSparing
  BY DEF Safe, WorkOK, TypeOK, RuleInv
<1>t. \A t \in Worker : t \in Thread
  BY DEF Thread
<1>h. \A t \in Thread : work[t].pc \notin Returned \cup {"alloc"} =>
        work[t].pub[2] \in Port
  BY DEF Safe, HandlerState, PubTuple
<1>s. \A p \in Port : ~portmap[p].static => p \notin Rule
  BY Zenon DEF RuleInv
<1>1. ASSUME UNCHANGED <<pubTable, priTable, work>>,
             \A q \in Port : portmap'[q].static = portmap[q].static
      PROVE  RuleInv'
  BY <1>1, QuietKeepsRules DEF RuleInv, RuleSparing
<1>2. ASSUME NEW t \in Worker,
             \/ \E key \in PubTuple : PubMiss(t, key)
             \/ \E key \in PubTuple, flag \in Flag : PubHit(t, key, flag)
             \/ PriToUs(t) \/ AllocFail(t)
             \/ \E host \in Host, flag \in Flag : PriHit(t, host, flag)
      PROVE  RuleInv'
  <2>1. UNCHANGED tables
    BY <1>2 DEF PubMiss, PubHit, PriToUs, AllocFail, PriHit
  <2>2. \E pc \in PC \ {"expire", "tcp", "alloc", "take", "store"} :
          \/ Return(t, pc)
          \/ \E pub, host, flag : Start(t, pc, pub, host, flag)
    BY <1>2 DEF PubMiss, PubHit, PriToUs, AllocFail, PriHit, PC, Returned
  <2> QED
    BY <1>0, <2>1, <2>2, HarmlessMove, QuietKeepsRules DEF tables
<1>3. ASSUME NEW t \in Worker, PubTouch(t) \/ PriTouch(t)
      PROVE  RuleInv'
  <2>1. UNCHANGED <<pubTable, priTable>> /\ Touch(t) /\ work[t].pub[2] \in Port
    BY <1>3, <1>t, <1>h DEF PubTouch, PriTouch, Returned
  <2>2. \A q \in Port : portmap'[q].static = portmap[q].static
    BY <2>1 DEF Touch, Safe, TypeOK, PortEntry
  <2>3. \E pc \in {"idle", "kni", "static"} : Return(t, pc) \/ Goto(t, pc)
    BY <1>3 DEF PubTouch, PriTouch, AfterTouch
  <2> QED
    BY <1>0, <2>1, <2>2, <2>3, HarmlessMove, QuietKeepsRules DEF PC, Returned
<1>4. ASSUME NEW t \in Worker, PubCheck(t) \/ ReadStatic(t)
      PROVE  RuleInv'
  <2> DEFINE p == work[t].pub[2]
  <2>1. UNCHANGED tables /\ p \in Port
    BY <1>4, <1>t, <1>h DEF PubCheck, ReadStatic, Returned
  <2>2. CASE portmap[p].static \/ Goto(t, "touch")
    <3>1. \E pc \in {"idle", "touch"} : Return(t, pc) \/ Goto(t, pc)
      BY <1>4, <2>2 DEF PubCheck, ReadStatic
    <3> QED
      BY <1>0, <2>1, <3>1, HarmlessMove, QuietKeepsRules DEF PC, Returned, tables
  <2>3. CASE ~portmap[p].static /\ \E pc \in {"expire", "tcp"} : Goto(t, pc)
    <3>1. p \notin Rule
      BY <1>s, <2>1, <2>3
    <3>2. /\ work'[t].pub = work[t].pub /\ work'[t].pc \in {"expire", "tcp"}
          /\ \A u \in Thread : u # t => work'[u] = work[u]
      BY <1>0, <1>t, <2>3 DEF Goto, WorkOK, WorkRecord
    <3> QED
      BY <1>0, <2>1, <3>1, <3>2, SparingStep, QuietKeepsRules DEF tables
  <2> QED
    BY <1>4, <2>2, <2>3 DEF PubCheck, ReadStatic
<1>5. ASSUME NEW t \in Worker, NEW host \in Host, NEW flag \in Flag,
             PriMiss(t, host, flag)
      PROVE  RuleInv'
  <2>1. UNCHANGED tables /\ priTable[host] = None
    BY <1>5 DEF PriMiss
  <2>2. host \notin RuleHost
    <3>1. ASSUME NEW h \in RuleHost PROVE priTable[h] # None
      <4>1. PICK q \in Rule : priTable[h] = <<InitAddr, q>>
        BY <3>1 DEF RuleInv
      <4>2. <<InitAddr, q>> \in PubTuple
        BY RuleTypes
      <4> QED
        BY <4>1, <4>2, TupleAssumption
    <3> QED
      BY <2>1, <3>1
  <2>3. /\ work'[t].pc \in {"alloc", "idle"}
        /\ work'[t].pc = "alloc" => work'[t].host = host
        /\ \A u \in Thread : u # t => work'[u] = work[u]
    BY <1>0, <1>t, <1>5 DEF PriMiss, Start, Return, Idle, WorkOK
  <2> QED
    BY <1>0, <2>1, <2>2, <2>3, SparingStep, QuietKeepsRules DEF tables
<1>6. ASSUME NEW t \in Worker, PubExpire(t) \/ checkTCPTermination(t)
      PROVE  RuleInv'
  <2> DEFINE p == work[t].pub[2]
  <2>1. p \in Port /\ p \notin Rule /\ Return(t, "idle")
    BY <1>0, <1>6, <1>t, <1>h DEF PubExpire, checkTCPTermination, Returned,
       RuleSparing
  <2>2. RuleSparing'
    BY <1>0, <2>1, HarmlessMove DEF PC, Returned
  <2>3. CASE \E entry : deleteOldConnection(p, entry)
    BY <2>1, <2>2, <2>3, DeleteKeepsRules
  <2>4. CASE Fin(p, Direction(t)) /\ UNCHANGED <<pubTable, priTable>>
    <3>1. \A q \in Port : portmap'[q].static = portmap[q].static
      BY <2>1, <2>4 DEF Fin, Safe, TypeOK, PortEntry
    <3> QED
      BY <2>2, <2>4, <3>1, QuietKeepsRules
  <2>5. CASE UNCHANGED tables
    BY <2>2, <2>5, QuietKeepsRules DEF tables
  <2> QED
    BY <1>6, <2>3, <2>4, <2>5 DEF PubExpire, checkTCPTermination
<1>7. ASSUME NEW t \in Worker, FindPort(t)
      PROVE  RuleInv'
  <2>0. t \in Thread /\ work[t].host \notin RuleHost
    BY <1>0, <1>t, <1>7 DEF FindPort, RuleSparing
  <2>1. PICK p \in DynamicPort :
          /\ NextPort(p) /\ work'[t].pub = <<pubAddr, p>>
          /\ work'[t].host = work[t].host
          /\ \A u \in Thread : u # t => work'[u] = work[u]
    BY Zenon, <1>0, <1>7, <2>0, FindMoves
  <2>2. p \notin Rule
    BY <1>s, <2>1, DynamicInPort DEF NextPort, FreePort
  <2>3. RuleSparing'
    BY <1>0, <2>0, <2>1, <2>2, SparingStep
  <2> QED
    BY <1>7, <2>3, QuietKeepsRules DEF FindPort, tables
<1>12. ASSUME NEW t \in Worker, TakePort(t)
       PROVE  RuleInv'
  <2> DEFINE p == work[t].pub[2]
  <2>1. /\ t \in Thread /\ p \in Port /\ p \notin Rule
        /\ work[t].host \notin RuleHost
    BY <1>0, <1>t, <1>h, <1>12 DEF TakePort, Returned, RuleSparing
  <2>2. /\ deleteOldConnection(p, Cleared)
        /\ Start(t, "store", <<pubAddr, p>>, work[t].host, work[t].flag)
    BY <1>12 DEF TakePort
  <2> HIDE DEF p
  <2>3. /\ work'[t].pub = <<pubAddr, p>> /\ work'[t].host = work[t].host
        /\ \A u \in Thread : u # t => work'[u] = work[u]
    BY <1>0, <2>1, <2>2 DEF Start, WorkOK
  <2>4. RuleSparing'
    BY <1>0, <2>1, <2>3, SparingStep
  <2> QED
    BY <2>1, <2>2, <2>4, DeleteKeepsRules
<1>8. ASSUME NEW t \in Worker, AllocStore(t)
      PROVE  RuleInv'
  <2>1. /\ work[t].pub[2] \in Port /\ work[t].pub[2] \notin Rule
        /\ work[t].host \in Host /\ work[t].host \notin RuleHost
    BY <1>0, <1>t, <1>h, <1>8 DEF AllocStore, RuleSparing, Safe, HandlerState, Returned
  <2>2. \E pc \in {"static", "idle"} : Return(t, pc) \/ Goto(t, pc)
    BY <1>8 DEF AllocStore, AfterTouch
  <2>3. RuleSparing'
    BY <1>0, <2>2, HarmlessMove DEF PC, Returned
  <2> QED
    BY Zenon, <1>8, <2>1, <2>3, StoreKeepsRules DEF AllocStore
<1>9. ASSUME NEW side \in Side, NEW addr, NEW ok, SetAddress(side, addr, ok)
      PROVE  RuleInv'
  BY <1>1, <1>9 DEF SetAddress, tables
<1>10. ASSUME (\E p \in DynamicPort : OtherProtocol(p)) \/ UNCHANGED vars
       PROVE  RuleInv'
  BY <1>1, <1>10 DEF OtherProtocol, tables, vars
<1>11. CASE Tick
  <2>1. \A q \in Port : portmap'[q].static = portmap[q].static
    BY <1>11 DEF Tick, Safe, TypeOK, PortEntry
  <2> QED
    BY <1>1, <1>11, <2>1 DEF Tick
<1> QED
  BY Zenon, <1>2, <1>3, <1>4, <1>5, <1>6, <1>7, <1>8, <1>9, <1>10, <1>11, <1>12
     DEF Next, PubWork, PriWork, Worker, ChangeInterfaceAddress, handleDHCPAck

\* Configured rules stay in force in both directions: traffic, the timeout, TCP
\* termination, port allocation and address changes never remove one.
THEOREM RulesKept == Spec => []RulesInForce
<1> DEFINE I == Rpc = {} => RuleInv
<1>1. Init => Safe /\ I
  BY SafeInit, RuleInit
<1>2. Safe /\ I /\ [Next]_vars => Safe' /\ I'
  BY SafeStep, RuleStep
<1>3. I => RulesInForce
  BY DEF RulesInForce, RuleInv, Rule, RuleHost
<1> HIDE DEF I
<1> QED
  BY <1>1, <1>2, <1>3, PTL DEF Spec

=============================================================================
