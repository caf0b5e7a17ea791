------------------------- MODULE TranslationProofs -------------------------
(***************************************************************************)
(* Proofs about Translation, for any number of hosts, ports, addresses,    *)
(* handlers and GRPC requests.                                             *)
(***************************************************************************)
EXTENDS Translation, TLAPS

Safe == TypeOK /\ HandlerState

\* The ports that allocNewPort gives out are ports of the portmap.
LEMMA DynamicInPort == DynamicPort \subseteq Port
  BY PortAssumption DEF DynamicPort, Port

\* deleteOldConnection keeps the three tables well formed.
LEMMA DeleteType ==
  ASSUME TypeOK, NEW p \in Port, NEW entry \in PortEntry,
         deleteOldConnection(p, entry)
  PROVE  /\ portmap' \in [Port -> PortEntry]
         /\ pubTable' \in [PubTuple -> Target \cup {None}]
         /\ priTable' \in [Host -> PubTuple \cup {None}]
BY TupleAssumption DEF TypeOK, deleteOldConnection, PubTuple, Target

\* Entries written to the portmap are well formed.
LEMMA EntryType ==
  /\ Cleared \in PortEntry
  /\ ReusableSoon \in PortEntry
  /\ \A b \in BOOLEAN : JustUsed(b) \in PortEntry
<1>1. Expired \in 0 .. Expired /\ 0 \in 0 .. Expired
        /\ ConnTimeout - ReuseTimeout \in 0 .. Expired
  BY TimeAssumption DEF Expired
<1>2. Cleared \in PortEntry
  BY <1>1 DEF Cleared, PortEntry
<1> QED
  BY Zenon, <1>1, <1>2 DEF ReusableSoon, JustUsed, PortEntry

\* StoreConnection keeps the three tables well formed.
LEMMA StoreType ==
  ASSUME TypeOK, NEW p \in Port, NEW target \in Target, NEW b \in BOOLEAN,
         StoreConnection(p, target, b)
  PROVE  /\ portmap' \in [Port -> PortEntry]
         /\ pubTable' \in [PubTuple -> Target \cup {None}]
         /\ priTable' \in [Host -> PubTuple \cup {None}]
<1>1. JustUsed(b) \in PortEntry
  BY EntryType
<1>2. <<pubAddr, p>> \in PubTuple
  BY DEF TypeOK, PubTuple
<1> QED
  BY <1>1, <1>2 DEF TypeOK, StoreConnection, Target

-----------------------------------------------------------------------------
(* Type correctness, together with what each handler has in hand *)

WorkOK == work \in [Thread -> WorkRecord] /\ HandlerState

\* Returning from a handler leaves all threads well formed.
LEMMA ReturnOK ==
  ASSUME WorkOK, NEW t \in Thread, NEW dir \in Returned, Return(t, dir)
  PROVE  WorkOK'
<1>1. [Idle EXCEPT !.pc = dir] \in WorkRecord
  BY DEF Idle, WorkRecord, PC
<1>2. work' = [work EXCEPT ![t] = [Idle EXCEPT !.pc = dir]]
  BY DEF Return
<1>3. work'[t].pc = dir
  BY <1>2 DEF WorkOK, Idle
<1>4. \A u \in Thread : u # t => work'[u] = work[u]
  BY <1>2 DEF WorkOK
<1>5. HandlerState'
  BY <1>3, <1>4 DEF WorkOK, HandlerState, Returned
<1> QED
  BY <1>1, <1>2, <1>5 DEF WorkOK

\* Starting a section of a handler with suitable tuples in hand does too.
LEMMA StartOK ==
  ASSUME WorkOK, NEW t \in Thread, NEW pc \in PC,
         NEW pub \in PubTuple \cup {None}, NEW host \in Target \cup {None},
         NEW flag \in {"fin", "rst", "ack", "none"},
         Start(t, pc, pub, host, flag),
         pc \notin Returned \cup {"alloc"} => pub \in PubTuple,
         pc \in {"alloc", "take", "store"} => host \in Host,
         pc = "enable" => host \in Target
  PROVE  WorkOK'
<1> DEFINE w == [pc |-> pc, pub |-> pub, host |-> host, flag |-> flag,
                 live |-> {}]
<1>1. w \in WorkRecord
  BY DEF WorkRecord
<1>2. work' = [work EXCEPT ![t] = w]
  BY DEF Start
<1>3. work'[t].pc = pc /\ work'[t].pub = pub /\ work'[t].host = host
  BY <1>2 DEF WorkOK
<1>4. \A u \in Thread : u # t => work'[u] = work[u]
  BY <1>2 DEF WorkOK
<1>5. HandlerState'
  BY <1>3, <1>4 DEF WorkOK, HandlerState
<1> QED
  BY <1>1, <1>2, <1>5 DEF WorkOK

\* So does going on to a point that needs the public tuple only.
LEMMA GotoOK ==
  ASSUME WorkOK, NEW t \in Thread, work[t].pub \in PubTuple,
         NEW pc \in {"touch", "expire", "static", "tcp"}, Goto(t, pc)
  PROVE  WorkOK'
<1>1. work' = [work EXCEPT ![t] = [work[t] EXCEPT !.pc = pc]]
  BY DEF Goto
<1>2. [work[t] EXCEPT !.pc = pc] \in WorkRecord
  BY DEF WorkOK, WorkRecord, PC
<1>3. work'[t].pc = pc /\ work'[t].pub = work[t].pub
  BY <1>1 DEF WorkOK, WorkRecord
<1>4. \A u \in Thread : u # t => work'[u] = work[u]
  BY <1>1 DEF WorkOK
<1>5. HandlerState'
  BY <1>3, <1>4 DEF WorkOK, HandlerState
<1> QED
  BY <1>1, <1>2, <1>5 DEF WorkOK

\* Finding a port changes the thread's point, public tuple and history only.
LEMMA FindMoves ==
  ASSUME WorkOK, NEW t \in Thread, FindPort(t)
  PROVE  \E p \in DynamicPort :
           /\ NextPort(p) /\ lastport' = p
           /\ work'[t] = [work[t] EXCEPT !.pc = "take", !.pub = <<pubAddr, p>>,
                                        !.live = LiveHosts]
           /\ work'[t].pc = "take" /\ work'[t].pub = <<pubAddr, p>>
           /\ work'[t].host = work[t].host /\ work'[t].live = LiveHosts
           /\ DOMAIN work' = Thread
           /\ \A u \in Thread : u # t => work'[u] = work[u]
<1>1. PICK p \in DynamicPort :
        /\ NextPort(p) /\ lastport' = p
        /\ work' = [work EXCEPT ![t].pc = "take", ![t].pub = <<pubAddr, p>>,
                                ![t].live = LiveHosts]
  BY Zenon DEF FindPort
<1> DEFINE w == [work[t] EXCEPT !.pc = "take", !.pub = <<pubAddr, p>>,
                               !.live = LiveHosts]
<1>2. /\ work'[t] = w /\ DOMAIN work' = Thread
      /\ \A u \in Thread : u # t => work'[u] = work[u]
  BY <1>1 DEF WorkOK
<1>3. work[t] \in WorkRecord
  BY DEF WorkOK
<1>4. /\ w.pc = "take" /\ w.pub = <<pubAddr, p>> /\ w.live = LiveHosts
      /\ w.host = work[t].host
  BY <1>3 DEF WorkRecord
<1> HIDE DEF w
<1> QED
  BY Zenon, <1>1, <1>2, <1>4 DEF w

\* It leaves all threads well formed.
LEMMA FindOK ==
  ASSUME WorkOK, TypeOK, NEW t \in Thread, FindPort(t), work[t].host \in Host
  PROVE  WorkOK'
<1>1. PICK p \in DynamicPort :
        /\ work'[t] = [work[t] EXCEPT !.pc = "take", !.pub = <<pubAddr, p>>,
                                     !.live = LiveHosts]
        /\ work'[t].pc = "take" /\ work'[t].pub = <<pubAddr, p>>
        /\ work'[t].host = work[t].host
        /\ DOMAIN work' = Thread
        /\ \A u \in Thread : u # t => work'[u] = work[u]
  BY Zenon, FindMoves
<1>2. <<pubAddr, p>> \in PubTuple
  BY DynamicInPort DEF TypeOK, PubTuple
<1>3. LiveHosts \in SUBSET Host /\ "take" \in PC
  BY DEF LiveHosts, PC, Critical
<1>4. work[t] \in WorkRecord
  BY DEF WorkOK
<1>5. work'[t] \in WorkRecord
  BY Zenon, <1>1, <1>2, <1>3, <1>4 DEF WorkRecord
<1>6. HandlerState'
  BY Zenon, <1>1, <1>2 DEF WorkOK, HandlerState
<1>7. \A u \in Thread : work'[u] \in WorkRecord
  BY <1>1, <1>5 DEF WorkOK
<1>8. work' = [u \in Thread |-> work'[u]]
  BY Zenon, <1>1 DEF FindPort
<1>9. work' \in [Thread -> WorkRecord]
  BY <1>7, <1>8
<1> QED
  BY <1>6, <1>9 DEF WorkOK

\* And so does what follows a found or a new connection.
LEMMA AfterTouchOK ==
  ASSUME WorkOK, NEW t \in Thread, work[t].pub \in PubTuple, AfterTouch(t)
  PROVE  WorkOK'
BY GotoOK, ReturnOK DEF AfterTouch, Returned

\* Refreshing lastused keeps the portmap well formed.
LEMMA TouchType ==
  ASSUME TypeOK, NEW t \in Thread, work[t].pub \in PubTuple, Touch(t)
  PROVE  portmap' \in [Port -> PortEntry]
<1> DEFINE p == work[t].pub[2]
<1>1. p \in Port /\ portmap[p] \in PortEntry
  BY DEF TypeOK, PubTuple
<1>2. [portmap[p] EXCEPT !.age = 0] \in PortEntry
  BY <1>1, TimeAssumption DEF PortEntry, Expired
<1>3. portmap' = [portmap EXCEPT ![p] = [portmap[p] EXCEPT !.age = 0]]
  BY DEF Touch
<1> QED
  BY <1>1, <1>2, <1>3 DEF TypeOK

\* Recording a FIN keeps the portmap well formed.
LEMMA FinType ==
  ASSUME TypeOK, NEW p \in Port, NEW dir \in {"pub2pri", "pri2pub"}, Fin(p, dir)
  PROVE  portmap' \in [Port -> PortEntry]
<1>1. portmap[p] \in PortEntry
  BY DEF TypeOK
<1> DEFINE pme == portmap[p]
           one == [pme EXCEPT !.finCount = 1]
<1>2. one \in PortEntry /\ [pme EXCEPT !.finCount = 2] \in PortEntry
  BY <1>1 DEF PortEntry
<1> HIDE DEF one
<1>3. [one EXCEPT !.dir = dir] \in PortEntry
  BY <1>2 DEF PortEntry
<1> USE DEF one
<1>4. \E e \in PortEntry : portmap' = [portmap EXCEPT ![p] = e]
  <2>1. CASE pme.finCount = 0
    BY Zenon, <1>3, <2>1 DEF Fin
  <2>2. CASE pme.finCount # 0 /\ pme.finCount = 1 /\ pme.dir # dir
    BY Zenon, <1>2, <2>2 DEF Fin
  <2>3. CASE pme.finCount # 0 /\ ~(pme.finCount = 1 /\ pme.dir # dir)
    BY <1>1, <2>3, Zenon DEF Fin
  <2> QED
    BY <2>1, <2>2, <2>3
<1> QED
  BY <1>4 DEF TypeOK

\* Time passing keeps the portmap well formed.
LEMMA TickType ==
  ASSUME TypeOK, Tick
  PROVE  portmap' \in [Port -> PortEntry]
<1> SUFFICES ASSUME NEW p \in Port
             PROVE  [portmap[p] EXCEPT !.age = Older(@)] \in PortEntry
  BY DEF Tick
<1>1. portmap[p] \in PortEntry
  BY DEF TypeOK
<1>2. Older(portmap[p].age) \in 0 .. Expired
  BY <1>1, TimeAssumption DEF PortEntry, Older, Expired
<1> QED
  BY <1>1, <1>2 DEF PortEntry

\* The initial state is well formed.
LEMMA SafeInit == Init => Safe
<1> SUFFICES ASSUME Init PROVE Safe
  OBVIOUS
<1>1. portmap \in [Port -> PortEntry]
  BY Zenon, EntryType DEF Init
<1>2. pubTable \in [PubTuple -> Target \cup {None}]
  BY ForwardAssumption DEF Init
<1>3. lastport \in DynamicPort
  BY PortAssumption DEF Init, DynamicPort
<1>4. Idle \in WorkRecord
  BY DEF Idle, WorkRecord, PC, Returned
<1>5. work \in [Thread -> WorkRecord]
  BY <1>4 DEF Init
<1>6. HandlerState
  BY DEF Init, HandlerState, Idle, Returned
<1>7. pubAddr \in PubAddr /\ pastAddr \subseteq PubAddr
  BY TupleAssumption DEF Init
<1> QED
  BY Zenon, <1>1, <1>2, <1>3, <1>5, <1>6, <1>7 DEF Init, Safe, TypeOK

\* Every step keeps the state well formed: one case per action.
LEMMA SafeStep == Safe /\ [Next]_vars => Safe'
<1> SUFFICES ASSUME Safe, [Next]_vars PROVE Safe'
  OBVIOUS
<1> USE DEF Safe
<1>0. WorkOK
  BY DEF WorkOK, TypeOK
<1>q. ASSUME WorkOK',
             portmap' \in [Port -> PortEntry],
             pubTable' \in [PubTuple -> Target \cup {None}],
             priTable' \in [Host -> PubTuple \cup {None}],
             lastport' \in DynamicPort, mutex' \in Thread \cup {None},
             pubAddr' \in PubAddr /\ pastAddr' \subseteq PubAddr,
             acquired' \in [Side -> BOOLEAN]
      PROVE  Safe'
  BY <1>q DEF WorkOK, TypeOK
<1>w. \A t \in Thread : /\ work[t].flag \in {"fin", "rst", "ack", "none"}
                        /\ work[t].host \in Target \cup {None}
                        /\ work[t].pub \in PubTuple \cup {None}
  BY DEF TypeOK, WorkRecord
<1>f. \A f \in Flag : f \in {"fin", "rst", "ack", "none"}
  BY DEF Flag
<1>p. \A k \in PubTuple : k[2] \in Port
  BY DEF PubTuple
<1>1. CASE UNCHANGED vars
  BY <1>1, <1>0, <1>q DEF vars, TypeOK, WorkOK, HandlerState
<1>2. ASSUME NEW t \in PubWorker, NEW key \in PubTuple, PubMiss(t, key)
      PROVE  Safe'
  <2>1. WorkOK'
    BY <1>0, <1>2, ReturnOK DEF PubMiss, Thread, Worker, Returned
  <2> QED
    BY <1>2, <1>q, <2>1 DEF PubMiss, TypeOK, tables
<1>3. ASSUME NEW t \in PubWorker, NEW key \in PubTuple, NEW flag \in Flag,
             PubHit(t, key, flag)
      PROVE  Safe'
  <2>1. pubTable[key] \in Target \cup {None}
    BY DEF TypeOK
  <2>2. WorkOK'
    BY Zenon, <1>0, <1>3, <1>f, <2>1, StartOK DEF PubHit, Thread, Worker, PC, Returned
  <2> QED
    BY <1>3, <1>q, <2>2 DEF PubHit, TypeOK, tables
<1>4. ASSUME NEW t \in PubWorker, PubCheck(t)
      PROVE  Safe'
  <2>1. work[t].pub \in PubTuple
    BY <1>4 DEF PubCheck, HandlerState, Thread, Worker, Returned
  <2>2. WorkOK'
    BY <1>0, <1>4, <2>1, GotoOK DEF PubCheck, Thread, Worker
  <2> QED
    BY <1>4, <1>q, <2>2 DEF PubCheck, TypeOK, tables
<1>5. ASSUME NEW t \in PubWorker, PubExpire(t)
      PROVE  Safe'
  <2>1. work[t].pub \in PubTuple
    BY <1>5 DEF PubExpire, HandlerState, Thread, Worker, Returned
  <2>2. WorkOK'
    BY <1>0, <1>5, ReturnOK DEF PubExpire, Thread, Worker, Returned
  <2>3. /\ portmap' \in [Port -> PortEntry]
        /\ pubTable' \in [PubTuple -> Target \cup {None}]
        /\ priTable' \in [Host -> PubTuple \cup {None}]
    BY <1>5, <1>p, <2>1, DeleteType, EntryType DEF PubExpire
  <2> QED
    BY <1>5, <1>q, <2>2, <2>3 DEF PubExpire, LockedStep, TypeOK
<1>6. ASSUME NEW t \in PubWorker, PubTouch(t)
      PROVE  Safe'
  <2>1. t \in Thread /\ work[t].pub \in PubTuple
    BY <1>6 DEF PubTouch, HandlerState, Thread, Worker, Returned
  <2>2. WorkOK'
    BY <1>0, <1>6, <2>1, ReturnOK, AfterTouchOK DEF PubTouch, Returned
  <2>3. portmap' \in [Port -> PortEntry]
    BY <1>6, <2>1, TouchType DEF PubTouch
  <2> QED
    BY <1>6, <1>q, <2>2, <2>3 DEF PubTouch, TypeOK
<1>7. ASSUME NEW t \in PriWorker, PriToUs(t)
      PROVE  Safe'
  <2>1. WorkOK'
    BY <1>0, <1>7, ReturnOK DEF PriToUs, Thread, Worker, Returned
  <2> QED
    BY <1>7, <1>q, <2>1 DEF PriToUs, TypeOK, tables
<1>8. ASSUME NEW t \in PriWorker, NEW host \in Host, NEW flag \in Flag,
             PriMiss(t, host, flag)
      PROVE  Safe'
  <2>1. t \in Thread /\ host \in Target
    BY DEF Thread, Worker, Target
  <2>2. CASE Start(t, "alloc", None, host, flag)
    <3>1. WorkOK'
      BY <1>0, <1>f, <2>1, <2>2, StartOK DEF PC
    <3> QED
      BY <1>8, <1>q, <3>1 DEF PriMiss, TypeOK, tables
  <2>3. CASE Return(t, "idle")
    <3>1. WorkOK'
      BY <1>0, <2>1, <2>3, ReturnOK DEF Returned
    <3> QED
      BY <1>8, <1>q, <3>1 DEF PriMiss, TypeOK, tables
  <2> QED
    BY <1>8, <2>2, <2>3 DEF PriMiss
<1>9. ASSUME NEW t \in PriWorker, NEW host \in Host, NEW flag \in Flag,
             PriHit(t, host, flag)
      PROVE  Safe'
  <2>1. t \in Thread /\ host \in Target /\ priTable[host] \in PubTuple
    BY <1>9 DEF PriHit, TypeOK, Thread, Worker, Target
  <2>2. WorkOK'
    BY Zenon, <1>0, <1>9, <1>f, <2>1, StartOK DEF PriHit, PC
  <2> QED
    BY <1>9, <1>q, <2>2 DEF PriHit, TypeOK, tables
<1>10. ASSUME NEW t \in PriWorker, PriTouch(t)
       PROVE  Safe'
  <2>1. t \in Thread /\ work[t].pub \in PubTuple
    BY <1>10 DEF PriTouch, HandlerState, Thread, Worker, Returned
  <2>2. WorkOK'
    BY <1>0, <1>10, <2>1, ReturnOK, AfterTouchOK DEF PriTouch, Returned
  <2>3. portmap' \in [Port -> PortEntry]
    BY <1>10, <2>1, TouchType DEF PriTouch
  <2> QED
    BY <1>10, <1>q, <2>2, <2>3 DEF PriTouch, TypeOK
<1>11. ASSUME NEW t \in PriWorker, FindPort(t)
       PROVE  Safe'
  <2>1. t \in Thread /\ work[t].host \in Host
    BY <1>11 DEF FindPort, HandlerState, Thread, Worker
  <2>2. WorkOK'
    BY Zenon, <1>0, <1>11, <2>1, FindOK
  <2>3. lastport' \in DynamicPort
    BY <1>11 DEF FindPort
  <2> QED
    BY <1>11, <1>q, <2>1, <2>2, <2>3 DEF FindPort, Lock, tables, TypeOK
<1>22. ASSUME NEW t \in PriWorker, TakePort(t)
       PROVE  Safe'
  <2> DEFINE p == work[t].pub[2]
  <2>1. t \in Thread /\ work[t].host \in Host /\ p \in Port
    BY <1>22, <1>p DEF TakePort, HandlerState, Thread, Worker, Returned
  <2>2. /\ deleteOldConnection(p, Cleared)
        /\ Start(t, "store", <<pubAddr, p>>, work[t].host, work[t].flag)
    BY <1>22 DEF TakePort
  <2>3. <<pubAddr, p>> \in PubTuple
    BY <2>1 DEF PubTuple, TypeOK
  <2>4. "store" \in PC /\ work[t].host \in Target
    BY <2>1 DEF PC, Critical, Reserved, Target
  <2> HIDE DEF p
  <2>5. WorkOK'
    BY <1>0, <1>w, <2>1, <2>2, <2>3, <2>4, StartOK
  <2>6. /\ portmap' \in [Port -> PortEntry]
        /\ pubTable' \in [PubTuple -> Target \cup {None}]
        /\ priTable' \in [Host -> PubTuple \cup {None}]
    BY <2>1, <2>2, DeleteType, EntryType
  <2> QED
    BY <1>22, <1>q, <2>5, <2>6 DEF TakePort, TypeOK
<1>12. ASSUME NEW t \in PriWorker, AllocFail(t)
       PROVE  Safe'
  <2>1. WorkOK'
    BY <1>0, <1>12, ReturnOK DEF AllocFail, Thread, Worker, Returned
  <2> QED
    BY <1>12, <1>q, <2>1 DEF AllocFail, LockedStep, TypeOK, tables
<1>13. ASSUME NEW t \in PriWorker, AllocStore(t)
       PROVE  Safe'
  <2>1. t \in Thread /\ work[t].pub \in PubTuple /\ work[t].host \in Target
    BY <1>13 DEF AllocStore, HandlerState, Thread, Worker, Returned, Target
  <2>2. WorkOK'
    BY <1>0, <1>13, <2>1, AfterTouchOK DEF AllocStore
  <2>3. /\ portmap' \in [Port -> PortEntry]
        /\ pubTable' \in [PubTuple -> Target \cup {None}]
        /\ priTable' \in [Host -> PubTuple \cup {None}]
    BY Zenon, <1>13, <1>p, <2>1, StoreType DEF AllocStore
  <2> QED
    BY <1>13, <1>q, <2>2, <2>3 DEF AllocStore, Unlock, TypeOK
<1>14. ASSUME NEW t \in Worker, ReadStatic(t)
       PROVE  Safe'
  <2>1. t \in Thread /\ work[t].pub \in PubTuple
    BY <1>14 DEF ReadStatic, HandlerState, Thread, Returned
  <2>2. WorkOK'
    BY <1>0, <1>14, <2>1, ReturnOK, GotoOK DEF ReadStatic, Returned
  <2> QED
    BY <1>14, <1>q, <2>2 DEF ReadStatic, TypeOK, tables
<1>15. ASSUME NEW t \in Worker, checkTCPTermination(t)
       PROVE  Safe'
  <2> DEFINE p == work[t].pub[2]
  <2>1. t \in Thread /\ p \in Port
    BY <1>15, <1>p DEF checkTCPTermination, HandlerState, Thread, Returned
  <2>2. WorkOK'
    BY <1>0, <1>15, <2>1, ReturnOK DEF checkTCPTermination, Returned
  <2>3. /\ portmap' \in [Port -> PortEntry]
        /\ pubTable' \in [PubTuple -> Target \cup {None}]
        /\ priTable' \in [Host -> PubTuple \cup {None}]
    <3>1. CASE Fin(p, Direction(t)) /\ UNCHANGED <<pubTable, priTable>>
      BY <2>1, <3>1, FinType DEF Direction, TypeOK
    <3>2. CASE deleteOldConnection(p, Cleared)
      BY <2>1, <3>2, DeleteType, EntryType
    <3>3. CASE deleteOldConnection(p, ReusableSoon)
      BY <2>1, <3>3, DeleteType, EntryType
    <3>4. CASE UNCHANGED tables
      BY <3>4 DEF tables, TypeOK
    <3> QED
      BY Zenon, <1>15, <3>1, <3>2, <3>3, <3>4 DEF checkTCPTermination
  <2> QED
    BY <1>15, <1>q, <2>2, <2>3 DEF checkTCPTermination, LockedStep, TypeOK
<1>16. ASSUME NEW t \in Rpc, NEW p \in Port, DisableForwarding(t, p)
       PROVE  Safe'
  <2>1. /\ portmap' \in [Port -> PortEntry]
        /\ pubTable' \in [PubTuple -> Target \cup {None}]
        /\ priTable' \in [Host -> PubTuple \cup {None}]
    BY <1>16, DeleteType, EntryType DEF DisableForwarding
  <2>2. WorkOK'
    BY <1>0, <1>16 DEF DisableForwarding, WorkOK, HandlerState
  <2> QED
    BY <1>16, <1>q, <2>1, <2>2 DEF DisableForwarding, LockedStep, TypeOK
<1>17. ASSUME NEW t \in Rpc, NEW p \in Port, NEW target \in Target,
              EnableForwarding(t, p, target)
       PROVE  Safe'
  <2>1. /\ portmap' \in [Port -> PortEntry]
        /\ pubTable' \in [PubTuple -> Target \cup {None}]
        /\ priTable' \in [Host -> PubTuple \cup {None}]
    BY <1>17, DeleteType, EntryType DEF EnableForwarding
  <2>2. t \in Thread /\ <<pubAddr, p>> \in PubTuple
    BY DEF Thread, PubTuple, TypeOK
  <2>3. WorkOK'
    BY <1>0, <1>17, <2>2, StartOK DEF EnableForwarding, PC, Critical, Reserved
  <2> QED
    BY <1>17, <1>q, <2>1, <2>2, <2>3 DEF EnableForwarding, Lock, TypeOK
<1>18. ASSUME NEW t \in Rpc, enableStaticPortForward(t)
       PROVE  Safe'
  <2>1. t \in Thread /\ work[t].pub \in PubTuple /\ work[t].host \in Target
    BY <1>18 DEF enableStaticPortForward, HandlerState, Thread, Returned
  <2>2. WorkOK'
    BY <1>0, <1>18, <2>1, ReturnOK DEF enableStaticPortForward, Returned
  <2>3. /\ portmap' \in [Port -> PortEntry]
        /\ pubTable' \in [PubTuple -> Target \cup {None}]
        /\ priTable' \in [Host -> PubTuple \cup {None}]
    BY Zenon, <1>18, <1>p, <2>1, StoreType DEF enableStaticPortForward
  <2> QED
    BY <1>18, <1>q, <2>2, <2>3 DEF enableStaticPortForward, Unlock, TypeOK
<1>19. ASSUME NEW side \in Side, NEW addr \in PubAddr, NEW ok \in BOOLEAN,
              SetAddress(side, addr, ok)
       PROVE  Safe'
  <2>1. WorkOK'
    BY <1>0, <1>19 DEF SetAddress, WorkOK, HandlerState
  <2> QED
    BY <1>19, <1>q, <2>1 DEF SetAddress, TypeOK, tables
<1>20. ASSUME NEW p \in DynamicPort, OtherProtocol(p)
       PROVE  Safe'
  <2>1. WorkOK'
    BY <1>0, <1>20 DEF OtherProtocol, WorkOK, HandlerState
  <2> QED
    BY <1>20, <1>q, <2>1 DEF OtherProtocol, LockedStep, TypeOK, tables
<1>21. CASE Tick
  <2>1. WorkOK'
    BY <1>0, <1>21 DEF Tick, WorkOK, HandlerState
  <2> QED
    BY <1>21, <1>q, <2>1, TickType DEF Tick, TypeOK
<1> QED
  BY Zenon, <1>1, <1>2, <1>3, <1>4, <1>5, <1>6, <1>7, <1>8, <1>9, <1>10, <1>11, <1>12,
     <1>13, <1>14, <1>15, <1>16, <1>17, <1>18, <1>19, <1>20, <1>21, <1>22
     DEF Next, PubWork, PriWork, Worker, ChangeInterfaceAddress, handleDHCPAck

\* Every reachable state is well formed: in particular lastport stays inside the
\* dynamic range and every handler past its lookup has a port of the portmap.
THEOREM TypeCorrect == Spec => [](TypeOK /\ HandlerState)
<1>1. Init => Safe
  BY SafeInit
<1>2. Safe /\ [Next]_vars => Safe'
  BY SafeStep
<1> QED
  BY <1>1, <1>2, PTL DEF Spec, Safe

-----------------------------------------------------------------------------
(* Lookup tables *)

\* deleteOldConnection keeps a way back for every private entry it leaves, and
\* leaves nothing at the tuple it clears.
LEMMA DeleteKeepsReplyPath ==
  ASSUME TypeOK, ReplyPathExists, NEW p \in Port, NEW entry,
         deleteOldConnection(p, entry)
  PROVE  /\ ReplyPathExists'
         /\ pubTable'[<<pubAddr, p>>] = None
         /\ \A k \in PubTuple : pubTable[k] = None => pubTable'[k] = None
<1> DEFINE key == <<pubAddr, p>>
<1>1. key \in PubTuple
  BY DEF TypeOK, PubTuple
<1>2. pubTable' = [pubTable EXCEPT ![key] = None]
  BY DEF deleteOldConnection
<1>3. \A k \in PubTuple : pubTable'[k] = IF k = key THEN None ELSE pubTable[k]
  BY <1>1, <1>2 DEF TypeOK
<1>4. \A h \in Host : priTable'[h] # None =>
        priTable'[h] = priTable[h] /\ h # pubTable[key]
  BY DEF deleteOldConnection, TypeOK
<1>5. ASSUME NEW h \in Host, priTable'[h] # None
      PROVE  pubTable'[priTable'[h]] = h
  <2>1. priTable'[h] = priTable[h] /\ pubTable[priTable[h]] = h
    BY <1>4, <1>5 DEF ReplyPathExists
  <2>2. priTable[h] \in PubTuple /\ priTable[h] # key
    BY <1>4, <1>5, <2>1 DEF TypeOK
  <2> QED
    BY <1>3, <2>1, <2>2
<1> QED
  BY <1>1, <1>3, <1>5 DEF ReplyPathExists

\* Storing a connection at an unused tuple keeps the way back of every entry
\* and changes nothing at other tuples.
LEMMA StoreKeepsReplyPath ==
  ASSUME TypeOK, ReplyPathExists, NEW p \in Port, NEW target \in Target, NEW b,
         pubTable[<<pubAddr, p>>] = None, StoreConnection(p, target, b)
  PROVE  /\ ReplyPathExists'
         /\ \A k \in PubTuple : k # <<pubAddr, p>> => pubTable'[k] = pubTable[k]
<1> DEFINE key == <<pubAddr, p>>
<1>1. key \in PubTuple
  BY DEF TypeOK, PubTuple
<1>2. \A k \in PubTuple : pubTable'[k] = IF k = key THEN target ELSE pubTable[k]
  BY <1>1 DEF StoreConnection, TypeOK
<1>3. ASSUME NEW h \in Host, priTable'[h] # None
      PROVE  pubTable'[priTable'[h]] = h
  <2>1. CASE h = target
    BY <1>1, <1>2, <2>1 DEF StoreConnection, TypeOK
  <2>2. CASE h # target
    <3>1. priTable'[h] = priTable[h]
      BY <2>2 DEF StoreConnection, TypeOK
    <3>2. pubTable[priTable[h]] = h /\ priTable[h] \in PubTuple
      BY <1>3, <3>1 DEF ReplyPathExists, TypeOK
    <3>3. priTable[h] # key
      BY <3>2, TupleAssumption DEF Target
    <3> QED
      BY <1>2, <3>1, <3>2, <3>3
  <2> QED
    BY <2>1, <2>2
<1> QED
  BY <1>2, <1>3 DEF ReplyPathExists

-----------------------------------------------------------------------------
(* The inductive invariant.  Steps are of five kinds: they leave the lookup  *)
(* tables and the mutex alone, delete a connection under the mutex, take the *)
(* mutex, reserve a port under it, or store a connection and release it.     *)
(* Replacing the public address is a sixth.                                  *)

TableInv == MutexHeld /\ ReplyPathExists /\ PortReserved /\ NewAddressUnused

\* What the other threads have in hand does not change when one of them returns,
\* starts a section or goes on.
LEMMA OneThreadMoves ==
  ASSUME WorkOK, NEW t \in Thread, NEW pc,
         \/ Return(t, pc)
         \/ \E pub, host, flag : Start(t, pc, pub, host, flag)
         \/ Goto(t, pc)
  PROVE  /\ work'[t].pc = pc
         /\ \A u \in Thread : u # t => work'[u] = work[u]
BY DEF WorkOK, WorkRecord, Return, Start, Goto, Idle

\* A step that moves one thread outside the long sections and leaves the lookup
\* tables, the mutex and the address alone.
LEMMA QuietStep ==
  ASSUME Safe, TableInv, NEW t \in Thread,
         UNCHANGED <<pubTable, priTable, mutex, pubAddr, pastAddr>>,
         work[t].pc \notin Critical, work'[t].pc \notin Critical,
         \A u \in Thread : u # t => work'[u] = work[u]
  PROVE  TableInv'
BY DEF TableInv, MutexHeld, ReplyPathExists, PortReserved, NewAddressUnused, Critical

\* deleteOldConnection in a section of one step.
LEMMA DeleteStep ==
  ASSUME Safe, TableInv, NEW t \in Thread, NEW p \in Port, NEW entry,
         deleteOldConnection(p, entry), LockedStep,
         UNCHANGED <<pubAddr, pastAddr>>,
         work'[t].pc \notin Critical,
         \A u \in Thread : u # t => work'[u] = work[u]
  PROVE  TableInv'
<1>1. /\ ReplyPathExists'
      /\ \A k \in PubTuple : pubTable[k] = None => pubTable'[k] = None
  BY Zenon, DeleteKeepsReplyPath DEF Safe, TableInv
<1>2. mutex = None /\ mutex' = None
  BY DEF LockedStep
<1>3. \A u \in Thread : work'[u].pc \notin Critical
  BY <1>2, ThreadAssumption DEF TableInv, MutexHeld
<1>4. MutexHeld' /\ PortReserved'
  BY <1>2, <1>3, ThreadAssumption DEF MutexHeld, PortReserved, Critical
<1>5. NewAddressUnused'
  BY <1>1 DEF TableInv, NewAddressUnused, PubTuple
<1> QED
  BY <1>1, <1>4, <1>5 DEF TableInv

\* A section of several steps begins: the mutex is taken.
LEMMA FindStep ==
  ASSUME Safe, TableInv, NEW t \in Thread, Lock(t),
         UNCHANGED <<pubTable, priTable, pubAddr, pastAddr>>,
         work'[t].pc \in Critical \ Reserved,
         \A u \in Thread : u # t => work'[u] = work[u]
  PROVE  TableInv'
<1>1. mutex = None /\ mutex' = t
  BY DEF Lock
<1>2. \A u \in Thread : u # t => work'[u].pc \notin Critical
  BY <1>1, ThreadAssumption DEF TableInv, MutexHeld
<1>3. MutexHeld' /\ PortReserved'
  BY <1>1, <1>2 DEF MutexHeld, PortReserved, Critical
<1> QED
  BY <1>3 DEF TableInv, ReplyPathExists, NewAddressUnused

\* A port is cleared under the mutex, which the thread has or takes.
LEMMA ReserveStep ==
  ASSUME Safe, TableInv, NEW t \in Thread, NEW p \in Port, NEW entry,
         deleteOldConnection(p, entry), mutex \in {None, t}, mutex' = t,
         UNCHANGED <<pubAddr, pastAddr>>,
         work'[t].pc \in Reserved, work'[t].pub = <<pubAddr, p>>,
         \A u \in Thread : u # t => work'[u] = work[u]
  PROVE  TableInv'
<1>1. /\ ReplyPathExists'
      /\ pubTable'[<<pubAddr, p>>] = None
      /\ \A k \in PubTuple : pubTable[k] = None => pubTable'[k] = None
  BY DeleteKeepsReplyPath DEF Safe, TableInv
<1>3. \A u \in Thread : u # t => work'[u].pc \notin Critical
  BY ThreadAssumption DEF TableInv, MutexHeld
<1>4. MutexHeld'
  BY <1>3 DEF MutexHeld, Critical
<1>5. PortReserved'
  BY <1>1, <1>3 DEF PortReserved, Critical
<1>6. NewAddressUnused'
  BY <1>1 DEF TableInv, NewAddressUnused, PubTuple
<1> QED
  BY <1>1, <1>4, <1>5, <1>6 DEF TableInv

\* The second half: the connection is stored and the mutex released.
LEMMA StoreStep ==
  ASSUME Safe, TableInv, NEW t \in Thread, NEW target \in Target, NEW b,
         work[t].pub \in PubTuple,
         work[t].pc \in Reserved, work'[t].pc \notin Critical,
         StoreConnection(work[t].pub[2], target, b), Unlock,
         UNCHANGED <<pubAddr, pastAddr>>,
         \A u \in Thread : u # t => work'[u] = work[u]
  PROVE  TableInv'
<1> DEFINE p == work[t].pub[2]
<1>1. p \in Port /\ pubTable[<<pubAddr, p>>] = None
  BY DEF PubTuple, TableInv, PortReserved
<1>2. /\ ReplyPathExists'
      /\ \A k \in PubTuple : k # <<pubAddr, p>> => pubTable'[k] = pubTable[k]
  BY <1>1, StoreKeepsReplyPath DEF Safe, TableInv
<1>3. mutex = t /\ mutex' = None
  BY DEF Unlock, TableInv, MutexHeld, Critical
<1>4. \A u \in Thread : work'[u].pc \notin Critical
  BY <1>3 DEF TableInv, MutexHeld
<1>5. MutexHeld' /\ PortReserved'
  BY <1>3, <1>4, ThreadAssumption DEF MutexHeld, PortReserved, Critical
<1>6. NewAddressUnused'
  BY <1>2 DEF TableInv, NewAddressUnused, PubTuple
<1> QED
  BY <1>2, <1>5, <1>6 DEF TableInv

\* Replacing the public address by one it never had before.
LEMMA AddressStep ==
  ASSUME Safe, TableInv, AddrReuse = FALSE, NEW side \in Side,
         NEW addr \in PubAddr, NEW ok \in BOOLEAN, SetAddress(side, addr, ok)
  PROVE  TableInv'
<1>1. UNCHANGED <<portmap, pubTable, priTable, mutex, work>>
  BY DEF SetAddress, tables
<1>2. pubAddr' = pubAddr \/ (pubAddr' \in PubAddr /\ pubAddr' \notin pastAddr)
  BY DEF SetAddress
<1>3. pastAddr' = pastAddr \cup {pubAddr'}
  BY DEF SetAddress
<1>4. MutexHeld' /\ ReplyPathExists'
  BY <1>1 DEF TableInv, MutexHeld, ReplyPathExists
<1>5. NewAddressUnused'
  BY <1>1, <1>3 DEF TableInv, NewAddressUnused
<1>6. ASSUME NEW t \in Thread, work[t].pc \in Reserved
      PROVE  pubTable[<<pubAddr', work[t].pub[2]>>] = None
  <2>1. work[t].pub[2] \in Port
    BY <1>6 DEF Safe, HandlerState, Reserved, Returned, PubTuple
  <2> QED
    BY <1>2, <1>6, <2>1 DEF TableInv, PortReserved, NewAddressUnused
<1> QED
  BY <1>1, <1>4, <1>5, <1>6 DEF TableInv, PortReserved

\* Every step keeps the invariant.
LEMMA TableStep ==
  ASSUME Safe, TableInv, AddrReuse = FALSE, [Next]_vars
  PROVE  TableInv'
<1>0. WorkOK
  BY DEF Safe, WorkOK, TypeOK
<1>t. \A t \in Worker \cup Rpc : t \in Thread
  BY DEF Thread
<1>h. \A t \in Thread : work[t].pc \notin Returned \cup {"alloc"} =>
        work[t].pub \in PubTuple /\ work[t].pub[2] \in Port
  BY DEF Safe, HandlerState, PubTuple
<1>1. CASE UNCHANGED vars
  BY <1>1 DEF vars, TableInv, MutexHeld, ReplyPathExists, PortReserved,
              NewAddressUnused
<1>2. ASSUME NEW t \in Worker,
             \/ \E key \in PubTuple : PubMiss(t, key)
             \/ \E key \in PubTuple, flag \in Flag : PubHit(t, key, flag)
             \/ PubCheck(t) \/ PubTouch(t) \/ ReadStatic(t)
             \/ PriToUs(t) \/ PriTouch(t) \/ AllocFail(t)
             \/ \E host \in Host, flag \in Flag : PriMiss(t, host, flag)
             \/ \E host \in Host, flag \in Flag : PriHit(t, host, flag)
      PROVE  TableInv'
  <2>1. UNCHANGED <<pubTable, priTable, mutex, pubAddr, pastAddr>>
    BY Zenon, <1>2 DEF PubMiss, PubHit, PubCheck, PubTouch, ReadStatic, PriToUs,
                PriTouch, AllocFail, PriMiss, PriHit, tables, LockedStep
  <2>2. work[t].pc \notin Critical
    BY Zenon, <1>2 DEF PubMiss, PubHit, PubCheck, PubTouch, ReadStatic, PriToUs,
                PriTouch, AllocFail, PriMiss, PriHit, Returned, Critical, Reserved
  <2>3. \E pc \in PC \ Critical :
          \/ Return(t, pc)
          \/ \E pub, host, flag : Start(t, pc, pub, host, flag)
          \/ Goto(t, pc)
    BY Zenon, <1>2 DEF PubMiss, PubHit, PubCheck, PubTouch, ReadStatic, PriToUs,
                PriTouch, AllocFail, PriMiss, PriHit, AfterTouch, PC, Returned,
                Critical, Reserved
  <2>4. /\ work'[t].pc \notin Critical
        /\ \A u \in Thread : u # t => work'[u] = work[u]
    BY Zenon, <1>0, <1>t, <2>3, OneThreadMoves
  <2> QED
    BY <1>t, <2>1, <2>2, <2>4, QuietStep
<1>3. ASSUME NEW t \in Worker, PubExpire(t)
      PROVE  TableInv'
  <2>1. /\ work'[t].pc = "idle"
        /\ \A u \in Thread : u # t => work'[u] = work[u]
    BY <1>0, <1>t, <1>3, OneThreadMoves DEF PubExpire
  <2>2. work[t].pub[2] \in Port
    BY <1>h, <1>t, <1>3 DEF PubExpire, Returned
  <2> QED
    BY <1>t, <1>3, <2>1, <2>2, DeleteStep DEF PubExpire, Critical, Reserved
<1>4. ASSUME NEW t \in Worker, checkTCPTermination(t)
      PROVE  TableInv'
  <2> DEFINE p == work[t].pub[2]
  <2>1. /\ work'[t].pc = "idle"
        /\ \A u \in Thread : u # t => work'[u] = work[u]
    <3>1. Return(t, "idle")
      BY <1>4 DEF checkTCPTermination
    <3> QED
      BY <1>0, <1>t, <3>1, OneThreadMoves
  <2>2. p \in Port
    BY <1>h, <1>t, <1>4 DEF checkTCPTermination, Returned
  <2>3. LockedStep /\ UNCHANGED <<pubAddr, pastAddr>> /\ work[t].pc = "tcp"
    BY <1>4 DEF checkTCPTermination
  <2>4. CASE UNCHANGED <<pubTable, priTable>>
    BY <1>t, <2>1, <2>3, <2>4, QuietStep DEF LockedStep, Critical, Reserved
  <2>5. CASE \E entry : deleteOldConnection(p, entry)
    BY <1>t, <2>1, <2>2, <2>3, <2>5, DeleteStep DEF Critical, Reserved
  <2> QED
    BY <1>4, <2>4, <2>5 DEF checkTCPTermination, tables
<1>5. ASSUME NEW t \in Worker, FindPort(t)
      PROVE  TableInv'
  <2>0. t \in Thread
    BY <1>t
  <2>1. /\ work'[t].pc = "take"
        /\ \A u \in Thread : u # t => work'[u] = work[u]
    BY Zenon, <1>0, <1>5, <2>0, FindMoves
  <2> QED
    BY Zenon, <1>t, <1>5, <2>1, FindStep DEF FindPort, tables, Critical, Reserved
<1>12. ASSUME NEW t \in Worker, TakePort(t)
       PROVE  TableInv'
  <2> DEFINE p == work[t].pub[2]
  <2>1. /\ deleteOldConnection(p, Cleared)
        /\ Start(t, "store", <<pubAddr, p>>, work[t].host, work[t].flag)
    BY <1>12 DEF TakePort
  <2>2. /\ work'[t].pc = "store"
        /\ \A u \in Thread : u # t => work'[u] = work[u]
    BY Zenon, <1>0, <1>t, <2>1, OneThreadMoves
  <2>3. p \in Port /\ work'[t].pub = <<pubAddr, p>>
    BY <1>0, <1>h, <1>t, <1>12, <2>1 DEF TakePort, Start, WorkOK, Returned
  <2>4. mutex = t
    BY <1>12, <1>t DEF TakePort, TableInv, MutexHeld, Critical
  <2> HIDE DEF p
  <2> QED
    BY <1>t, <1>12, <2>1, <2>2, <2>3, <2>4, ReserveStep
       DEF TakePort, Critical, Reserved
<1>6. ASSUME NEW t \in Worker, AllocStore(t)
      PROVE  TableInv'
  <2>1. work[t].pub \in PubTuple /\ work[t].host \in Target
    BY Zenon, <1>t, <1>6 DEF AllocStore, Safe, HandlerState, Returned, Target
  <2>2. \E pc \in {"static", "idle"} : Return(t, pc) \/ Goto(t, pc)
    BY <1>6 DEF AllocStore, AfterTouch
  <2>3. /\ work'[t].pc \notin Critical
        /\ \A u \in Thread : u # t => work'[u] = work[u]
    BY <1>0, <1>t, <2>2, OneThreadMoves DEF Critical, Reserved
  <2> QED
    BY Zenon, <1>t, <1>6, <2>1, <2>3, StoreStep DEF AllocStore, Reserved
<1>7. ASSUME NEW t \in Rpc, NEW p \in Port, DisableForwarding(t, p)
      PROVE  TableInv'
  BY <1>t, <1>7, DeleteStep DEF DisableForwarding, Critical, Reserved
<1>8. ASSUME NEW t \in Rpc, NEW p \in Port, NEW target \in Target,
             EnableForwarding(t, p, target)
      PROVE  TableInv'
  <2>1. Start(t, "enable", <<pubAddr, p>>, target, "none")
    BY <1>8 DEF EnableForwarding
  <2>2. /\ work'[t].pc = "enable"
        /\ \A u \in Thread : u # t => work'[u] = work[u]
    BY <1>0, <1>t, <2>1, OneThreadMoves
  <2>3. work'[t].pub = <<pubAddr, p>>
    BY <1>0, <1>t, <2>1 DEF Start, WorkOK
  <2> QED
    BY <1>t, <1>8, <2>2, <2>3, ReserveStep DEF EnableForwarding, Lock, Reserved
<1>9. ASSUME NEW t \in Rpc, enableStaticPortForward(t)
      PROVE  TableInv'
  <2>1. work[t].pub \in PubTuple /\ work[t].host \in Target
    BY <1>t, <1>9 DEF enableStaticPortForward, Safe, HandlerState, Returned
  <2>2. /\ work'[t].pc = "idle"
        /\ \A u \in Thread : u # t => work'[u] = work[u]
    BY <1>0, <1>t, <1>9, OneThreadMoves DEF enableStaticPortForward
  <2> QED
    BY Zenon, <1>t, <1>9, <2>1, <2>2, StoreStep DEF enableStaticPortForward, Reserved, Critical
<1>10. ASSUME NEW side \in Side, NEW addr \in PubAddr, NEW ok \in BOOLEAN,
              SetAddress(side, addr, ok)
       PROVE  TableInv'
  BY Zenon, <1>10, AddressStep
<1>11. ASSUME \/ \E p \in DynamicPort : OtherProtocol(p)
              \/ Tick
       PROVE  TableInv'
  BY <1>11 DEF OtherProtocol, Tick, LockedStep, tables, TableInv, MutexHeld,
               ReplyPathExists, PortReserved, NewAddressUnused
<1> QED
  BY Zenon, <1>1, <1>2, <1>3, <1>4, <1>5, <1>6, <1>7, <1>8, <1>9, <1>10, <1>11, <1>12
     DEF Next, PubWork, PriWork, Worker, ChangeInterfaceAddress, handleDHCPAck

\* The configured rules satisfy the invariant.
LEMMA TableInit == Init => TableInv
<1> SUFFICES ASSUME Init PROVE TableInv
  OBVIOUS
<1>1. ReplyPathExists
  <2> SUFFICES ASSUME NEW h \in Host, priTable[h] # None
               PROVE  pubTable[priTable[h]] = h
    BY DEF ReplyPathExists
  <2>1. PICK p \in DOMAIN ForwardPorts :
          ForwardPorts[p] = h /\ priTable[h] = <<InitAddr, p>>
    BY DEF Init
  <2>2. <<InitAddr, p>> \in PubTuple
    BY ForwardAssumption, TupleAssumption DEF PubTuple
  <2> QED
    BY <2>1, <2>2 DEF Init
<1>2. MutexHeld /\ PortReserved
  BY ThreadAssumption DEF Init, MutexHeld, PortReserved, Idle, Critical, Reserved
<1>3. NewAddressUnused
  BY DEF Init, NewAddressUnused, PubTuple
<1> QED
  BY <1>1, <1>2, <1>3 DEF TableInv

\* As long as the public port does not get back an address it had before, every
\* private entry has its way back, whatever the handlers, the requests and the
\* address changes interleave (allocateNewEgressConnection,
\* deleteOldConnection, ChangePortForwarding, ChangeInterfaceAddress).
THEOREM ReplyPath ==
  ASSUME AddrReuse = FALSE
  PROVE  Spec => []ReplyPathExists
<1>1. Init => Safe /\ TableInv
  BY SafeInit, TableInit
<1>2. Safe /\ TableInv /\ [Next]_vars => Safe' /\ TableInv'
  BY Zenon, SafeStep, TableStep
<1>3. TableInv => ReplyPathExists
  BY DEF TableInv
<1> QED
  BY <1>1, <1>2, <1>3, PTL DEF Spec

-----------------------------------------------------------------------------

\* Deleting a connection only releases public tuples.
LEMMA DeleteReleases ==
  ASSUME TypeOK, NEW p \in Port, NEW entry, deleteOldConnection(p, entry)
  PROVE  ReleaseFirst
BY DEF TypeOK, deleteOldConnection, ReleaseFirst

\* Storing a connection takes a public tuple that nobody uses.
LEMMA StoreTakesUnused ==
  ASSUME Safe, TableInv, NEW t \in Thread, work[t].pc \in Reserved,
         work[t].pub \in PubTuple, NEW target, NEW isStatic,
         StoreConnection(work[t].pub[2], target, isStatic)
  PROVE  ReleaseFirst
BY DEF Safe, TypeOK, TableInv, PortReserved, StoreConnection, ReleaseFirst

\* Each step keeps or releases the public tuples in use.
LEMMA ReleaseStep == Safe /\ TableInv /\ [Next]_vars => ReleaseFirst
<1> SUFFICES ASSUME Safe, TableInv, [Next]_vars PROVE ReleaseFirst
  OBVIOUS
<1>1. ASSUME UNCHANGED pubTable PROVE ReleaseFirst
  BY <1>1 DEF ReleaseFirst
<1>2. ASSUME NEW p \in Port, NEW entry, deleteOldConnection(p, entry)
      PROVE  ReleaseFirst
  BY <1>2, DeleteReleases DEF Safe
<1>3. ASSUME NEW t \in Worker, work[t].pc \in {"expire", "tcp", "take"}
      PROVE  work[t].pub[2] \in Port
  BY <1>3 DEF Safe, HandlerState, Returned, Thread, PubTuple
<1>4. ASSUME NEW t \in PubWorker, PubWork(t) PROVE ReleaseFirst
  BY Zenon, <1>1, <1>2, <1>3, <1>4 DEF Worker, PubWork, PubCheck, PubExpire, PubTouch,
     ReadStatic, checkTCPTermination, tables
<1>5. ASSUME NEW t \in PriWorker, FindPort(t) \/ TakePort(t) PROVE ReleaseFirst
  BY Zenon, <1>1, <1>2, <1>3, <1>5 DEF FindPort, TakePort, Worker, tables
<1>6. ASSUME NEW t \in PriWorker, AllocStore(t) PROVE ReleaseFirst
  <2>1. t \in Thread /\ work[t].pc \in Reserved /\ work[t].pub \in PubTuple
    BY Zenon, <1>6 DEF AllocStore, Reserved, Thread, Worker, Safe, HandlerState, Returned
  <2> QED BY Zenon, <1>6, <2>1, StoreTakesUnused DEF AllocStore
<1>7. ASSUME NEW t \in PriWorker, PriWork(t) PROVE ReleaseFirst
  BY Zenon, <1>1, <1>2, <1>3, <1>5, <1>6, <1>7 DEF Worker, PriWork, PriTouch, AllocFail,
     ReadStatic, checkTCPTermination, tables
<1>8. ASSUME NEW t \in Rpc, enableStaticPortForward(t) PROVE ReleaseFirst
  <2>1. t \in Thread /\ work[t].pc \in Reserved /\ work[t].pub \in PubTuple
    BY <1>8 DEF enableStaticPortForward, Reserved, Thread, Safe, HandlerState,
       Returned
  <2> QED BY Zenon, <1>8, <2>1, StoreTakesUnused DEF enableStaticPortForward
<1> QED
  BY Zenon, <1>1, <1>2, <1>4, <1>7, <1>8
     DEF Next, PubMiss, PubHit, PriToUs, PriMiss, PriHit, DisableForwarding,
         EnableForwarding, ChangeInterfaceAddress, handleDHCPAck, SetAddress,
         OtherProtocol, Tick, tables, vars

\* A public tuple never passes from one private tuple to another in one step:
\* allocNewPort and ChangePortForwarding delete the old connection first, and
\* nobody else takes the tuple before they store the new one.
THEOREM ReleasedFirst ==
  ASSUME AddrReuse = FALSE
  PROVE  Spec => ReleasedBeforeReuse
<1>1. Init => Safe /\ TableInv
  BY SafeInit, TableInit
<1>2. Safe /\ TableInv /\ [Next]_vars => Safe' /\ TableInv'
  BY Zenon, SafeStep, TableStep
<1>3. Safe /\ TableInv /\ [Next]_vars => [ReleaseFirst]_vars
  BY ReleaseStep
<1> QED
  BY <1>1, <1>2, <1>3, PTL DEF Spec, ReleasedBeforeReuse

-----------------------------------------------------------------------------
(* Translation implements AbstractNat: every step of the threads, requests  *)
(* and address changes binds one public tuple, releases one, or changes     *)
(* nothing that a host or a remote peer can see of the lookup tables.       *)

\* A step of the abstract translator or none.
NatStep == [Promise!Next]_<<priTable, pubTable>>

\* Deleting a connection under the current address closes its public tuple.
LEMMA DeleteCloses ==
  ASSUME TypeOK, NEW p \in Port, NEW entry, deleteOldConnection(p, entry)
  PROVE  NatStep
<1>1. <<pubAddr, p>> \in PubTuple
  BY DEF TypeOK, PubTuple
<1>2. Promise!Close(<<pubAddr, p>>)
  BY DEF deleteOldConnection, Promise!Close
<1> QED
  BY <1>1, <1>2 DEF NatStep, Promise!Next

\* The second half of a section under the mutex opens a tuple that leads nowhere.
LEMMA StoreOpens ==
  ASSUME Safe, TableInv, NEW t \in Thread, work[t].pc \in Reserved,
         work[t].pub \in PubTuple, NEW target \in Target, NEW isStatic,
         StoreConnection(work[t].pub[2], target, isStatic)
  PROVE  NatStep
<1> DEFINE key == <<pubAddr, work[t].pub[2]>>
<1>1. key \in PubTuple /\ pubTable[key] = None
  BY DEF Safe, TypeOK, PubTuple, TableInv, PortReserved
<1>2. Promise!Open(key, target)
  BY <1>1 DEF StoreConnection, Promise!Open
<1> QED
  BY <1>1, <1>2 DEF NatStep, Promise!Next, Target

\* The configured rules are an initial state of the abstract translator.
LEMMA NatInit == Init => Promise!Init
<1> SUFFICES ASSUME Init PROVE Promise!Init
  OBVIOUS
<1>1. TypeOK /\ ReplyPathExists
  BY SafeInit, TableInit DEF Safe, TableInv
<1> QED
  BY <1>1 DEF Promise!Init, Promise!Answered, TypeOK, ReplyPathExists, Target

\* Each step of the program is a step of the abstract translator or stutters.
LEMMA NatSteps == Safe /\ TableInv /\ [Next]_vars => NatStep
<1> SUFFICES ASSUME Safe, TableInv, [Next]_vars PROVE NatStep
  OBVIOUS
<1>1. ASSUME UNCHANGED <<pubTable, priTable>> PROVE NatStep
  BY <1>1 DEF NatStep
<1>2. ASSUME NEW p \in Port, NEW entry, deleteOldConnection(p, entry)
      PROVE  NatStep
  BY <1>2, DeleteCloses DEF Safe
<1>3. ASSUME NEW t \in Worker, work[t].pc \in {"expire", "tcp", "take"}
      PROVE  work[t].pub[2] \in Port
  BY <1>3 DEF Safe, HandlerState, Returned, Thread, PubTuple
<1>4. ASSUME NEW t \in PubWorker, PubWork(t) PROVE NatStep
  BY <1>1, <1>2, <1>3, <1>4 DEF Worker, PubWork, PubCheck, PubExpire, PubTouch,
     ReadStatic, checkTCPTermination, tables
<1>5. ASSUME NEW t \in PriWorker, FindPort(t) \/ TakePort(t) PROVE NatStep
  BY Zenon, <1>1, <1>2, <1>3, <1>5 DEF FindPort, TakePort, Worker, tables
<1>6. ASSUME NEW t \in PriWorker, AllocStore(t) PROVE NatStep
  <2>1. /\ t \in Thread /\ work[t].pc \in Reserved
        /\ work[t].pub \in PubTuple /\ work[t].host \in Target
    BY <1>6 DEF AllocStore, Reserved, Thread, Worker, Safe, HandlerState,
       Returned, Target
  <2> QED
    BY Zenon, <1>6, <2>1, StoreOpens DEF AllocStore
<1>7. ASSUME NEW t \in PriWorker, PriWork(t) PROVE NatStep
  BY Zenon, <1>1, <1>2, <1>3, <1>5, <1>6, <1>7 DEF Worker, PriWork, PriTouch, AllocFail,
     ReadStatic, checkTCPTermination, tables
<1>8. ASSUME NEW t \in Rpc, enableStaticPortForward(t) PROVE NatStep
  <2>1. /\ t \in Thread /\ work[t].pc \in Reserved
        /\ work[t].pub \in PubTuple /\ work[t].host \in Target
    BY <1>8 DEF enableStaticPortForward, Reserved, Thread, Safe, HandlerState,
       Returned
  <2> QED
    BY Zenon, <1>8, <2>1, StoreOpens DEF enableStaticPortForward
<1> QED
  BY Zenon, <1>1, <1>2, <1>4, <1>7, <1>8
     DEF Next, PubMiss, PubHit, PriToUs, PriMiss, PriHit, DisableForwarding,
         EnableForwarding, ChangeInterfaceAddress, handleDHCPAck, SetAddress,
         OtherProtocol, Tick, tables, vars

\* The program implements the abstract translator, with any number of handlers
\* and requests, as long as the public port does not get an old address back.
THEOREM Refinement ==
  ASSUME AddrReuse = FALSE
  PROVE  Spec => ImplementsNat
<1>1. Init => Safe /\ TableInv
  BY SafeInit, TableInit
<1>2. Safe /\ TableInv /\ [Next]_vars => Safe' /\ TableInv'
  BY Zenon, SafeStep, TableStep
<1>3. Safe /\ TableInv /\ [Next]_vars => NatStep
  BY NatSteps
<1>4. Init => Promise!Init
  BY NatInit
<1> QED
  BY <1>1, <1>2, <1>3, <1>4, PTL
     DEF Spec, ImplementsNat, Promise!Spec, NatStep

=============================================================================
