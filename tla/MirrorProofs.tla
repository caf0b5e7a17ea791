---------------------------- MODULE MirrorProofs ----------------------------
(***************************************************************************)
(* With one instance of PrivateToPublicTranslation and no rules added at   *)
(* run time the two lookup tables are each other's mirror, and allocating  *)
(* a port never ends a connection that was in use when ports were scanned. *)
(***************************************************************************)
EXTENDS TranslationProofs

\* The conditions: one handler on the private port, no GRPC request for rules,
\* and no two configured rules for one private tuple.
Sequential ==
  /\ Rpc = {} /\ \A s, t \in PriWorker : s = t
  /\ \A p, q \in DOMAIN ForwardPorts :
       ForwardPorts[p] \in Host /\ ForwardPorts[p] = ForwardPorts[q] => p = q

\* The private tuple a port is being allocated for has no connection.
FreshHost ==
  \A t \in PriWorker : work[t].pc \in {"alloc", "take", "store"} =>
    priTable[work[t].host] = None

MirrorInv == TablesMirror /\ FreshHost

\* Deleting a connection keeps the mirror and leaves private tuples without a
\* connection as they are; only the tuple of the deleted port loses its entry.
LEMMA DeleteMirror ==
  ASSUME TypeOK, TablesMirror, NEW p \in Port, NEW entry,
         deleteOldConnection(p, entry)
  PROVE  /\ TablesMirror'
         /\ \A h \in Host : priTable'[h] \in {priTable[h], None}
         /\ \A h \in Host : priTable[h] # <<pubAddr, p>> => priTable'[h] = priTable[h]
<1> DEFINE key == <<pubAddr, p>>
<1>1. key \in PubTuple
  BY DEF TypeOK, PubTuple
<1>2. \A k \in PubTuple : pubTable'[k] = IF k = key THEN None ELSE pubTable[k]
  BY <1>1 DEF deleteOldConnection, TypeOK
<1>3. \A h \in Host : priTable'[h] = IF h = pubTable[key] THEN None ELSE priTable[h]
  BY DEF deleteOldConnection, TypeOK
<1>4. ASSUME NEW k \in PubTuple, pubTable'[k] \in Host
      PROVE  priTable'[pubTable'[k]] = k
  <2>1. k # key /\ pubTable'[k] = pubTable[k]
    BY <1>2, <1>4, TupleAssumption DEF Target
  <2>2. priTable[pubTable[k]] = k
    BY <1>4, <2>1 DEF TablesMirror
  <2>3. pubTable[k] # pubTable[key]
    BY <1>1, <1>4, <2>1, <2>2 DEF TablesMirror
  <2> QED
    BY <1>3, <1>4, <2>1, <2>2, <2>3
<1>5. \A h \in Host : priTable[h] # key => h # pubTable[key]
  BY <1>1 DEF TablesMirror
<1> QED
  BY <1>3, <1>4, <1>5 DEF TablesMirror

\* Storing a connection of a private tuple that has none keeps the mirror.
LEMMA StoreMirror ==
  ASSUME TypeOK, TablesMirror, NEW p \in Port, NEW h \in Host, NEW b,
         priTable[h] = None, StoreConnection(p, h, b)
  PROVE  TablesMirror'
<1> DEFINE key == <<pubAddr, p>>
<1>1. key \in PubTuple
  BY DEF TypeOK, PubTuple
<1>2. \A k \in PubTuple : pubTable'[k] = IF k = key THEN h ELSE pubTable[k]
  BY <1>1 DEF StoreConnection, TypeOK
<1>3. \A g \in Host : priTable'[g] = IF g = h THEN key ELSE priTable[g]
  BY DEF StoreConnection, TypeOK
<1>4. ASSUME NEW k \in PubTuple, pubTable'[k] \in Host
      PROVE  priTable'[pubTable'[k]] = k
  <2>1. CASE k = key
    BY <1>2, <1>3, <2>1
  <2>2. CASE k # key
    <3>1. pubTable'[k] = pubTable[k] /\ priTable[pubTable[k]] = k
      BY <1>2, <1>4, <2>2 DEF TablesMirror
    <3>2. pubTable[k] # h
      BY <3>1, TupleAssumption
    <3> QED
      BY <1>3, <1>4, <3>1, <3>2
  <2> QED
    BY <2>1, <2>2
<1> QED
  BY <1>4 DEF TablesMirror

\* The configured rules are mirrored.
LEMMA MirrorInit ==
  ASSUME Sequential, Init
  PROVE  MirrorInv
<1>1. ASSUME NEW k \in PubTuple, pubTable[k] \in Host
      PROVE  priTable[pubTable[k]] = k
  <2>1. /\ k[1] = InitAddr /\ k[2] \in DOMAIN ForwardPorts
        /\ pubTable[k] = ForwardPorts[k[2]]
    BY <1>1, TupleAssumption DEF Init, Target
  <2>2. PICK p \in DOMAIN ForwardPorts :
          ForwardPorts[p] = pubTable[k] /\ priTable[pubTable[k]] = <<InitAddr, p>>
    BY <1>1, <2>1 DEF Init
  <2>3. p = k[2]
    BY <1>1, <2>1, <2>2 DEF Sequential
  <2> QED
    BY <2>1, <2>2, <2>3 DEF PubTuple
<1>2. FreshHost
  BY DEF Init, FreshHost, Idle, Thread, Worker
<1> QED
  BY <1>1, <1>2 DEF MirrorInv, TablesMirror

-----------------------------------------------------------------------------

\* A step of one thread that adds no private entry and does not begin or go on
\* with an allocation.
LEMMA FreshStep ==
  ASSUME Safe, FreshHost, NEW t \in Worker,
         \A h \in Host : priTable'[h] \in {priTable[h], None},
         work'[t].pc \notin {"alloc", "take", "store"},
         \A u \in Thread : u # t => work'[u] = work[u]
  PROVE  FreshHost'
<1> SUFFICES ASSUME NEW u \in PriWorker, work'[u].pc \in {"alloc", "take", "store"}
             PROVE  priTable'[work'[u].host] = None
  BY DEF FreshHost
<1>1. u \in Thread /\ work'[u] = work[u]
  BY DEF Thread, Worker
<1>2. work[u].host \in Host /\ priTable[work[u].host] = None
  BY <1>1 DEF Safe, HandlerState, FreshHost
<1> QED
  BY <1>1, <1>2

\* Every step keeps the mirror.
LEMMA MirrorStep ==
  ASSUME Safe, MirrorInv, Sequential, [Next]_vars
  PROVE  MirrorInv'
<1>0. WorkOK
  BY DEF Safe, WorkOK, TypeOK
<1>t. \A t \in Worker : t \in Thread
  BY DEF Thread
<1>h. \A t \in Thread : work[t].pc \notin Returned \cup {"alloc"} =>
        work[t].pub[2] \in Port
  BY DEF Safe, HandlerState, PubTuple
<1>1. ASSUME UNCHANGED <<pubTable, priTable, work>>
      PROVE  MirrorInv'
  BY <1>1 DEF MirrorInv, TablesMirror, FreshHost
<1>2. ASSUME NEW t \in Worker, UNCHANGED <<pubTable, priTable>>,
             work'[t].pc \notin {"alloc", "take", "store"},
             \A u \in Thread : u # t => work'[u] = work[u]
      PROVE  MirrorInv'
  BY <1>2, FreshStep DEF MirrorInv, TablesMirror
<1>3. ASSUME NEW t \in Worker,
             \/ \E key \in PubTuple : PubMiss(t, key)
             \/ \E key \in PubTuple, flag \in Flag : PubHit(t, key, flag)
             \/ PubCheck(t) \/ PubTouch(t) \/ ReadStatic(t)
             \/ PriToUs(t) \/ PriTouch(t) \/ AllocFail(t)
             \/ \E host \in Host, flag \in Flag : PriHit(t, host, flag)
      PROVE  MirrorInv'
  <2>1. UNCHANGED <<pubTable, priTable>>
    BY <1>3 DEF PubMiss, PubHit, PubCheck, PubTouch, ReadStatic, PriToUs,
                PriTouch, AllocFail, PriHit, tables
  <2>2. \E pc \in PC \ {"alloc", "take", "store"} :
          \/ Return(t, pc)
          \/ \E pub, host, flag : Start(t, pc, pub, host, flag)
          \/ Goto(t, pc)
    BY <1>3 DEF PubMiss, PubHit, PubCheck, PubTouch, ReadStatic, PriToUs,
                PriTouch, AllocFail, PriHit, AfterTouch, PC, Returned
  <2>3. /\ work'[t].pc \notin {"alloc", "take", "store"}
        /\ \A u \in Thread : u # t => work'[u] = work[u]
    BY Zenon, <1>0, <1>t, <2>2, OneThreadMoves
  <2> QED
    BY <1>2, <2>1, <2>3
<1>4. ASSUME NEW t \in PriWorker, NEW host \in Host, NEW flag \in Flag,
             PriMiss(t, host, flag)
      PROVE  MirrorInv'
  <2>1. UNCHANGED <<pubTable, priTable>> /\ priTable[host] = None
    BY <1>4 DEF PriMiss, tables
  <2>2. TablesMirror'
    BY <2>1 DEF MirrorInv, TablesMirror
  <2>3. work'[t].pc \in {"alloc", "take", "store"} => work'[t].host = host
    BY <1>0, <1>4, <1>t DEF PriMiss, Start, Return, Idle, WorkOK, Worker
  <2>4. \A u \in PriWorker : u = t
    BY DEF Sequential
  <2> QED
    BY <2>1, <2>2, <2>3, <2>4 DEF MirrorInv, FreshHost
<1>5. ASSUME NEW t \in Worker, NEW p \in Port, NEW entry,
             deleteOldConnection(p, entry), Return(t, "idle")
      PROVE  MirrorInv'
  <2>1. TablesMirror' /\ \A h \in Host : priTable'[h] \in {priTable[h], None}
    BY <1>5, DeleteMirror DEF Safe, MirrorInv
  <2>2. /\ work'[t].pc = "idle"
        /\ \A u \in Thread : u # t => work'[u] = work[u]
    BY <1>0, <1>5, <1>t, OneThreadMoves
  <2> QED
    BY <2>1, <2>2, FreshStep DEF MirrorInv
<1>6. ASSUME NEW t \in Worker, PubExpire(t) \/ checkTCPTermination(t)
      PROVE  MirrorInv'
  <2>1. work[t].pub[2] \in Port /\ Return(t, "idle")
    BY <1>6, <1>t, <1>h DEF PubExpire, checkTCPTermination, Returned
  <2>2. CASE UNCHANGED <<pubTable, priTable>>
    BY <1>0, <1>2, <1>t, <2>1, <2>2, OneThreadMoves
  <2>3. CASE \E entry : deleteOldConnection(work[t].pub[2], entry)
    BY <1>5, <2>1, <2>3
  <2> QED
    BY <1>6, <2>2, <2>3 DEF PubExpire, checkTCPTermination, tables
<1>7. ASSUME NEW t \in PriWorker, FindPort(t)
      PROVE  MirrorInv'
  <2>0. t \in Thread /\ priTable[work[t].host] = None
    BY <1>7 DEF FindPort, MirrorInv, FreshHost, Thread, Worker
  <2>1. UNCHANGED <<pubTable, priTable>>
    BY <1>7 DEF FindPort, tables
  <2>2. work'[t].host = work[t].host
    BY Zenon, <1>0, <1>7, <2>0, FindMoves
  <2>3. \A u \in PriWorker : u = t
    BY DEF Sequential
  <2> QED
    BY <2>0, <2>1, <2>2, <2>3 DEF MirrorInv, TablesMirror, FreshHost
<1>11. ASSUME NEW t \in PriWorker, TakePort(t)
       PROVE  MirrorInv'
  <2> DEFINE p == work[t].pub[2]
  <2>0. t \in Thread /\ work[t].host \in Host /\ priTable[work[t].host] = None
    BY <1>11 DEF TakePort, Safe, HandlerState, MirrorInv, FreshHost, Thread, Worker
  <2>1. /\ deleteOldConnection(p, Cleared)
        /\ Start(t, "store", <<pubAddr, p>>, work[t].host, work[t].flag)
    BY <1>11 DEF TakePort
  <2>2. p \in Port
    BY <1>11, <1>h, <2>0 DEF TakePort, Returned
  <2> HIDE DEF p
  <2>3. TablesMirror' /\ \A h \in Host : priTable'[h] \in {priTable[h], None}
    BY <2>1, <2>2, DeleteMirror DEF Safe, MirrorInv
  <2>4. work'[t].host = work[t].host
    BY <1>0, <2>0, <2>1 DEF Start, WorkOK
  <2>5. \A u \in PriWorker : u = t
    BY DEF Sequential
  <2> QED
    BY <2>0, <2>3, <2>4, <2>5 DEF MirrorInv, FreshHost
<1>8. ASSUME NEW t \in PriWorker, AllocStore(t)
      PROVE  MirrorInv'
  <2>0. t \in Thread /\ work[t].host \in Host /\ priTable[work[t].host] = None
    BY <1>8 DEF AllocStore, Safe, HandlerState, MirrorInv, FreshHost, Thread, Worker
  <2>1. work[t].pub[2] \in Port /\ StoreConnection(work[t].pub[2], work[t].host, FALSE)
    BY Zenon, <1>8, <1>h, <2>0 DEF AllocStore, Returned
  <2>2. TablesMirror'
    BY Zenon, <2>0, <2>1, StoreMirror DEF Safe, MirrorInv
  <2>3. \E pc \in {"static", "idle"} : Return(t, pc) \/ Goto(t, pc)
    BY <1>8 DEF AllocStore, AfterTouch
  <2>4. work'[t].pc \notin {"alloc", "take", "store"}
    BY <1>0, <2>0, <2>3, OneThreadMoves
  <2>5. \A u \in PriWorker : u = t
    BY DEF Sequential
  <2> QED
    BY <2>2, <2>4, <2>5 DEF MirrorInv, FreshHost
<1>9. ASSUME NEW side \in Side, NEW addr, NEW ok, SetAddress(side, addr, ok)
      PROVE  MirrorInv'
  BY <1>1, <1>9 DEF SetAddress, tables
<1>10. ASSUME \/ \E p \in DynamicPort : OtherProtocol(p)
              \/ Tick \/ UNCHANGED vars
       PROVE  MirrorInv'
  BY <1>1, <1>10 DEF OtherProtocol, Tick, tables, vars
<1> QED
  BY Zenon, <1>3, <1>4, <1>6, <1>7, <1>8, <1>9, <1>10, <1>11
     DEF Next, PubWork, PriWork, Worker, ChangeInterfaceAddress, handleDHCPAck,
         Sequential

\* The public table leads to a private tuple only if that tuple is translated to
\* the same public one: no connection is left behind by the timeout, by TCP
\* termination or by port allocation.
THEOREM Mirror ==
  ASSUME Sequential
  PROVE  Spec => []TablesMirror
<1>1. Init => Safe /\ MirrorInv
  BY SafeInit, MirrorInit
<1>2. Safe /\ MirrorInv /\ [Next]_vars => Safe' /\ MirrorInv'
  BY SafeStep, MirrorStep
<1>3. MirrorInv => TablesMirror
  BY DEF MirrorInv
<1> QED
  BY <1>1, <1>2, <1>3, PTL DEF Spec

-----------------------------------------------------------------------------

\* The ports of connections that were in use at the scan are not the one found:
\* their private entries are as they were, or deleted since.
ScanKept ==
  \A t \in PriWorker : work[t].pc = "take" =>
    \A h \in work[t].live :
      priTable[h] = None \/ priTable[h][2] # work[t].pub[2]

\* What a step of the program may do to a thread of the private port: find a
\* port, take the port found, or move elsewhere.
AllocMove(t) ==
  \/ FindPort(t) \/ TakePort(t)
  \/ work'[t] = work[t] /\ \A h \in Host : priTable'[h] \in {priTable[h], None}
  \/ work'[t].pc \notin {"take", "store"}
  \/ work'[t].pc = "store" /\ work[t].pc # "take"

\* Deleting a connection adds no private entry.
LEMMA DeleteOnlyRemoves ==
  ASSUME TypeOK, NEW p, NEW entry, deleteOldConnection(p, entry)
  PROVE  \A h \in Host : priTable'[h] \in {priTable[h], None}
BY DEF TypeOK, deleteOldConnection

\* Every step moves the one thread of the private port in one of these ways.
LEMMA AllocMoves ==
  ASSUME Safe, Sequential, [Next]_vars, NEW t \in PriWorker
  PROVE  AllocMove(t)
<1>0. WorkOK /\ TypeOK /\ t \in Thread
  BY DEF Safe, WorkOK, TypeOK, Thread, Worker
<1>1. ASSUME UNCHANGED work, UNCHANGED priTable PROVE AllocMove(t)
  BY Zenon, <1>1 DEF AllocMove
<1>2. ASSUME NEW u \in Thread, NEW pc, pc \notin {"take", "store"},
             \/ Return(u, pc)
             \/ \E pub, host, flag : Start(u, pc, pub, host, flag)
             \/ Goto(u, pc),
             u = t \/ \A h \in Host : priTable'[h] \in {priTable[h], None}
      PROVE  AllocMove(t)
  <2>1. work'[u].pc = pc /\ \A v \in Thread : v # u => work'[v] = work[v]
    BY Zenon, <1>0, <1>2, OneThreadMoves
  <2> QED
    BY <1>0, <1>2, <2>1 DEF AllocMove
<1>3. ASSUME NEW u \in PubWorker,
             \/ PubWork(u)
             \/ \E key \in PubTuple : PubMiss(u, key)
             \/ \E key \in PubTuple, flag \in Flag : PubHit(u, key, flag)
      PROVE  AllocMove(t)
  <2>1. u \in Thread
    BY DEF Thread, Worker
  <2>2. \E pc \in PC \ {"take", "store"} :
          \/ Return(u, pc)
          \/ \E pub, host, flag : Start(u, pc, pub, host, flag)
          \/ Goto(u, pc)
    BY Zenon, <1>3 DEF PubWork, PubMiss, PubHit, PubCheck, PubExpire, PubTouch,
       ReadStatic, checkTCPTermination, AfterTouch, PC, Returned
  <2>3. UNCHANGED priTable \/ \E p, entry : deleteOldConnection(p, entry)
    BY Zenon, <1>3 DEF PubWork, PubMiss, PubHit, PubCheck, PubExpire, PubTouch,
       ReadStatic, checkTCPTermination, tables
  <2>4. \A h \in Host : priTable'[h] \in {priTable[h], None}
    BY Zenon, <1>0, <2>3, DeleteOnlyRemoves
  <2> QED
    BY Zenon, <1>2, <2>1, <2>2, <2>4
<1>4. ASSUME NEW u \in PriWorker,
             \/ PriToUs(u) \/ PriTouch(u) \/ AllocFail(u) \/ AllocStore(u)
             \/ ReadStatic(u) \/ checkTCPTermination(u)
             \/ \E host \in Host, flag \in Flag :
                  PriMiss(u, host, flag) \/ PriHit(u, host, flag)
      PROVE  AllocMove(t)
  <2>1. u \in Thread /\ u = t
    BY DEF Thread, Worker, Sequential
  <2>2. \E pc \in PC \ {"take", "store"} :
          \/ Return(u, pc)
          \/ \E pub, host, flag : Start(u, pc, pub, host, flag)
          \/ Goto(u, pc)
    BY Zenon, <1>4 DEF PriToUs, PriTouch, AllocFail, AllocStore, ReadStatic,
       checkTCPTermination, PriMiss, PriHit, AfterTouch, PC, Returned
  <2> QED
    BY Zenon, <1>2, <2>1, <2>2
<1>5. ASSUME NEW u \in PriWorker, FindPort(u) \/ TakePort(u)
      PROVE  AllocMove(t)
  <2>1. u = t
    BY DEF Sequential
  <2> QED
    BY Zenon, <1>5, <2>1 DEF AllocMove
<1> QED
  BY Zenon, <1>1, <1>3, <1>4, <1>5
     DEF Next, PriWork, ChangeInterfaceAddress, handleDHCPAck, Sequential,
         SetAddress, OtherProtocol, Tick, vars, tables

\* Scanning and every later step keep ScanKept.
LEMMA ScanStep ==
  ASSUME Safe, Sequential, ScanKept, [Next]_vars
  PROVE  ScanKept'
<1> SUFFICES ASSUME NEW t \in PriWorker, work'[t].pc = "take",
                    NEW h \in work'[t].live, priTable'[h] # None
             PROVE  priTable'[h][2] # work'[t].pub[2]
  BY DEF ScanKept
<1>0. WorkOK /\ t \in Thread
  BY DEF Safe, WorkOK, TypeOK, Thread, Worker
<1>1. CASE FindPort(t)
  <2>1. PICK p \in DynamicPort :
          /\ NextPort(p) /\ work'[t].pub = <<pubAddr, p>>
          /\ work'[t].live = LiveHosts
    BY Zenon, <1>0, <1>1, FindMoves
  <2>2. ~TooOld(priTable[h][2])
    BY <2>1 DEF LiveHosts
  <2>3. TooOld(p) /\ work'[t].pub[2] = p
    BY <2>1 DEF NextPort, FreePort
  <2>4. priTable' = priTable
    BY <1>1 DEF FindPort, tables
  <2> QED
    BY Zenon, <2>2, <2>3, <2>4
<1>2. CASE TakePort(t)
  <2>1. Start(t, "store", <<pubAddr, work[t].pub[2]>>, work[t].host, work[t].flag)
    BY <1>2 DEF TakePort
  <2>2. work'[t].pc = "store"
    BY Zenon, <1>0, <2>1, OneThreadMoves
  <2> QED
    BY <2>2
<1>3. CASE work'[t] = work[t] /\ \A g \in Host : priTable'[g] \in {priTable[g], None}
  <2>1. h \in Host
    <3>1. work[t] \in WorkRecord
      BY <1>0 DEF WorkOK
    <3> QED
      BY <1>3, <3>1 DEF WorkRecord
  <2> QED
    BY <1>3, <2>1 DEF ScanKept
<1> QED
  BY Zenon, <1>1, <1>2, <1>3, AllocMoves DEF AllocMove

\* The port allocNewPort takes was silent for too long at the scan, and by the
\* mirror only the private tuple of that port loses its connection.
LEMMA SparesStep ==
  ASSUME Safe, MirrorInv, Sequential, ScanKept, [Next]_vars
  PROVE  SparesLive
<1> SUFFICES ASSUME NEW t \in PriWorker, work[t].pc = "take", work'[t].pc = "store",
                    NEW h \in work[t].live
             PROVE  priTable'[h] = priTable[h]
  BY DEF SparesLive
<1> DEFINE p == work[t].pub[2]
<1>0. WorkOK /\ t \in Thread
  BY DEF Safe, WorkOK, TypeOK, Thread, Worker
<1>1. TakePort(t)
  <2>1. ~FindPort(t)
    BY DEF FindPort
  <2>2. work'[t] # work[t]
    OBVIOUS
  <2> QED
    BY Zenon, <2>1, <2>2, AllocMoves DEF AllocMove
<1>2. deleteOldConnection(p, Cleared)
  BY <1>1 DEF TakePort
<1>3. p \in Port
  BY <1>0 DEF Safe, HandlerState, Returned, PubTuple
<1>4. h \in Host
  <2>1. work[t] \in WorkRecord
    BY <1>0 DEF WorkOK
  <2> QED
    BY <2>1 DEF WorkRecord
<1>5. priTable[h] = None \/ priTable[h][2] # p
  BY DEF ScanKept
<1> HIDE DEF p
<1>6. <<pubAddr, p>>[2] = p
  OBVIOUS
<1>7. priTable[h] = None \/ priTable[h] # <<pubAddr, p>>
  BY Zenon, <1>5, <1>6
<1>8. /\ priTable'[h] \in {priTable[h], None}
      /\ priTable[h] # <<pubAddr, p>> => priTable'[h] = priTable[h]
  BY Zenon, <1>2, <1>3, <1>4, DeleteMirror DEF Safe, MirrorInv
<1> QED
  BY <1>7, <1>8

\* No private tuple loses a connection that was in use when ports were scanned
\* because another one is given a port, however far the scan goes around and
\* whatever happens between the scan and the deletion.
THEOREM SparedConnections ==
  ASSUME Sequential
  PROVE  Spec => AllocationSparesLive
<1>1. Init => Safe /\ MirrorInv /\ ScanKept
  <2>1. Init => ScanKept
    <3>1. Init => \A t \in PriWorker : work[t].pc = "idle"
      BY DEF Init, Idle, Thread, Worker
    <3> QED
      BY <3>1 DEF ScanKept
  <2> QED
    BY <2>1, SafeInit, MirrorInit
<1>2. Safe /\ MirrorInv /\ ScanKept /\ [Next]_vars => Safe' /\ MirrorInv' /\ ScanKept'
  BY Zenon, SafeStep, MirrorStep, ScanStep
<1>3. Safe /\ MirrorInv /\ ScanKept /\ [Next]_vars => [SparesLive]_vars
  BY SparesStep
<1> QED
  BY <1>1, <1>2, <1>3, PTL DEF Spec, AllocationSparesLive

=============================================================================
