---------------------------- MODULE Translation ----------------------------
(***************************************************************************)
(* Address translation of one port pair for one protocol and IP version:   *)
(* the two lookup tables, the public portmap, the mutex of the pair and    *)
(* everything that touches them (nat/translation.go, nat/portalloc.go and  *)
(* the parts of nat/config.go, nat/grpc.go and nat/dhcp.go that store      *)
(* forwarding rules or replace the public address).                        *)
(*                                                                         *)
(* The packet handlers run on any number of cores at once.  Each of their  *)
(* unlocked accesses to shared state is a step of its own.  A section      *)
(* under the mutex is one step unless it reads the public address twice,   *)
(* or reads the age of a port before it acts on it: both are written       *)
(* without the mutex.  The other protocols of the pair have tables of      *)
(* their own and share only the mutex and lastport.                        *)
(*                                                                         *)
(* Time: an entry of the portmap holds the age of its lastused field, in   *)
(* ticks, saturating just above connectionTimeout.  The zero time of a     *)
(* cleared entry is the saturated age.                                     *)
(***************************************************************************)
EXTENDS Integers

CONSTANTS
  Host,             \* private tuples (address and port) that send packets
  PubAddr,          \* addresses the public interface may have
  ZeroAddr,         \* the address of an interface that was given none yet
  InitAddr,         \* public address when the flow graph starts
  AddrReuse,        \* the public port may get back an address it had before
  PortStart,        \* first port of the dynamic range
  PortEnd,          \* end of the dynamic range and length of the portmap
  ForwardPorts,     \* configured rules: a function from ports to targets
  ConnTimeout,      \* connectionTimeout in ticks
  ReuseTimeout,     \* portReuseTimeout in ticks
  IsTCP,            \* the protocol is TCP
  HasKNI,           \* which of the two ports have a kni-name
  PubWorker,        \* instances of PublicToPrivateTranslation
  PriWorker,        \* instances of PrivateToPublicTranslation
  Rpc,              \* GRPC requests being served at the same time
  KNI,              \* the target 0.0.0.0 of a forwarding rule
  None              \* an absent entry

Port == 0 .. PortEnd - 1
DynamicPort == PortStart .. PortEnd - 1
PubTuple == PubAddr \X Port
Target == Host \cup {KNI}
Side == {"pub", "pri"}
Worker == PubWorker \cup PriWorker
Thread == Worker \cup Rpc
Expired == ConnTimeout + 1

ASSUME TupleAssumption ==
  /\ None \notin PubTuple /\ None \notin Target /\ KNI \notin Host
  /\ InitAddr \in PubAddr

ASSUME ThreadAssumption ==
  /\ None \notin Thread
  /\ PubWorker \cap PriWorker = {} /\ Rpc \cap Worker = {}

ASSUME PortAssumption ==
  /\ PortStart \in Nat /\ PortEnd \in Nat /\ PortStart < PortEnd

ASSUME TimeAssumption ==
  /\ ConnTimeout \in Nat /\ ReuseTimeout \in Nat
  /\ ReuseTimeout <= ConnTimeout

\* The list of rules names a port once; targets passed checkPortForwarding.
ASSUME ForwardAssumption ==
  /\ DOMAIN ForwardPorts \subseteq Port
  /\ \A p \in DOMAIN ForwardPorts :
       /\ ForwardPorts[p] \in Target
       /\ ForwardPorts[p] = KNI => HasKNI["pub"]

ASSUME FlagAssumption ==
  /\ IsTCP \in BOOLEAN /\ AddrReuse \in BOOLEAN
  /\ HasKNI \in [Side -> BOOLEAN]

VARIABLES
  portmap,    \* PublicPort.portmap[protocol]
  pubTable,   \* PublicPort.translationTable[protocol]
  priTable,   \* PrivatePort.translationTable[protocol], keys of hosts
  lastport,   \* portPair.lastport
  mutex,      \* holder of portPair.mutex or None
  pubAddr,    \* PublicPort.Subnet.Addr
  acquired,   \* Subnet.addressAcquired of each port
  pastAddr,   \* every address the public port had (history)
  work        \* local state of the handler running on each thread

tables == <<portmap, pubTable, priTable>>
vars == <<portmap, pubTable, priTable, lastport, mutex, pubAddr, acquired,
          pastAddr, work>>

-----------------------------------------------------------------------------
(* Port entries *)

PortEntry == [age : 0 .. Expired, finCount : 0 .. 2,
              dir : {"none", "pri2pub", "pub2pri"}, static : BOOLEAN]

Cleared == [age |-> Expired, finCount |-> 0, dir |-> "none", static |-> FALSE]
JustUsed(isStatic) == [Cleared EXCEPT !.age = 0, !.static = isStatic]
ReusableSoon == [Cleared EXCEPT !.age = ConnTimeout - ReuseTimeout]

TooOld(p) == portmap[p].age > ConnTimeout

\* Fault: the age is compared with >= instead of >.
FreePortEarly(p) == ~portmap[p].static /\ portmap[p].age >= ConnTimeout

\* Fault: a port with a forwarding rule counts as free.
FreePortStatic(p) == TooOld(p)

\* A port allocNewPort may hand out.
FreePort(p) == ~portmap[p].static /\ TooOld(p)

\* The first free port of the scan from lastport up to the end of the range
\* and then from the start of the range up to lastport.
NextPort(p) ==
  /\ FreePort(p)
  /\ \/ /\ p \in lastport .. PortEnd - 1
        /\ \A q \in lastport .. p - 1 : ~FreePort(q)
     \/ /\ p \in PortStart .. lastport - 1
        /\ \A q \in (PortStart .. p - 1) \cup (lastport .. PortEnd - 1) :
              ~FreePort(q)

\* Fault: the private entry is left behind.
DeletePublicOnly(p, entry) ==
  /\ pubTable' = [pubTable EXCEPT ![<<pubAddr, p>>] = None]
  /\ portmap' = [portmap EXCEPT ![p] = entry]
  /\ UNCHANGED priTable

\* Fault: the public entry is left behind.
DeletePrivateOnly(p, entry) ==
  LET host == pubTable[<<pubAddr, p>>]
  IN /\ priTable' = IF host \in Host THEN [priTable EXCEPT ![host] = None]
                                     ELSE priTable
     /\ portmap' = [portmap EXCEPT ![p] = entry]
     /\ UNCHANGED pubTable

\* Forget the connection of port p under the current address; entry is what
\* the caller leaves in the portmap.  KNI targets have no private entry.
deleteOldConnection(p, entry) ==
  LET key == <<pubAddr, p>>
      host == pubTable[key]
  IN /\ priTable' = IF host \in Host THEN [priTable EXCEPT ![host] = None]
                                     ELSE priTable
     /\ pubTable' = [pubTable EXCEPT ![key] = None]
     /\ portmap' = [portmap EXCEPT ![p] = entry]

\* Store both lookup entries of a connection under the current address.
StoreConnection(p, target, isStatic) ==
  LET key == <<pubAddr, p>>
  IN /\ portmap' = [portmap EXCEPT ![p] = JustUsed(isStatic)]
     /\ pubTable' = [pubTable EXCEPT ![key] = target]
     /\ priTable' = IF target \in Host THEN [priTable EXCEPT ![target] = key]
                                       ELSE priTable

-----------------------------------------------------------------------------
(* Threads.  pub is the public tuple and host the private one of the packet *)
(* or request in hand; flag is the TCP flag that checkTCPTermination acts   *)
(* on, in its order FIN, RST, ACK; live are the private tuples whose port   *)
(* was in use when ports were scanned for a new connection (history).       *)

Flag == IF IsTCP THEN {"fin", "rst", "ack", "none"} ELSE {"none"}

\* "idle": dropped or sent on; "kni": returned DirKNI.
Returned == {"idle", "kni"}
Reserved == {"store", "enable"}
Critical == Reserved \cup {"take"}
PC == Returned \cup Critical
        \cup {"check", "touch", "expire", "alloc", "static", "tcp"}

WorkRecord == [pc : PC, pub : PubTuple \cup {None}, host : Target \cup {None},
               flag : {"fin", "rst", "ack", "none"}, live : SUBSET Host]

Idle == [pc |-> "idle", pub |-> None, host |-> None, flag |-> "none",
         live |-> {}]
Return(t, dir) == work' = [work EXCEPT ![t] = [Idle EXCEPT !.pc = dir]]
Start(t, pc, pub, host, flag) ==
  work' = [work EXCEPT ![t] = [pc |-> pc, pub |-> pub, host |-> host,
                               flag |-> flag, live |-> {}]]
Goto(t, pc) == work' = [work EXCEPT ![t].pc = pc]
Lock(t) == mutex = None /\ mutex' = t
Unlock == mutex' = None
LockedStep == mutex = None /\ UNCHANGED mutex

\* The packet found its connection: what is left is TCP termination, the MAC
\* lookup and the rewriting of the packet.
AfterTouch(t) == IF IsTCP /\ work[t].flag # "none" THEN Goto(t, "static")
                                                   ELSE Return(t, "idle")

Init ==
  /\ pubAddr = InitAddr /\ pastAddr = {InitAddr}
  /\ acquired \in {f \in [Side -> BOOLEAN] : f["pub"] = (InitAddr # ZeroAddr)}
  /\ lastport = PortStart /\ mutex = None
  /\ portmap = [p \in Port |-> IF p \in DOMAIN ForwardPorts
                               THEN JustUsed(TRUE) ELSE Cleared]
  /\ pubTable = [k \in PubTuple |->
                   IF k[1] = InitAddr /\ k[2] \in DOMAIN ForwardPorts
                   THEN ForwardPorts[k[2]] ELSE None]
  \* of several rules for one host the last one in the list is kept
  /\ priTable \in [Host -> PubTuple \cup {None}]
  /\ \A h \in Host :
       LET rules == {p \in DOMAIN ForwardPorts : ForwardPorts[p] = h}
       IN IF rules = {} THEN priTable[h] = None
                        ELSE \E p \in rules : priTable[h] = <<InitAddr, p>>
  /\ work = [t \in Thread |-> Idle]

-----------------------------------------------------------------------------
(* PublicToPrivateTranslation *)

PubMiss(t, key) ==
  /\ work[t].pc \in Returned
  /\ pubTable[key] = None
  /\ Return(t, IF HasKNI["pub"] /\ acquired["pub"] THEN "kni" ELSE "idle")
  /\ UNCHANGED <<tables, lastport, mutex, pubAddr, acquired, pastAddr>>

PubHit(t, key, flag) ==
  /\ work[t].pc \in Returned
  /\ pubTable[key] # None
  /\ Start(t, "check", key, pubTable[key], flag)
  /\ UNCHANGED <<tables, lastport, mutex, pubAddr, acquired, pastAddr>>

\* The age and the static flag are read without the mutex.
PubCheck(t) ==
  LET p == work[t].pub[2]
  IN /\ work[t].pc = "check"
     /\ Goto(t, IF portmap[p].static \/ ~TooOld(p) THEN "touch" ELSE "expire")
     /\ UNCHANGED <<tables, lastport, mutex, pubAddr, acquired, pastAddr>>

\* The connection is deleted under the mutex; its age is not read again.
PubExpire(t) ==
  /\ work[t].pc = "expire"
  /\ LockedStep
  /\ deleteOldConnection(work[t].pub[2], Cleared)
  /\ Return(t, "idle")
  /\ UNCHANGED <<lastport, pubAddr, acquired, pastAddr>>

Touch(t) == portmap' = [portmap EXCEPT ![work[t].pub[2]].age = 0]

PubTouch(t) ==
  /\ work[t].pc = "touch"
  /\ Touch(t)
  /\ IF work[t].host = KNI THEN Return(t, "kni") ELSE AfterTouch(t)
  /\ UNCHANGED <<pubTable, priTable, lastport, mutex, pubAddr, acquired,
                 pastAddr>>

-----------------------------------------------------------------------------
(* PrivateToPublicTranslation *)

\* A packet for the private interface itself.
PriToUs(t) ==
  /\ work[t].pc \in Returned
  /\ HasKNI["pri"] /\ acquired["pri"]
  /\ Return(t, "kni")
  /\ UNCHANGED <<tables, lastport, mutex, pubAddr, acquired, pastAddr>>

PriMiss(t, host, flag) ==
  /\ work[t].pc \in Returned
  /\ priTable[host] = None
  /\ IF acquired["pri"] /\ acquired["pub"]
     THEN Start(t, "alloc", None, host, flag) ELSE Return(t, "idle")
  /\ UNCHANGED <<tables, lastport, mutex, pubAddr, acquired, pastAddr>>

PriHit(t, host, flag) ==
  /\ work[t].pc \in Returned
  /\ priTable[host] # None
  /\ Start(t, "touch", priTable[host], host, flag)
  /\ UNCHANGED <<tables, lastport, mutex, pubAddr, acquired, pastAddr>>

\* The age of the connection is not looked at.
PriTouch(t) ==
  /\ work[t].pc = "touch"
  /\ Touch(t)
  /\ IF work[t].pub[1] = ZeroAddr THEN Return(t, "kni") ELSE AfterTouch(t)
  /\ UNCHANGED <<pubTable, priTable, lastport, mutex, pubAddr, acquired,
                 pastAddr>>

LiveHosts == {h \in Host : priTable[h] # None /\ ~TooOld(priTable[h][2])}

\* Fault: the mutex is not waited for.
FindPortUnlocked(t) ==
  /\ work[t].pc = "alloc"
  /\ mutex' = t
  /\ \E p \in DynamicPort :
       /\ NextPort(p)
       /\ lastport' = p
       /\ work' = [work EXCEPT ![t].pc = "take", ![t].pub = <<pubAddr, p>>,
                               ![t].live = LiveHosts]
  /\ UNCHANGED <<tables, pubAddr, acquired, pastAddr>>

\* allocateNewEgressConnection takes the mutex, and allocNewPort finds a port.
FindPort(t) ==
  /\ work[t].pc = "alloc"
  /\ Lock(t)
  /\ \E p \in DynamicPort :
       /\ NextPort(p)
       /\ lastport' = p
       /\ work' = [work EXCEPT ![t].pc = "take", ![t].pub = <<pubAddr, p>>,
                               ![t].live = LiveHosts]
  /\ UNCHANGED <<tables, pubAddr, acquired, pastAddr>>

\* Fault: the connection that had the port is not deleted.
TakePortNoDelete(t) ==
  /\ work[t].pc = "take"
  /\ Start(t, "store", <<pubAddr, work[t].pub[2]>>, work[t].host, work[t].flag)
  /\ UNCHANGED <<tables, lastport, mutex, pubAddr, acquired, pastAddr>>

\* The connection that had the port is deleted, although its age was read
\* before and packets write it without the mutex.
TakePort(t) ==
  LET p == work[t].pub[2]
  IN /\ work[t].pc = "take"
     /\ deleteOldConnection(p, Cleared)
     /\ Start(t, "store", <<pubAddr, p>>, work[t].host, work[t].flag)
     /\ UNCHANGED <<lastport, mutex, pubAddr, acquired, pastAddr>>

\* Fault: the error path does not unlock.
AllocFailLocked(t) ==
  /\ work[t].pc = "alloc"
  /\ Lock(t)
  /\ \A p \in DynamicPort : ~FreePort(p)
  /\ Return(t, "idle")
  /\ UNCHANGED <<tables, lastport, pubAddr, acquired, pastAddr>>

AllocFail(t) ==
  /\ work[t].pc = "alloc"
  /\ LockedStep
  /\ \A p \in DynamicPort : ~FreePort(p)
  /\ Return(t, "idle")
  /\ UNCHANGED <<tables, lastport, pubAddr, acquired, pastAddr>>

\* Fault: the private entry is stored with the address read before.
AllocStoreOldAddress(t) ==
  LET p == work[t].pub[2]
      host == work[t].host
  IN /\ work[t].pc = "store"
     /\ portmap' = [portmap EXCEPT ![p] = JustUsed(FALSE)]
     /\ pubTable' = [pubTable EXCEPT ![<<pubAddr, p>>] = host]
     /\ priTable' = [priTable EXCEPT ![host] = work[t].pub]
     /\ Unlock
     /\ AfterTouch(t)
     /\ UNCHANGED <<lastport, pubAddr, acquired, pastAddr>>

AllocStore(t) ==
  LET p == work[t].pub[2]
  IN /\ work[t].pc = "store"
     /\ StoreConnection(p, work[t].host, FALSE)
     /\ Unlock
     /\ AfterTouch(t)
     /\ UNCHANGED <<lastport, pubAddr, acquired, pastAddr>>

-----------------------------------------------------------------------------
(* checkTCPTermination, called by both handlers *)

\* The static flag is read before the mutex is taken.
ReadStatic(t) ==
  /\ work[t].pc = "static"
  /\ IF portmap[work[t].pub[2]].static THEN Return(t, "idle") ELSE Goto(t, "tcp")
  /\ UNCHANGED <<tables, lastport, mutex, pubAddr, acquired, pastAddr>>

Direction(t) == IF t \in PubWorker THEN "pub2pri" ELSE "pri2pub"

\* Fault: every FIN of the other direction counts.
FinAlways(p, dir) ==
  LET pme == portmap[p]
  IN portmap' = [portmap EXCEPT ![p] =
       IF pme.finCount = 0 THEN [pme EXCEPT !.finCount = 1, !.dir = dir]
       ELSE IF pme.dir # dir THEN [pme EXCEPT !.finCount = @ + 1]
       ELSE pme]

Fin(p, dir) ==
  LET pme == portmap[p]
  IN portmap' = [portmap EXCEPT ![p] =
       IF pme.finCount = 0 THEN [pme EXCEPT !.finCount = 1, !.dir = dir]
       ELSE IF pme.finCount = 1 /\ pme.dir # dir THEN [pme EXCEPT !.finCount = 2]
       ELSE pme]

checkTCPTermination(t) ==
  LET p == work[t].pub[2]
      flag == work[t].flag
  IN /\ work[t].pc = "tcp"
     /\ LockedStep
     /\ \/ /\ flag = "fin"
           /\ Fin(p, Direction(t))
           /\ UNCHANGED <<pubTable, priTable>>
        \/ /\ flag = "rst"
           /\ deleteOldConnection(p, Cleared)
        \/ /\ flag = "ack" /\ portmap[p].finCount = 2
           /\ deleteOldConnection(p, ReusableSoon)
        \/ /\ flag = "ack" /\ portmap[p].finCount # 2
           /\ UNCHANGED tables
     /\ Return(t, "idle")
     /\ UNCHANGED <<lastport, pubAddr, acquired, pastAddr>>

-----------------------------------------------------------------------------
(* GRPC requests, address changes, time *)

\* ChangePortForwarding on the public port: a rule is removed ...
DisableForwarding(t, p) ==
  /\ work[t].pc = "idle"
  /\ LockedStep
  /\ deleteOldConnection(p, Cleared)
  /\ UNCHANGED <<lastport, pubAddr, acquired, pastAddr, work>>

\* ... or the port is cleared and then given to the new rule, with a second
\* read of the address in between.
EnableForwarding(t, p, target) ==
  /\ work[t].pc = "idle"
  /\ target = KNI => HasKNI["pub"]
  /\ Lock(t)
  /\ deleteOldConnection(p, Cleared)
  /\ Start(t, "enable", <<pubAddr, p>>, target, "none")
  /\ UNCHANGED <<lastport, pubAddr, acquired, pastAddr>>

enableStaticPortForward(t) ==
  /\ work[t].pc = "enable"
  /\ StoreConnection(work[t].pub[2], work[t].host, TRUE)
  /\ Unlock
  /\ Return(t, "idle")
  /\ UNCHANGED <<lastport, pubAddr, acquired, pastAddr>>

\* The tables are left as they are, and the mutex is not taken.
SetAddress(side, addr, ok) ==
  /\ side = "pub" => AddrReuse \/ addr = pubAddr \/ addr \notin pastAddr
  /\ pubAddr' = IF side = "pub" THEN addr ELSE pubAddr
  /\ pastAddr' = pastAddr \cup {pubAddr'}
  /\ acquired' = [acquired EXCEPT ![side] = ok]
  /\ UNCHANGED <<tables, lastport, mutex, work>>

\* Giving the address to the KNI interface may fail.
ChangeInterfaceAddress(side, addr, ok) ==
  /\ Rpc # {}
  /\ ~ok => HasKNI[side]
  /\ SetAddress(side, addr, ok)

handleDHCPAck(side, addr) == ~acquired[side] /\ SetAddress(side, addr, TRUE)

\* Another protocol of the pair allocates a port.
OtherProtocol(p) ==
  /\ LockedStep
  /\ lastport' = p
  /\ UNCHANGED <<tables, pubAddr, acquired, pastAddr, work>>

Older(age) == IF age = Expired THEN age ELSE age + 1

Tick ==
  /\ portmap' = [p \in Port |-> [portmap[p] EXCEPT !.age = Older(@)]]
  /\ UNCHANGED <<pubTable, priTable, lastport, mutex, pubAddr, acquired,
                 pastAddr, work>>

-----------------------------------------------------------------------------

PubWork(t) == \/ PubCheck(t) \/ PubExpire(t) \/ PubTouch(t)
              \/ ReadStatic(t) \/ checkTCPTermination(t)

PriWork(t) == \/ PriTouch(t) \/ FindPort(t) \/ TakePort(t)
              \/ AllocFail(t) \/ AllocStore(t)
              \/ ReadStatic(t) \/ checkTCPTermination(t)

Next ==
  \/ \E t \in PubWorker : \/ \E key \in PubTuple : PubMiss(t, key)
                          \/ \E key \in PubTuple, flag \in Flag :
                               PubHit(t, key, flag)
                          \/ PubWork(t)
  \/ \E t \in PriWorker : \/ PriToUs(t)
                          \/ \E host \in Host, flag \in Flag :
                               \/ PriMiss(t, host, flag)
                               \/ PriHit(t, host, flag)
                          \/ PriWork(t)
  \/ \E t \in Rpc : \/ \E p \in Port : DisableForwarding(t, p)
                    \/ \E p \in Port, target \in Target :
                         EnableForwarding(t, p, target)
                    \/ enableStaticPortForward(t)
  \/ \E side \in Side, addr \in PubAddr \ {ZeroAddr}, ok \in BOOLEAN :
       ChangeInterfaceAddress(side, addr, ok)
  \/ \E side \in Side, addr \in PubAddr \ {ZeroAddr} : handleDHCPAck(side, addr)
  \/ \E p \in DynamicPort : OtherProtocol(p)
  \/ Tick

Spec == Init /\ [][Next]_vars

\* A handler that runs is scheduled again, and a Go mutex is granted to every
\* goroutine that waits for it (it turns FIFO after a millisecond).  Nothing
\* makes packets or requests arrive.
Fairness ==
  /\ \A t \in PubWorker : SF_vars(PubWork(t))
  /\ \A t \in PriWorker : SF_vars(PriWork(t))
  /\ \A t \in Rpc : WF_vars(enableStaticPortForward(t))

FairSpec == Spec /\ Fairness

-----------------------------------------------------------------------------
(* Properties *)

\* Every field stays in its range; in particular lastport stays inside the
\* dynamic range, so that allocNewPort never indexes past the portmap.
TypeOK ==
  /\ portmap \in [Port -> PortEntry]
  /\ pubTable \in [PubTuple -> Target \cup {None}]
  /\ priTable \in [Host -> PubTuple \cup {None}]
  /\ lastport \in DynamicPort
  /\ mutex \in Thread \cup {None}
  /\ pubAddr \in PubAddr /\ pastAddr \subseteq PubAddr
  /\ acquired \in [Side -> BOOLEAN]
  /\ work \in [Thread -> WorkRecord]

\* A private tuple that is translated to a public one gets its replies back:
\* the public lookup table leads from that public tuple to this private one,
\* whatever the handlers, GRPC requests and address changes interleave.
ReplyPathExists ==
  \A h \in Host : priTable[h] # None => pubTable[priTable[h]] = h

\* The other direction: the private tuple a public one leads to is translated
\* to that public tuple.  It holds while one handler serves the private port
\* and no rule is added at run time: the lookup that decides to allocate a
\* connection runs before the mutex is taken.
TablesMirror ==
  \A k \in PubTuple : pubTable[k] \in Host => priTable[pubTable[k]] = k

\* allocNewPort reclaims ports only from connections that were silent for
\* longer than the timeout: no private tuple loses a connection whose port was
\* in use when the ports were scanned because some other tuple is given a port.
\* A packet that uses a connection after the scan does not save it.
SparesLive ==
  \A t \in PriWorker : work[t].pc = "take" /\ work'[t].pc = "store" =>
    \A h \in work[t].live : priTable'[h] = priTable[h]

AllocationSparesLive == [][SparesLive]_vars

\* A public tuple in use is released before it is given to another target, so
\* no lookup ever sees it move from one private tuple to another in one step.
ReleaseFirst ==
  \A k \in PubTuple : pubTable[k] # None /\ pubTable'[k] # pubTable[k]
                         => pubTable'[k] = None

ReleasedBeforeReuse == [][ReleaseFirst]_vars

\* A configured forwarding rule stays in force, in both directions, as long as
\* no GRPC request changes it: traffic, the timeout, TCP termination and port
\* allocation never remove it.
RulesInForce ==
  Rpc = {} => \A p \in DOMAIN ForwardPorts :
    LET target == ForwardPorts[p]
    IN /\ portmap[p].static
       /\ pubTable[<<InitAddr, p>>] = target
       /\ target \in Host => \E q \in DOMAIN ForwardPorts :
            ForwardPorts[q] = target /\ priTable[target] = <<InitAddr, q>>

\* A forwarding rule is in force at the address the public port has now.
ForwardReachable ==
  \A p \in Port : portmap[p].static => pubTable[<<pubAddr, p>>] # None

\* "Port with index ... should have kni-name setting if you want to forward
\* packets to KNI": the private handler returns the output KNI only if its port
\* has a KNI interface; the splitter has no third output otherwise.
KNIOnlyIfPresent ==
  \A t \in PriWorker : work[t].pc = "kni" => HasKNI["pri"]

\* The rules of a configuration are of use in one direction at least: packets
\* from outside find them at the address the public port has, or else packets
\* of their hosts get some output that exists.
RuleOfUse == acquired["pub"] => ForwardReachable \/ KNIOnlyIfPresent

\* Every packet that enters a handler leaves it: no handler waits for the
\* mutex for ever.
HandlersReturn ==
  \A t \in Worker : work[t].pc \notin Returned ~> work[t].pc \in Returned

-----------------------------------------------------------------------------
(* Refinement *)

Promise == INSTANCE AbstractNat WITH out <- priTable, back <- pubTable,
                                     Internal <- KNI

\* The whole program, with all its threads, unlocked reads and address changes,
\* behaves like a translator that binds and releases one public tuple at a time
\* and never binds one that is in use.
ImplementsNat == Promise!Spec

-----------------------------------------------------------------------------
(* The inductive invariant behind ReplyPathExists *)

\* What a thread has in hand at each point of its handler.
HandlerState ==
  \A t \in Thread :
    LET w == work[t]
    IN /\ w.pc \notin Returned \cup {"alloc"} => w.pub \in PubTuple
       /\ w.pc \in {"alloc", "take", "store"} => w.host \in Host
       /\ w.pc = "enable" => w.host \in Target

\* Exactly the thread inside a section that spans several steps has the mutex.
MutexHeld == \A t \in Thread : work[t].pc \in Critical <=> mutex = t

\* The port chosen under the mutex is unused under the current address, even
\* when that address was replaced since.
PortReserved ==
  \A t \in Thread : work[t].pc \in Reserved =>
    pubTable[<<pubAddr, work[t].pub[2]>>] = None

\* No entry is keyed by an address the interface never had.
NewAddressUnused ==
  /\ pubAddr \in pastAddr
  /\ \A a \in PubAddr \ pastAddr, p \in Port : pubTable[<<a, p>>] = None

=============================================================================
