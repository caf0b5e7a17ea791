------------------------------- MODULE Traces -------------------------------
(***************************************************************************)
(* Tracing of packets to files (nat/util.go): the handlers of both sides   *)
(* dump packets while ControlDump (nat/grpc.go) switches traces on and off *)
(* and, after SIGINT, main (nat.go) closes the files and ends the program. *)
(*                                                                         *)
(* A trace is switched by an array that is read without a lock.  A file is *)
(* created on first use, under the mutex of its port and kind, and closed  *)
(* without that mutex while handlers go on.                                *)
(***************************************************************************)
EXTENDS PacketPath, Naturals

CONSTANTS
  Worker,    \* clones of the handlers
  SideOf,    \* the side of each
  Flags,     \* traces switched on by option -dump
  Switched,  \* traces that GRPC requests switch
  None

ASSUME WorkerAssumption ==
  /\ SideOf \in [Worker -> Side] /\ None \notin Worker
  /\ Flags \subseteq Dir /\ Switched \subseteq Dir

VARIABLES
  DumpEnabled,   \* the kinds of trace that are on
  fdump,         \* port.fdump: "nil", "open" or "closed"
  filled,        \* files that hold a packet
  dumpsync,      \* port.dumpsync: the worker that holds the mutex
  hand,          \* the workers: see Idle
  closing,       \* main: ports left to close, files in its copy, files that
                 \* were open at the signal (history)
  program        \* "run", "signal", "exit", "fatal"; "disk" after an I/O error,
                 \* "panic" after a handler's panic

vars == <<DumpEnabled, fdump, filled, dumpsync, hand, closing, program>>
files == <<fdump, filled, dumpsync>>

\* pc, the dumps to make, the direction to return; history: how often each trace
\* got the packet, and which of its kinds of trace were on all the time.
Idle == [pc |-> "idle", todo |-> <<>>, dir |-> "drop",
         rec |-> [t \in Trace |-> 0], on |-> {}]

Init ==
  /\ DumpEnabled = Flags
  /\ fdump = [t \in Trace |-> "nil"] /\ filled = {}
  /\ dumpsync = [t \in Trace |-> None]
  /\ hand = [w \in Worker |-> Idle]
  /\ closing = [ports |-> <<"private", "public">>, copy |-> {}, old |-> {}]
  /\ program = "run"

Running == program \in {"run", "signal"}

-----------------------------------------------------------------------------
(* The handlers.  Everything but dumpPacket is in module PacketPath. *)

At(w, pc) == Running /\ hand[w].pc = pc
Now(w) == Head(hand[w].todo).trace
Stay == UNCHANGED <<closing, program>>

Recorded(w) == IF Head(hand[w].todo).own THEN hand[w].rec
               ELSE [hand[w].rec EXCEPT ![Now(w)] = @ + 1]

\* The process ends, and its threads with it.
Terminate(how) == program' = how /\ hand' = [w \in Worker |-> Idle]

Arrive(w, r) ==
  /\ At(w, "idle")
  /\ hand' = [hand EXCEPT ![w] = [pc |-> "dump", todo |-> r.dumps, dir |-> r.dir,
                                  rec |-> Idle.rec, on |-> DumpEnabled \cap {"send", r.dir}]]
  /\ UNCHANGED <<DumpEnabled, files>> /\ Stay

\* dumpPacket reads DumpEnabled without a lock.
Check(w) ==
  /\ At(w, "dump") /\ hand[w].todo # <<>>
  /\ hand' = IF Now(w)[2] \in DumpEnabled
             THEN [hand EXCEPT ![w].pc = "lock"]
             ELSE [hand EXCEPT ![w].todo = Tail(@)]
  /\ UNCHANGED <<DumpEnabled, files>> /\ Stay

\* Fault: the mutex is not taken.
LockNothing(w) ==
  /\ At(w, "lock")
  /\ hand' = [hand EXCEPT ![w].pc = IF fdump[Now(w)] = "nil" THEN "create" ELSE "write"]
  /\ UNCHANGED <<DumpEnabled, files>> /\ Stay

Lock(w) ==
  /\ At(w, "lock") /\ dumpsync[Now(w)] = None
  /\ dumpsync' = [dumpsync EXCEPT ![Now(w)] = w]
  /\ hand' = [hand EXCEPT ![w].pc = IF fdump[Now(w)] = "nil" THEN "create" ELSE "write"]
  /\ UNCHANGED <<DumpEnabled, fdump, filled>> /\ Stay

\* startTrace: os.Create truncates a file that exists; log.Fatal if it fails.
startTrace(w, ok) ==
  /\ At(w, "create")
  /\ IF ok
     THEN /\ fdump' = [fdump EXCEPT ![Now(w)] = "open"]
          /\ filled' = filled \ {Now(w)}
          /\ hand' = [hand EXCEPT ![w].pc = "write"]
          /\ UNCHANGED program
     ELSE Terminate("disk") /\ UNCHANGED <<fdump, filled>>
  /\ UNCHANGED <<DumpEnabled, dumpsync, closing>>

\* Fault: the mutex is kept.
WriteLocked(w, ok) ==
  /\ At(w, "write")
  /\ IF ok /\ fdump[Now(w)] = "open"
     THEN /\ filled' = filled \cup {Now(w)}
          /\ hand' = [hand EXCEPT ![w].pc = "dump", ![w].todo = Tail(@),
                                  ![w].rec = Recorded(w)]
          /\ UNCHANGED <<dumpsync, program>>
     ELSE /\ Terminate(IF ok THEN "fatal" ELSE "disk")
          /\ UNCHANGED <<filled, dumpsync>>
  /\ UNCHANGED <<DumpEnabled, fdump, closing>>

\* The packet is written and the mutex released; log.Fatal if writing fails.
Write(w, ok) ==
  /\ At(w, "write")
  /\ IF ok /\ fdump[Now(w)] = "open"
     THEN /\ filled' = filled \cup {Now(w)}
          /\ dumpsync' = [dumpsync EXCEPT ![Now(w)] = None]
          /\ hand' = [hand EXCEPT ![w].pc = "dump", ![w].todo = Tail(@),
                                  ![w].rec = Recorded(w)]
          /\ UNCHANGED program
     ELSE /\ Terminate(IF ok THEN "fatal" ELSE "disk")
          /\ UNCHANGED <<filled, dumpsync>>
  /\ UNCHANGED <<DumpEnabled, fdump, closing>>

Return(w) ==
  /\ At(w, "dump") /\ hand[w].todo = <<>>
  /\ IF hand[w].dir = "panic"
     THEN Terminate("panic")
     ELSE hand' = [hand EXCEPT ![w] = Idle] /\ UNCHANGED program
  /\ UNCHANGED <<DumpEnabled, files, closing>>

-----------------------------------------------------------------------------
(* ControlDump *)

\* Fault: the files of a trace that is switched off are closed.
ControlDumpClosing(d, enable) ==
  /\ Running
  /\ DumpEnabled' = IF enable THEN DumpEnabled \cup {d} ELSE DumpEnabled \ {d}
  /\ fdump' = [t \in Trace |-> IF t[2] = d /\ ~enable /\ fdump[t] = "open"
                               THEN "closed" ELSE fdump[t]]
  /\ hand' = [w \in Worker |-> [hand[w] EXCEPT !.on = @ \cap DumpEnabled']]
  /\ UNCHANGED <<filled, dumpsync>> /\ Stay

ControlDump(d, enable) ==
  /\ Running
  /\ DumpEnabled' = IF enable THEN DumpEnabled \cup {d} ELSE DumpEnabled \ {d}
  /\ hand' = [w \in Worker |-> [hand[w] EXCEPT !.on = @ \cap DumpEnabled']]
  /\ UNCHANGED files /\ Stay

-----------------------------------------------------------------------------
(* The end of main *)

Signal ==
  /\ program = "run"
  /\ program' = "signal"
  /\ closing' = [closing EXCEPT !.old = {t \in Trace : fdump[t] = "open"}]
  /\ UNCHANGED <<DumpEnabled, files, hand>>

\* closePortTraces ranges over a copy of port.fdump.
CopyFiles ==
  /\ program = "signal" /\ closing.ports # <<>> /\ closing.copy = {}
  /\ closing' = [closing EXCEPT !.ports = Tail(@),
       !.copy = {t \in Trace : t[1] = Head(closing.ports) /\ fdump[t] # "nil"}]
  /\ UNCHANGED <<DumpEnabled, files, hand, program>>

CloseFile(t) ==
  /\ program = "signal" /\ t \in closing.copy
  /\ fdump' = [fdump EXCEPT ![t] = "closed"]
  /\ closing' = [closing EXCEPT !.copy = @ \ {t}]
  /\ UNCHANGED <<DumpEnabled, filled, dumpsync, hand, program>>

\* Fault: the program ends when the first port is done.
ExitEarly ==
  /\ program = "signal" /\ Len(closing.ports) # 2 /\ closing.copy = {}
  /\ Terminate("exit")
  /\ UNCHANGED <<DumpEnabled, files, closing>>

\* main returns, which ends the program whatever the handlers do.
Exit ==
  /\ program = "signal" /\ closing.ports = <<>> /\ closing.copy = {}
  /\ Terminate("exit")
  /\ UNCHANGED <<DumpEnabled, files, closing>>

-----------------------------------------------------------------------------

Step(w) == \/ Check(w) \/ Lock(w) \/ Return(w)
           \/ \E ok \in BOOLEAN : startTrace(w, ok) \/ Write(w, ok)

Close == CopyFiles \/ (\E t \in Trace : CloseFile(t)) \/ Exit

Next ==
  \/ \E w \in Worker : Step(w) \/ \E r \in Passes[SideOf[w]] : Arrive(w, r)
  \/ \E d \in Switched, enable \in BOOLEAN : ControlDump(d, enable)
  \/ Signal
  \/ Close

Spec == Init /\ [][Next]_vars

-----------------------------------------------------------------------------
(* Properties *)

\* Every field keeps its type, and a mutex is held by the one worker that is
\* creating or writing the file it protects: nobody leaves dumpPacket with it.
TracesTypeOK ==
  /\ DumpEnabled \subseteq Dir /\ filled \subseteq Trace
  /\ fdump \in [Trace -> {"nil", "open", "closed"}]
  /\ closing.copy \subseteq Trace /\ closing.old \subseteq Trace
  /\ program \in {"run", "signal", "exit", "fatal", "disk", "panic"}
  /\ Running => \A t \in Trace : {w \in Worker : hand[w].pc \in {"create", "write"} /\ Now(w) = t}
       = IF dumpsync[t] = None THEN {} ELSE {dumpsync[t]}

\* A trace that holds packets is never truncated: startTrace runs once per port
\* and kind, however handlers, switching and closing interleave.
TraceKept == [][filled \subseteq filled']_vars

\* The traces of a packet of side s that is returned to output d: the one of
\* packets that arrive, and the one of what becomes of it.
Due(s, d) ==
  {<<s, "send">>} \cup CASE d = "panic" -> {}
                         [] d = "send"  -> {<<Opposite(s), "send">>}
                         [] OTHER       -> {<<s, d>>}

\* "d means to trace dropped packets", "k means to trace packets that were sent
\* to KNI interface": when a handler is done with a packet, the packet was
\* written once to each trace it belongs to that was on all the time, at most
\* once if it was switched, and to no other.  A sent packet is in the trace of
\* the port it leaves from; all packets are in the one of the port they reach.
TracedAsReturned ==
  \A w \in Worker : hand[w].pc = "dump" /\ hand[w].todo = <<>> =>
    LET due == Due(SideOf[w], hand[w].dir)
    IN  \A t \in Trace : /\ hand[w].rec[t] <= IF t \in due THEN 1 ELSE 0
                         /\ t \in due /\ t[2] \in hand[w].on => hand[w].rec[t] = 1

\* Without an I/O error tracing ends the program only after SIGINT: log.Fatal
\* in dumpPacket is not reached by switching traces and writing them.
FatalOnlyAtExit == [][program' = "fatal" => program = "signal"]_vars

\* "CloseAllDumpFiles closes all debug dump files": when main returns, every
\* file that was open at the signal is closed, on both ports.
ClosedAtExit == program = "exit" => \A t \in closing.old : fdump[t] = "closed"
=============================================================================
