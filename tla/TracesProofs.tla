---------------------------- MODULE TracesProofs ----------------------------
(***************************************************************************)
(* Tracing for any number of handlers, any KNI interfaces and any switched *)
(* traces.  The invariant has four parts: types, the mutexes of the files, *)
(* the states of the files and what main has left to close.  A second one, *)
(* on top of it, says what each handler has dumped and has left to dump.   *)
(***************************************************************************)
EXTENDS Traces, Integers, SequenceTheorems, TLAPS

Dumps == [trace : Trace, own : BOOLEAN]

Hand == [pc : {"idle", "dump", "lock", "create", "write"}, todo : Seq(Dumps),
         dir : Dir \cup {"panic"}, rec : [Trace -> Nat], on : SUBSET Dir]

Ports == {<<"private", "public">>, <<"public">>, <<>>}

\* Types; a worker inside dumpPacket has a packet to dump.
Fields ==
  /\ DumpEnabled \subseteq Dir
  /\ filled \subseteq Trace
  /\ fdump \in [Trace -> {"nil", "open", "closed"}]
  /\ dumpsync \in [Trace -> Worker \cup {None}]
  /\ hand \in [Worker -> Hand]
  /\ closing \in [ports : Ports, copy : SUBSET Trace, old : SUBSET Trace]
  /\ program \in {"run", "signal", "exit", "fatal", "disk", "panic"}

Busy == \A w \in Worker : hand[w].pc \in {"lock", "create", "write"} => hand[w].todo # <<>>

\* A worker that creates or writes a file holds its mutex, and nobody else does.
Inside(w) == hand[w].pc \in {"create", "write"}

Locks ==
  Running =>
    /\ \A w \in Worker : Inside(w) => dumpsync[Now(w)] = w
    /\ \A t \in Trace : dumpsync[t] # None => Inside(dumpsync[t]) /\ Now(dumpsync[t]) = t

\* A file is created when there is none, and written when there is one.
Opened ==
  /\ \A w \in Worker : hand[w].pc = "create" => fdump[Now(w)] = "nil"
  /\ \A w \in Worker : hand[w].pc = "write" => fdump[Now(w)] # "nil"
  /\ \A t \in filled : fdump[t] # "nil"

\* main has closed nothing before the signal; a file that was open then is
\* closed, in the copy or on a port that main has not come to.
Left ==
  /\ program = "run" =>
       /\ closing.ports = <<"private", "public">> /\ closing.copy = {}
       /\ \A t \in Trace : fdump[t] # "closed"
  /\ \A t \in closing.copy : fdump[t] # "nil"
  /\ \A t \in closing.old :
       /\ fdump[t] # "nil"
       /\ \/ fdump[t] = "closed" \/ t \in closing.copy
          \/ closing.ports = <<"private", "public">>
          \/ closing.ports = <<"public">> /\ t[1] = "public"

\* main returns when nothing is left to close.
Done == program = "exit" => closing.ports = <<>> /\ closing.copy = {}

TInv == Fields /\ Busy /\ Locks /\ Opened /\ Left /\ Done

-----------------------------------------------------------------------------

\* Due as a choice of two sets.
LEMMA DueIs ==
  ASSUME NEW s \in Side, NEW d \in Dir \cup {"panic"}
  PROVE  /\ d = "panic" => Due(s, d) = {<<s, "send">>}
         /\ d = "send" => Due(s, d) = {<<s, "send">>, <<Opposite(s), "send">>}
         /\ d \in {"drop", "kni"} => Due(s, d) = {<<s, "send">>, <<s, d>>}
  BY DEF Due

\* What is in hand of a packet with the traces due: every dump of it is due and
\* is not made yet, no trace has the packet twice, and a trace that was on all
\* the time has it or is left to dump.
Noted(due, q, rec, on) ==
  /\ \A i, j \in DOMAIN q : ~q[i].own /\ ~q[j].own /\ q[i].trace = q[j].trace => i = j
  /\ \A i \in DOMAIN q : ~q[i].own => q[i].trace \in due /\ rec[q[i].trace] = 0
  /\ \A t \in Trace : rec[t] = 0 \/ (t \in due /\ rec[t] = 1)
  /\ \A t \in Trace : t \in due /\ t[2] \in on => rec[t] = 1 \/ \E i \in DOMAIN q : ~q[i].own /\ q[i].trace = t

\* A packet that is dumped on arrival only is noted where it should be.
LEMMA OneDump ==
  ASSUME NEW a \in Dumps, ~a.own, NEW on
  PROVE  LET q == <<a>> \o <<>>
         IN  q \in Seq(Dumps) /\ Noted({a.trace}, q, Idle.rec, on)
<1>1. <<a>> \o <<>> = <<a>>
  OBVIOUS
<1>2. <<a>> \in Seq(Dumps) /\ DOMAIN <<a>> = {1} /\ <<a>>[1] = a
  OBVIOUS
<1>3. \A t \in Trace : Idle.rec[t] = 0
  BY DEF Idle
<1>4. a.trace \in Trace
  BY DEF Dumps
<1> QED
  BY <1>1, <1>2, <1>3, <1>4 DEF Noted

\* The packet is dumped on arrival and where it goes.
LEMMA TwoDumps ==
  ASSUME NEW a \in Dumps, ~a.own, NEW b \in Dumps, ~b.own, a.trace # b.trace, NEW on
  PROVE  LET q == <<a>> \o <<b>>
         IN  q \in Seq(Dumps) /\ Noted({a.trace, b.trace}, q, Idle.rec, on)
<1> DEFINE q == <<a>> \o <<b>>
<1>1. q \in Seq(Dumps) /\ Len(q) = 2 /\ q[1] = a /\ q[2] = b
  OBVIOUS
<1> HIDE DEF q
<1>2. DOMAIN q = {1, 2}
  BY <1>1
<1>3. \A t \in Trace : Idle.rec[t] = 0
  BY DEF Idle
<1>4. a.trace \in Trace /\ b.trace \in Trace
  BY DEF Dumps
<1>5. Noted({a.trace, b.trace}, q, Idle.rec, on)
  BY <1>1, <1>2, <1>3, <1>4 DEF Noted
<1> QED
  BY <1>1, <1>5 DEF q

\* A packet that the program made is dumped in between.
LEMMA ThreeDumps ==
  ASSUME NEW a \in Dumps, ~a.own, NEW b \in Dumps, ~b.own, a.trace # b.trace,
         NEW m \in Dumps, m.own, NEW on
  PROVE  LET q == <<a>> \o <<m, b>>
         IN  q \in Seq(Dumps) /\ Noted({a.trace, b.trace}, q, Idle.rec, on)
<1> DEFINE q == <<a>> \o <<m, b>>
<1>1. q \in Seq(Dumps) /\ Len(q) = 3 /\ q[1] = a /\ q[2] = m /\ q[3] = b
  OBVIOUS
<1> HIDE DEF q
<1>2. DOMAIN q = {1, 2, 3}
  BY <1>1
<1>3. \A t \in Trace : Idle.rec[t] = 0
  BY DEF Idle
<1>4. a.trace \in Trace /\ b.trace \in Trace
  BY DEF Dumps
<1>5. Noted({a.trace, b.trace}, q, Idle.rec, on)
  BY <1>1, <1>2, <1>3, <1>4 DEF Noted
<1> QED
  BY <1>1, <1>5 DEF q

\* What a handler does with a packet: it dumps to traces of the pair, the packet
\* once to each trace that is due.
LEMMA PassTypes ==
  ASSUME NEW s \in Side, NEW r \in Passes[s], NEW on
  PROVE  /\ r.dumps \in Seq(Dumps) /\ r.dir \in Dir \cup {"panic"}
         /\ Noted(Due(s, r.dir), r.dumps, Idle.rec, on)
<1> DEFINE Ok(q, d) == /\ q \in Seq(Dumps) /\ d \in Dir \cup {"panic"}
                       /\ Noted(Due(s, d), q, Idle.rec, on)
           Good(e) == Ok(e.dumps, e.dir)
<1>1. PICK f \in Found : r = Handle(s, f)
  BY DEF Passes
<1>2. \A x \in Side, d \in Dir : It(x, d) \in Dumps /\ ~It(x, d).own /\ It(x, d).trace = <<x, d>>
  BY DEF It, Dumps, Trace
<1>3. \A x \in Side : Made(x) \in Dumps /\ Made(x).own
  BY DEF Made, Dumps, Trace, Dir
<1>4. Opposite(s) \in Side /\ Opposite(s) # s
  BY DEF Opposite, Side
<1>5. {"drop", "send", "kni"} \subseteq Dir
  BY DEF Dir
<1>e. ASSUME NEW q, NEW d, Ok(<<It(s, "send")>> \o q, d) PROVE Good(End(s, q, d))
  BY <1>e DEF End
<1>6. Good(Panic(s))
  <2>0. Due(s, "panic") = {It(s, "send").trace}
    BY <1>2, <1>5, DueIs
  <2>1. Ok(<<It(s, "send")>> \o <<>>, "panic")
    BY Zenon, <1>2, <1>5, <2>0, OneDump
  <2> QED
    BY Zenon, <1>e, <2>1 DEF Panic
<1>7. ASSUME NEW d \in {"drop", "kni"} PROVE Good(Leave(s, d))
  <2>1. <<s, "send">> # <<s, d>> /\ d \in Dir
    BY <1>5
  <2>2. Due(s, d) = {It(s, "send").trace, It(s, d).trace}
    <3>1. Due(s, d) = {<<s, "send">>, <<s, d>>}
      BY DueIs, <1>5
    <3> QED
      BY Zenon, <1>2, <1>5, <2>1, <3>1
  <2>3. Ok(<<It(s, "send")>> \o <<It(s, d)>>, d)
    BY Zenon, <1>2, <1>5, <2>1, <2>2, TwoDumps
  <2> QED
    BY Zenon, <1>e, <2>3 DEF Leave
<1>8. ASSUME NEW x \in Side PROVE Good(End(s, <<Made(x), It(s, "drop")>>, "drop"))
  <2>1. <<s, "send">> # <<s, "drop">>
    OBVIOUS
  <2>2. Due(s, "drop") = {It(s, "send").trace, It(s, "drop").trace}
    <3>1. Due(s, "drop") = {<<s, "send">>, <<s, "drop">>}
      BY DueIs, <1>5
    <3> QED
      BY Zenon, <1>2, <1>5, <3>1
  <2>3. LET q == <<It(s, "send")>> \o <<Made(x), It(s, "drop")>>
        IN  q \in Seq(Dumps) /\ Noted({It(s, "send").trace, It(s, "drop").trace}, q, Idle.rec, on)
    <3> DEFINE a == It(s, "send")
               b == It(s, "drop")
               m == Made(x)
    <3>1. a \in Dumps /\ ~a.own /\ b \in Dumps /\ ~b.own /\ a.trace # b.trace /\ m \in Dumps /\ m.own
      BY Zenon, <1>2, <1>3, <1>5, <2>1
    <3> HIDE DEF a, b, m
    <3>2. LET q == <<a>> \o <<m, b>>
          IN  q \in Seq(Dumps) /\ Noted({a.trace, b.trace}, q, Idle.rec, on)
      BY Zenon, <3>1, ThreeDumps
    <3> QED
      BY Zenon, <3>2 DEF a, b, m
  <2>4. Ok(<<It(s, "send")>> \o <<Made(x), It(s, "drop")>>, "drop")
    BY Zenon, <1>5, <2>2, <2>3
  <2> QED
    BY Zenon, <1>e, <2>4
<1>9. Good(Reply(s))
  BY Zenon, <1>8 DEF Reply
<1>10. Good(Translate(s, f))
  <2>1. <<s, "send">> # <<Opposite(s), "send">>
    BY <1>4
  <2>0. Due(s, "send") = {It(s, "send").trace, It(Opposite(s), "send").trace}
    BY <1>2, <1>4, <1>5, DueIs
  <2>2. Ok(<<It(s, "send")>> \o <<It(Opposite(s), "send")>>, "send")
    BY Zenon, <1>2, <1>4, <1>5, <2>0, <2>1, TwoDumps
  <2>3. Good(End(s, <<It(Opposite(s), "send")>>, "send"))
    BY Zenon, <1>e, <2>2
  <2> QED
    BY Zenon, <1>4, <1>8, <2>3 DEF Translate
<1> HIDE DEF Good
<1>11. Good(Handle(s, f))
  <2>1. Good(parsePacketAndCheckARP(s, f))
    BY <1>7, <1>9 DEF parsePacketAndCheckARP, Arp
  <2>2. Good(handleICMP(s, f)) /\ Good(handleDHCP(s, f))
    BY <1>6, <1>7, <1>9 DEF handleICMP, handleDHCP
  <2>3. Good(PublicLookup(s, f))
    BY <1>6, <1>7, <1>10 DEF PublicLookup
  <2>4. Good(PrivateLookup(s, f))
    BY <1>6, <1>7, <1>10 DEF PrivateLookup
  <2> QED
    BY <1>7, <2>1, <2>2, <2>3, <2>4 DEF Handle
<1> QED
  BY Zenon, <1>1, <1>11 DEF Good

\* Head and tail of what is left to dump.
LEMMA TodoTypes ==
  ASSUME NEW q \in Seq(Dumps), q # <<>>
  PROVE  Head(q) \in Dumps /\ Head(q).trace \in Trace /\ Tail(q) \in Seq(Dumps)
<1>1. Head(q) \in Dumps /\ Tail(q) \in Seq(Dumps)
  OBVIOUS
<1> QED
  BY <1>1 DEF Dumps

\* The ports that are left to close stay a rest of the list.
LEMMA PortsLeft ==
  ASSUME NEW ports \in Ports, ports # <<>>
  PROVE  Head(ports) \in Side /\ Tail(ports) \in Ports
<1>1. CASE ports = <<"private", "public">>
  <2>1. Head(ports) = "private" /\ Tail(ports) = <<"public">>
    BY <1>1
  <2> QED
    BY <2>1 DEF Ports, Side
<1>2. CASE ports = <<"public">>
  <2>1. Head(ports) = "public" /\ Tail(ports) = <<>>
    BY <1>2
  <2> QED
    BY <2>1 DEF Ports, Side
<1> QED
  BY <1>1, <1>2 DEF Ports

\* A worker with nothing to do.
LEMMA IdleType == Idle \in Hand
<1>1. [t \in Trace |-> 0] \in [Trace -> Nat] /\ <<>> \in Seq(Dumps)
  OBVIOUS
<1> QED
  BY <1>1 DEF Idle, Hand, Dir

\* All workers idle, one worker that moves on to place pc.
LEMMA AllIdle ==
  ASSUME hand' = [w \in Worker |-> Idle]
  PROVE  hand' \in [Worker -> Hand] /\ Busy'
<1>1. Idle.pc = "idle"
  BY DEF Idle
<1> QED
  BY <1>1, IdleType DEF Busy

\* What a worker has in hand keeps its type when its packets are others.
LEMMA LessToDo ==
  ASSUME NEW x \in Hand, NEW s \in Seq(Dumps)
  PROVE  [x EXCEPT !.todo = s] \in Hand
  BY SMTT(30) DEF Hand

\* A switch of a trace changes nothing else of what a worker has in hand.
LEMMA SwitchedOn ==
  ASSUME NEW x \in Hand, NEW D
  PROVE  LET y == [x EXCEPT !.on = @ \cap D]
         IN  y \in Hand /\ y.pc = x.pc /\ y.todo = x.todo
<1> DEFINE b == x.on \cap D
<1>1. b \in SUBSET Dir
  BY DEF Hand
<1> HIDE DEF b
<1>2. LET y == [x EXCEPT !.on = b] IN y \in Hand /\ y.pc = x.pc /\ y.todo = x.todo
  BY <1>1 DEF Hand
<1> QED
  BY <1>2 DEF b

\* A worker goes on to the next place inside dumpPacket.
LEMMA OneMoves ==
  ASSUME hand \in [Worker -> Hand], Busy, NEW w \in Worker, hand[w].todo # <<>>,
         NEW pc \in {"lock", "create", "write"}, hand' = [hand EXCEPT ![w].pc = pc]
  PROVE  hand' \in [Worker -> Hand] /\ Busy'
<1>1. [hand[w] EXCEPT !.pc = pc] \in Hand
  BY Zenon DEF Hand
<1>2. \A v \in Worker : hand'[v].todo = hand[v].todo /\ (v # w => hand'[v] = hand[v])
  BY DEF Hand
<1> QED
  BY <1>1, <1>2 DEF Busy

\* Types and Busy are kept.
LEMMA FieldsStep ==
  ASSUME Fields, Busy, [Next]_vars
  PROVE  Fields' /\ Busy'
<1> USE DEF Fields
<1>1. ASSUME NEW w \in Worker, NEW r \in Passes[SideOf[w]], Arrive(w, r)
      PROVE  Fields' /\ Busy'
  <2>1. r.dumps \in Seq(Dumps) /\ r.dir \in Dir \cup {"panic"}
    BY PassTypes, WorkerAssumption
  <2>2. [pc |-> "dump", todo |-> r.dumps, dir |-> r.dir, rec |-> Idle.rec,
         on |-> DumpEnabled \cap {"send", r.dir}] \in Hand
    <3>1. Idle.rec \in [Trace -> Nat] /\ DumpEnabled \cap {"send", r.dir} \in SUBSET Dir
      BY DEF Idle
    <3> QED
      BY <2>1, <3>1 DEF Hand
  <2> QED
    BY <1>1, <2>2 DEF Arrive, Busy, files, Stay, At
<1>2. ASSUME NEW w \in Worker, Check(w) PROVE Fields' /\ Busy'
  <2>1. Now(w) \in Trace /\ Tail(hand[w].todo) \in Seq(Dumps)
    BY <1>2, TodoTypes DEF Check, Now, Hand
  <2>2. hand' \in [Worker -> Hand] /\ Busy'
    <3>1. CASE hand' = [hand EXCEPT ![w].pc = "lock"]
      BY Zenon, <1>2, <3>1, OneMoves DEF Check
    <3>2. CASE hand' = [hand EXCEPT ![w].todo = Tail(@)]
      <4>1. [hand[w] EXCEPT !.todo = Tail(@)] \in Hand
        BY Zenon, <2>1, LessToDo
      <4>2. hand'[w].pc = "dump" /\ \A v \in Worker : v # w => hand'[v] = hand[v]
        BY <1>2, <3>2 DEF Check, At, Hand
      <4> QED
        BY <3>2, <4>1, <4>2 DEF Busy
    <3> QED
      BY <1>2, <3>1, <3>2 DEF Check
  <2> QED
    BY <1>2, <2>2 DEF Check, files, Stay
<1>3. ASSUME NEW w \in Worker, Lock(w) PROVE Fields' /\ Busy'
  <2>1. hand' \in [Worker -> Hand] /\ Busy'
    <3>1. PICK pc \in {"create", "write"} : hand' = [hand EXCEPT ![w].pc = pc]
      BY Zenon, <1>3 DEF Lock
    <3> QED
      BY Zenon, <1>3, <3>1, OneMoves DEF Lock, Busy, At
  <2>2. dumpsync' \in [Trace -> Worker \cup {None}]
    BY Zenon, <1>3 DEF Lock
  <2> QED
    BY <1>3, <2>1, <2>2 DEF Lock, Stay
<1>4. ASSUME NEW w \in Worker, NEW ok \in BOOLEAN, startTrace(w, ok) PROVE Fields' /\ Busy'
  <2>1. CASE ok
    <3>1. hand' \in [Worker -> Hand] /\ Busy'
      BY <1>4, <2>1, OneMoves DEF startTrace, Busy, At
    <3>2. fdump' \in [Trace -> {"nil", "open", "closed"}] /\ filled' \subseteq Trace
      BY <1>4, <2>1 DEF startTrace
    <3> QED
      BY <1>4, <2>1, <3>1, <3>2 DEF startTrace
  <2>2. CASE ~ok
    <3>1. hand' \in [Worker -> Hand] /\ Busy'
      BY <1>4, <2>2, AllIdle DEF startTrace, Terminate
    <3> QED
      BY <1>4, <2>2, <3>1 DEF startTrace, Terminate
  <2> QED
    BY <2>1, <2>2
<1>5. ASSUME NEW w \in Worker, NEW ok \in BOOLEAN, Write(w, ok) PROVE Fields' /\ Busy'
  <2>1. Now(w) \in Trace /\ Tail(hand[w].todo) \in Seq(Dumps)
    BY <1>5, TodoTypes DEF Write, Now, Hand, Busy, At
  <2>2. Recorded(w) \in [Trace -> Nat]
    BY <2>1 DEF Recorded, Hand
  <2>3. CASE ok /\ fdump[Now(w)] = "open"
    <3>1. hand' \in [Worker -> Hand] /\ Busy'
      <4>1. hand' = [hand EXCEPT ![w].pc = "dump", ![w].todo = Tail(@), ![w].rec = Recorded(w)]
        BY Zenon, <1>5, <2>3 DEF Write
      <4> DEFINE new == Recorded(w)
                 rest == Tail(hand[w].todo)
      <4>2. hand' = [hand EXCEPT ![w] = [[[hand[w] EXCEPT !.pc = "dump"] EXCEPT !.todo = rest] EXCEPT !.rec = new]]
        BY <4>1
      <4>3. new \in [Trace -> Nat] /\ rest \in Seq(Dumps)
        BY Zenon, <2>1, <2>2
      <4> HIDE DEF new, rest
      <4>4. [[[hand[w] EXCEPT !.pc = "dump"] EXCEPT !.todo = rest] EXCEPT !.rec = new] \in Hand
        <5>1. [hand[w] EXCEPT !.pc = "dump"] \in Hand
          <6>1. hand[w] \in Hand /\ "dump" \in {"idle", "dump", "lock", "create", "write"}
            OBVIOUS
          <6> QED
            BY Zenon, <6>1 DEF Hand
        <5>2. [[hand[w] EXCEPT !.pc = "dump"] EXCEPT !.todo = rest] \in Hand
          BY Zenon, <4>3, <5>1, LessToDo
        <5>3. \A x \in Hand : [x EXCEPT !.rec = new] \in Hand
          BY Zenon, <4>3 DEF Hand
        <5> QED
          BY Zenon, <5>2, <5>3
      <4>5. hand'[w].pc = "dump" /\ \A v \in Worker : v # w => hand'[v] = hand[v]
        BY <4>2 DEF Hand
      <4> QED
        BY <4>2, <4>4, <4>5 DEF Busy
    <3> QED
      BY <1>5, <2>1, <2>3, <3>1 DEF Write
  <2>4. CASE ~(ok /\ fdump[Now(w)] = "open")
    <3>1. hand' \in [Worker -> Hand] /\ Busy'
      BY <1>5, <2>4, AllIdle DEF Write, Terminate
    <3> QED
      BY <1>5, <2>4, <3>1 DEF Write, Terminate
  <2> QED
    BY <2>3, <2>4
<1>6. ASSUME NEW w \in Worker, Return(w) PROVE Fields' /\ Busy'
  <2>1. CASE hand[w].dir = "panic"
    <3>1. hand' \in [Worker -> Hand] /\ Busy'
      BY <1>6, <2>1, AllIdle DEF Return, Terminate
    <3> QED
      BY <1>6, <2>1, <3>1 DEF Return, Terminate, files
  <2>2. CASE hand[w].dir # "panic"
    <3>1. hand' = [hand EXCEPT ![w] = Idle] /\ Idle.pc = "idle"
      BY <1>6, <2>2 DEF Return, Idle
    <3>2. hand' \in [Worker -> Hand] /\ Busy'
      BY <3>1, IdleType DEF Busy
    <3> QED
      BY <1>6, <2>2, <3>2 DEF Return, files
  <2> QED
    BY <2>1, <2>2
<1>7. ASSUME NEW d \in Switched, NEW enable \in BOOLEAN, ControlDump(d, enable)
      PROVE  Fields' /\ Busy'
  <2>1. DumpEnabled' \subseteq Dir
    BY <1>7, WorkerAssumption DEF ControlDump
  <2>2. hand' \in [Worker -> Hand] /\ Busy'
    <3> DEFINE New(w) == [hand[w] EXCEPT !.on = @ \cap DumpEnabled']
    <3>1. \A w \in Worker : New(w) \in Hand /\ New(w).pc = hand[w].pc /\ New(w).todo = hand[w].todo
      BY SwitchedOn
    <3>2. hand' = [w \in Worker |-> New(w)]
      BY <1>7 DEF ControlDump
    <3> HIDE DEF New
    <3> QED
      BY <3>1, <3>2 DEF Busy
  <2> QED
    BY <1>7, <2>1, <2>2 DEF ControlDump, files, Stay
<1>8. CASE Signal
  BY <1>8 DEF Signal, files, Busy
<1>9. CASE CopyFiles
  <2>1. Tail(closing.ports) \in Ports
    BY <1>9, PortsLeft DEF CopyFiles
  <2> QED
    BY Zenon, <1>9, <2>1 DEF CopyFiles, files, Busy
<1>10. ASSUME NEW t \in Trace, CloseFile(t) PROVE Fields' /\ Busy'
  BY <1>10 DEF CloseFile, Busy
<1>11. CASE Exit
  BY <1>11, AllIdle DEF Exit, Terminate, files
<1>12. CASE UNCHANGED vars
  BY <1>12 DEF vars, Busy
<1> HIDE DEF Fields
<1> QED
  BY <1>1, <1>2, <1>3, <1>4, <1>5, <1>6, <1>7, <1>8, <1>9, <1>10, <1>11, <1>12
     DEF Next, Step, Close

-----------------------------------------------------------------------------

\* Locks is kept when nobody enters or leaves a section under a mutex, and by
\* the end of the program.
LEMMA LocksSame ==
  ASSUME Fields, Locks, Running, dumpsync' = dumpsync,
         \A v \in Worker : Inside(v)' = Inside(v) /\ (Inside(v) => Now(v)' = Now(v))
  PROVE  Locks'
  BY DEF Fields, Locks

\* Nothing is said of the mutexes after the end of the process.
LEMMA LocksEnd ==
  ASSUME NEW how \in {"exit", "fatal", "disk", "panic"}, Terminate(how)
  PROVE  Locks'
  BY DEF Terminate, Locks, Running

\* A step of one worker that stays outside every section, before and after.
LEMMA LocksOutside ==
  ASSUME Fields, Locks, NEW w \in Worker, NEW h, hand' = [hand EXCEPT ![w] = h],
         Running, dumpsync' = dumpsync, ~Inside(w), h.pc \notin {"create", "write"}
  PROVE  Locks'
<1>1. \A v \in Worker : v # w => hand'[v] = hand[v]
  BY DEF Fields
<1>2. hand'[w] = h
  BY DEF Fields
<1>3. \A v \in Worker : Inside(v)' = Inside(v) /\ (Inside(v) => Now(v)' = Now(v))
  BY <1>1, <1>2 DEF Inside, Now
<1> QED
  BY <1>3, LocksSame

\* Locks is kept.
LEMMA LocksStep ==
  ASSUME Fields, Busy, Locks, [Next]_vars
  PROVE  Locks'
<1>1. ASSUME NEW w \in Worker, NEW r \in Passes[SideOf[w]], Arrive(w, r) PROVE Locks'
  <2>1. PICK h : hand' = [hand EXCEPT ![w] = h] /\ h.pc = "dump"
    <3> DEFINE h == [pc |-> "dump", todo |-> r.dumps, dir |-> r.dir, rec |-> Idle.rec,
                     on |-> DumpEnabled \cap {"send", r.dir}]
    <3>1. hand' = [hand EXCEPT ![w] = h] /\ h.pc = "dump"
      BY <1>1 DEF Arrive
    <3> HIDE DEF h
    <3> QED
      BY Zenon, <3>1
  <2> QED
    BY Zenon, <1>1, <2>1, LocksOutside DEF Arrive, At, Inside, files
<1>2. ASSUME NEW w \in Worker, Check(w) PROVE Locks'
  <2>1. PICK h : hand' = [hand EXCEPT ![w] = h] /\ h.pc \in {"lock", "dump"}
    <3>1. CASE Now(w)[2] \in DumpEnabled
      <4>1. [hand[w] EXCEPT !.pc = "lock"].pc = "lock"
        BY DEF Fields, Hand
      <4> QED
        BY Zenon, <1>2, <3>1, <4>1 DEF Check
    <3>2. CASE Now(w)[2] \notin DumpEnabled
      <4>1. [hand[w] EXCEPT !.todo = Tail(@)].pc = "dump"
        BY <1>2 DEF Fields, Hand, Check, At
      <4> QED
        BY Zenon, <1>2, <3>2, <4>1 DEF Check
    <3> QED
      BY <3>1, <3>2
  <2> QED
    BY Zenon, <1>2, <2>1, LocksOutside DEF Check, At, Inside, files
<1>3. ASSUME NEW w \in Worker, Lock(w) PROVE Locks'
  <2>1. Now(w) \in Trace /\ dumpsync[Now(w)] = None
    BY <1>3, TodoTypes DEF Lock, At, Busy, Fields, Hand, Now
  <2>2. \A v \in Worker : Now(v)' = Now(v) /\ (v # w => Inside(v)' = Inside(v))
    BY <1>3 DEF Lock, Fields, Hand, Now, Inside
  <2>3. ~Inside(w) /\ Inside(w)'
    BY <1>3 DEF Lock, At, Fields, Hand, Inside
  <2>4. \A t \in Trace : dumpsync'[t] = IF t = Now(w) THEN w ELSE dumpsync[t]
    BY <1>3 DEF Lock, Fields
  <2>5. Locks /\ Running /\ dumpsync \in [Trace -> Worker \cup {None}]
    BY <1>3 DEF Lock, At, Fields
  <2>6. \A v \in Worker : Inside(v) => Now(v) \in Trace
    BY TodoTypes DEF Inside, Busy, Fields, Hand, Now
  <2> QED
    BY <2>1, <2>2, <2>3, <2>4, <2>5, <2>6, WorkerAssumption DEF Locks
<1>4. ASSUME NEW w \in Worker, NEW ok \in BOOLEAN, startTrace(w, ok) PROVE Locks'
  <2>1. CASE ok
    <3>1. \A v \in Worker : Inside(v)' = Inside(v) /\ Now(v)' = Now(v)
      <4>1. \A v \in Worker : v # w => hand'[v] = hand[v]
        BY <1>4, <2>1 DEF startTrace, Fields
      <4>2. hand[w].pc = "create" /\ hand'[w].pc = "write" /\ hand'[w].todo = hand[w].todo
        BY <1>4, <2>1 DEF startTrace, At, Fields, Hand
      <4> QED
        BY <4>1, <4>2 DEF Inside, Now
    <3> QED
      BY <1>4, <3>1, LocksSame DEF startTrace, At
  <2> QED
    BY <1>4, <2>1, LocksEnd DEF startTrace
<1>5. ASSUME NEW w \in Worker, NEW ok \in BOOLEAN, Write(w, ok) PROVE Locks'
  <2>1. CASE ok /\ fdump[Now(w)] = "open"
    <3>1. \A v \in Worker : v # w => Now(v)' = Now(v) /\ Inside(v)' = Inside(v)
      BY <1>5, <2>1 DEF Write, Fields, Hand, Now, Inside
    <3>2. Inside(w) /\ ~Inside(w)'
      BY <1>5, <2>1 DEF Write, At, Fields, Hand, Inside
    <3>3. Now(w) \in Trace
      BY <3>2, TodoTypes DEF Inside, Busy, Fields, Hand, Now
    <3>4. \A t \in Trace : dumpsync'[t] = IF t = Now(w) THEN None ELSE dumpsync[t]
      BY <1>5, <2>1 DEF Write, Fields
    <3>5. Locks /\ Running /\ dumpsync \in [Trace -> Worker \cup {None}]
      BY <1>5 DEF Write, At, Fields
    <3>6. \A v \in Worker : Inside(v) => Now(v) \in Trace
      BY TodoTypes DEF Inside, Busy, Fields, Hand, Now
    <3> QED
      BY <3>1, <3>2, <3>3, <3>4, <3>5, <3>6, WorkerAssumption DEF Locks
  <2>2. CASE ~(ok /\ fdump[Now(w)] = "open")
    <3>1. Terminate("fatal") \/ Terminate("disk")
      BY <1>5, <2>2 DEF Write
    <3> QED
      BY <3>1, LocksEnd
  <2> QED
    BY <2>1, <2>2
<1>6. ASSUME NEW w \in Worker, Return(w) PROVE Locks'
  <2>1. Idle.pc = "idle"
    BY DEF Idle
  <2> QED
    BY Zenon, <1>6, <2>1, LocksOutside, LocksEnd DEF Return, At, Inside, files
<1>7. ASSUME NEW d \in Switched, NEW enable \in BOOLEAN, ControlDump(d, enable) PROVE Locks'
  <2>0. \A v \in Worker : hand'[v].pc = hand[v].pc /\ hand'[v].todo = hand[v].todo
    BY <1>7 DEF ControlDump, Fields, Hand
  <2>1. \A v \in Worker : Inside(v)' = Inside(v) /\ Now(v)' = Now(v)
    BY <2>0 DEF Inside, Now
  <2> QED
    BY <1>7, <2>1, LocksSame DEF ControlDump, files
<1>8. CASE Signal
  BY <1>8 DEF Signal, files, Locks, Running, Inside, Now
<1>9. CASE CopyFiles
  BY <1>9 DEF CopyFiles, files, Locks, Running, Inside, Now
<1>10. ASSUME NEW t \in Trace, CloseFile(t) PROVE Locks'
  BY <1>10 DEF CloseFile, Locks, Running, Inside, Now
<1>11. CASE Exit
  BY <1>11, LocksEnd DEF Exit
<1>12. CASE UNCHANGED vars
  BY <1>12 DEF vars, Locks, Running, Inside, Now
<1> QED
  BY <1>1, <1>2, <1>3, <1>4, <1>5, <1>6, <1>7, <1>8, <1>9, <1>10, <1>11, <1>12
     DEF Next, Step, Close

-----------------------------------------------------------------------------

\* Left is kept by steps that leave files and main alone, and Opened when
\* nobody begins to create or write.
LEMMA LeftSame ==
  ASSUME Left, fdump' = fdump, closing' = closing, program' = "run" => program = "run"
  PROVE  Left'
  BY DEF Left

\* Files stay as they are and nobody starts to create or write one.
LEMMA OpenedSame ==
  ASSUME Opened, fdump' = fdump, filled' \subseteq filled,
         \A v \in Worker : hand'[v].pc \in {"create", "write"} =>
           hand[v].pc = hand'[v].pc /\ Now(v)' = Now(v)
  PROVE  Opened'
  BY DEF Opened

\* The states of the files are kept.
LEMMA OpenedStep ==
  ASSUME Fields, Busy, Locks, Opened, Left, [Next]_vars
  PROVE  Opened'
<1>1. ASSUME NEW w \in Worker, NEW r \in Passes[SideOf[w]], Arrive(w, r) PROVE Opened'
  <2>1. hand'[w].pc = "dump" /\ \A v \in Worker \ {w} : hand'[v] = hand[v]
    BY <1>1 DEF Arrive, Fields
  <2> QED
    BY <1>1, <2>1, OpenedSame DEF Arrive, files, Now
<1>2. ASSUME NEW w \in Worker, Check(w) PROVE Opened'
  <2>1. hand'[w].pc \in {"lock", "dump"} /\ \A v \in Worker \ {w} : hand'[v] = hand[v]
    BY <1>2 DEF Check, At, Fields, Hand
  <2> QED
    BY <1>2, <2>1, OpenedSame DEF Check, files, Now
<1>3. ASSUME NEW w \in Worker, Lock(w) PROVE Opened'
  <2>1. \A v \in Worker \ {w} : hand'[v] = hand[v]
    BY <1>3 DEF Lock, Fields
  <2>2. /\ hand'[w].pc = IF fdump[Now(w)] = "nil" THEN "create" ELSE "write"
        /\ hand'[w].todo = hand[w].todo
    BY <1>3 DEF Lock, Fields, Hand
  <2>3. fdump' = fdump /\ filled' = filled
    BY <1>3 DEF Lock
  <2> QED
    BY <2>1, <2>2, <2>3 DEF Opened, Now
<1>4. ASSUME NEW w \in Worker, NEW ok \in BOOLEAN, startTrace(w, ok) PROVE Opened'
  <2>1. CASE ok
    <3>1. \A v \in Worker \ {w} : hand'[v] = hand[v]
      BY <1>4, <2>1 DEF startTrace, Fields
    <3>2. hand[w].pc = "create" /\ hand'[w].pc = "write" /\ hand'[w].todo = hand[w].todo
      BY <1>4, <2>1 DEF startTrace, At, Fields, Hand
    <3>3. Now(w) \in Trace
      BY <3>2, TodoTypes DEF Busy, Fields, Hand, Now
    <3>4. \A t \in Trace : fdump'[t] = IF t = Now(w) THEN "open" ELSE fdump[t]
      BY <1>4, <2>1 DEF startTrace, Fields
    <3>5. \A v \in Worker \ {w} : Inside(v) => Now(v) \in Trace /\ Now(v) # Now(w)
      BY <1>4, <3>2, TodoTypes DEF startTrace, At, Locks, Inside, Busy, Fields, Hand, Now
    <3>6. filled' \subseteq filled /\ filled \subseteq Trace
      BY <1>4, <2>1 DEF startTrace, Fields
    <3> QED
      BY <3>1, <3>2, <3>3, <3>4, <3>5, <3>6 DEF Opened, Inside, Now
  <2>2. CASE ~ok
    <3>1. \A v \in Worker : hand'[v].pc = "idle"
      BY <1>4, <2>2 DEF startTrace, Terminate, Idle
    <3> QED
      BY <1>4, <2>2, <3>1, OpenedSame DEF startTrace
  <2> QED
    BY <2>1, <2>2
<1>5. ASSUME NEW w \in Worker, NEW ok \in BOOLEAN, Write(w, ok) PROVE Opened'
  <2>1. CASE ok /\ fdump[Now(w)] = "open"
    <3>1. hand'[w].pc = "dump" /\ \A v \in Worker \ {w} : hand'[v] = hand[v]
      BY <1>5, <2>1 DEF Write, Fields, Hand
    <3>2. fdump' = fdump /\ filled' = filled \cup {Now(w)} /\ fdump[Now(w)] # "nil"
      BY <1>5, <2>1 DEF Write
    <3> QED
      BY <3>1, <3>2 DEF Opened, Now
  <2>2. CASE ~(ok /\ fdump[Now(w)] = "open")
    <3>1. \A v \in Worker : hand'[v].pc = "idle"
      BY <1>5, <2>2 DEF Write, Terminate, Idle
    <3> QED
      BY <1>5, <2>2, <3>1, OpenedSame DEF Write
  <2> QED
    BY <2>1, <2>2
<1>6. ASSUME NEW w \in Worker, Return(w) PROVE Opened'
  <2>1. hand'[w].pc = "idle" /\ \A v \in Worker \ {w} : hand'[v] = hand[v] \/ hand'[v].pc = "idle"
    BY <1>6 DEF Return, Terminate, Fields, Idle
  <2> QED
    BY <1>6, <2>1, OpenedSame DEF Return, files, Now
<1>7. ASSUME NEW d \in Switched, NEW enable \in BOOLEAN, ControlDump(d, enable) PROVE Opened'
  <2>1. \A v \in Worker : hand'[v].pc = hand[v].pc /\ Now(v)' = Now(v)
    BY <1>7 DEF ControlDump, Fields, Hand, Now
  <2> QED
    BY <1>7, <2>1, OpenedSame DEF ControlDump, files
<1>8. CASE Signal
  BY <1>8, OpenedSame DEF Signal, files, Now
<1>9. CASE CopyFiles
  BY <1>9, OpenedSame DEF CopyFiles, files, Now
<1>10. ASSUME NEW t \in Trace, CloseFile(t) PROVE Opened'
  <2>1. fdump[t] # "nil" /\ \A u \in Trace : fdump'[u] = IF u = t THEN "closed" ELSE fdump[u]
    BY <1>10 DEF CloseFile, Left, Fields
  <2>2. \A v \in Worker : Inside(v) => Now(v) \in Trace
    BY TodoTypes DEF Inside, Busy, Fields, Hand, Now
  <2>3. hand' = hand /\ filled' = filled /\ filled \subseteq Trace
    BY <1>10 DEF CloseFile, Fields
  <2> QED
    BY <2>1, <2>2, <2>3 DEF Opened, Inside, Now
<1>11. CASE Exit
  <2>1. \A v \in Worker : hand'[v].pc = "idle"
    BY <1>11 DEF Exit, Terminate, Idle
  <2> QED
    BY <1>11, <2>1, OpenedSame DEF Exit, files
<1>12. CASE UNCHANGED vars
  BY <1>12, OpenedSame DEF vars, Now
<1> QED
  BY <1>1, <1>2, <1>3, <1>4, <1>5, <1>6, <1>7, <1>8, <1>9, <1>10, <1>11, <1>12
     DEF Next, Step, Close

\* What main has left to close is kept.
LEMMA LeftStep ==
  ASSUME Fields, Busy, Opened, Left, [Next]_vars
  PROVE  Left'
<1>1. ASSUME NEW w \in Worker, NEW r \in Passes[SideOf[w]], Arrive(w, r) PROVE Left'
  BY <1>1, LeftSame DEF Arrive, files, Stay
<1>2. ASSUME NEW w \in Worker, Check(w) \/ Lock(w) \/ Return(w) PROVE Left'
  BY <1>2, LeftSame DEF Check, Lock, Return, Terminate, files, Stay
<1>3. ASSUME NEW w \in Worker, NEW ok \in BOOLEAN, startTrace(w, ok) PROVE Left'
  <2>1. CASE ok
    <3>1. Now(w) \in Trace /\ fdump[Now(w)] = "nil"
      BY <1>3, TodoTypes DEF startTrace, At, Busy, Fields, Hand, Now, Opened
    <3>2. \A t \in Trace : fdump'[t] = IF t = Now(w) THEN "open" ELSE fdump[t]
      BY <1>3, <2>1 DEF startTrace, Fields
    <3>3. closing' = closing /\ program' = program
      BY <1>3, <2>1 DEF startTrace
    <3>4. closing.copy \subseteq Trace /\ closing.old \subseteq Trace
      BY DEF Fields
    <3> QED
      BY <3>1, <3>2, <3>3, <3>4 DEF Left
  <2> QED
    BY <1>3, <2>1, LeftSame DEF startTrace, Terminate
<1>4. ASSUME NEW w \in Worker, NEW ok \in BOOLEAN, Write(w, ok) PROVE Left'
  BY <1>4, LeftSame DEF Write, Terminate
<1>5. ASSUME NEW d \in Switched, NEW enable \in BOOLEAN, ControlDump(d, enable) PROVE Left'
  BY <1>5, LeftSame DEF ControlDump, files, Stay
<1>6. CASE Signal
  <2>1. /\ closing'.ports = closing.ports /\ closing'.copy = closing.copy
        /\ closing'.old = {t \in Trace : fdump[t] = "open"}
    BY <1>6 DEF Signal, Fields
  <2> QED
    BY <1>6, <2>1 DEF Signal, files, Left
<1>7. CASE CopyFiles
  <2>1. /\ closing'.ports = Tail(closing.ports) /\ closing'.old = closing.old
        /\ closing'.copy = {t \in Trace : t[1] = Head(closing.ports) /\ fdump[t] # "nil"}
        /\ closing.copy = {} /\ fdump' = fdump /\ program' = "signal"
    BY <1>7 DEF CopyFiles, Fields, files
  <2>2. \A t \in closing.old : t \in Trace /\ t[1] \in {"private", "public"}
    BY DEF Fields, Trace, Side
  <2>3. CASE closing.ports = <<"private", "public">>
    <3>1. Head(closing.ports) = "private" /\ Tail(closing.ports) = <<"public">>
      BY SMTT(30), <2>3
    <3> QED
      BY <2>1, <2>2, <3>1 DEF Left
  <2>4. CASE closing.ports = <<"public">>
    <3>1. Head(closing.ports) = "public" /\ closing.ports # <<"private", "public">>
      <4>1. Len(<<"public">>) # Len(<<"private", "public">>)
        OBVIOUS
      <4> QED
        BY <2>4, <4>1
    <3> QED
      BY <2>1, <2>2, <2>4, <3>1 DEF Left
  <2> QED
    BY <1>7, <2>3, <2>4 DEF CopyFiles, Fields, Ports
<1>8. ASSUME NEW t \in Trace, CloseFile(t) PROVE Left'
  <2>1. /\ closing'.ports = closing.ports /\ closing'.old = closing.old
        /\ closing'.copy = closing.copy \ {t} /\ program = "signal" /\ program' = "signal"
    BY <1>8 DEF CloseFile, Fields
  <2>2. \A u \in Trace : fdump'[u] = IF u = t THEN "closed" ELSE fdump[u]
    BY <1>8 DEF CloseFile, Fields
  <2>3. closing.copy \subseteq Trace /\ closing.old \subseteq Trace
    BY DEF Fields
  <2> QED
    BY <2>1, <2>2, <2>3 DEF Left
<1>9. CASE Exit
  BY <1>9, LeftSame DEF Exit, Terminate, files
<1>10. CASE UNCHANGED vars
  BY <1>10, LeftSame DEF vars
<1> QED
  BY <1>1, <1>2, <1>3, <1>4, <1>5, <1>6, <1>7, <1>8, <1>9, <1>10 DEF Next, Step, Close

-----------------------------------------------------------------------------

\* main returns at the end of its loops only.
LEMMA DoneStep ==
  ASSUME Fields, Done, [Next]_vars
  PROVE  Done'
<1>1. ASSUME closing' = closing, program' = "exit" => program = "exit" PROVE Done'
  BY <1>1 DEF Done
<1>2. ASSUME NEW w \in Worker, NEW r \in Passes[SideOf[w]], Arrive(w, r) PROVE Done'
  BY <1>1, <1>2 DEF Arrive, Stay
<1>3. ASSUME NEW w \in Worker, Step(w) PROVE Done'
  BY <1>1, <1>3 DEF Step, Check, Lock, Return, startTrace, Write, Terminate, Stay
<1>4. ASSUME NEW d \in Switched, NEW enable \in BOOLEAN, ControlDump(d, enable) PROVE Done'
  BY <1>1, <1>4 DEF ControlDump, Stay
<1>5. CASE Signal \/ CopyFiles \/ \E t \in Trace : CloseFile(t)
  BY <1>5 DEF Signal, CopyFiles, CloseFile, Done
<1>6. CASE Exit
  BY <1>6 DEF Exit, Done
<1>7. CASE UNCHANGED vars
  BY <1>1, <1>7 DEF vars
<1> QED
  BY <1>2, <1>3, <1>4, <1>5, <1>6, <1>7 DEF Next, Close

-----------------------------------------------------------------------------
(* What a handler has dumped and has left to dump. *)

NotedBy(w) ==
  /\ hand[w].on \subseteq DumpEnabled
  /\ Noted(Due(SideOf[w], hand[w].dir), hand[w].todo, hand[w].rec, hand[w].on)

NInv == \A w \in Worker : NotedBy(w)

\* What is left to dump after the first.
LEMMA RestOf ==
  ASSUME NEW q \in Seq(Dumps), q # <<>>
  PROVE  /\ 1 \in DOMAIN q /\ Head(q) = q[1]
         /\ \A i \in DOMAIN Tail(q) : i + 1 \in DOMAIN q /\ i + 1 # 1 /\ Tail(q)[i] = q[i + 1]
         /\ \A i \in DOMAIN Tail(q), j \in DOMAIN Tail(q) : i + 1 = j + 1 => i = j
         /\ \A i \in DOMAIN q : i = 1 \/ \E j \in DOMAIN Tail(q) : i = j + 1
<1> DEFINE u == Tail(q)
<1>1. /\ u \in Seq(Dumps) /\ Len(u) = Len(q) - 1
      /\ \A i \in 1 .. Len(u) : u[i] = q[i + 1]
  BY HeadTailProperties
<1> HIDE DEF u
<1>2. Len(q) \in Nat \ {0} /\ DOMAIN q = 1 .. Len(q) /\ DOMAIN u = 1 .. Len(u) /\ Head(q) = q[1]
  BY <1>1
<1>3. \A i \in DOMAIN u : i + 1 \in DOMAIN q /\ i + 1 # 1 /\ u[i] = q[i + 1]
  BY <1>1, <1>2
<1>4. \A i \in DOMAIN q : i = 1 \/ (i - 1 \in DOMAIN u /\ i = (i - 1) + 1)
  BY <1>1, <1>2
<1>5. 1 \in DOMAIN q /\ \A i, j \in DOMAIN u : i + 1 = j + 1 => i = j
  BY <1>1, <1>2
<1> QED
  BY <1>2, <1>3, <1>4, <1>5 DEF u

\* A dump is passed over: its trace is off, or the packet is not the one in hand.
LEMMA DumpSkipped ==
  ASSUME NEW due, NEW q \in Seq(Dumps), q # <<>>, NEW rec, NEW on,
         Noted(due, q, rec, on), Head(q).own \/ Head(q).trace[2] \notin on
  PROVE  Noted(due, Tail(q), rec, on)
<1> DEFINE u == Tail(q)
           a == Head(q)
<1>1. /\ 1 \in DOMAIN q /\ a = q[1]
      /\ \A i \in DOMAIN u : i + 1 \in DOMAIN q /\ i + 1 # 1 /\ u[i] = q[i + 1]
      /\ \A i, j \in DOMAIN u : i + 1 = j + 1 => i = j
      /\ \A i \in DOMAIN q : i = 1 \/ \E j \in DOMAIN u : i = j + 1
  BY Zenon, RestOf
<1>2. a.own \/ a.trace[2] \notin on
  OBVIOUS
<1> HIDE DEF u, a
<1>3. Noted(due, u, rec, on)
  BY <1>1, <1>2 DEF Noted
<1> QED
  BY <1>3 DEF u

\* A dump of the packet is made: its trace gets the packet.
LEMMA DumpMade ==
  ASSUME NEW due, NEW q \in Seq(Dumps), q # <<>>, NEW rec \in [Trace -> Nat], NEW on,
         Noted(due, q, rec, on), ~Head(q).own,
         NEW new, new = [rec EXCEPT ![Head(q).trace] = @ + 1]
  PROVE  Noted(due, Tail(q), new, on)
<1> DEFINE u == Tail(q)
           a == Head(q)
<1>1. /\ 1 \in DOMAIN q /\ a = q[1]
      /\ \A i \in DOMAIN u : i + 1 \in DOMAIN q /\ i + 1 # 1 /\ u[i] = q[i + 1]
      /\ \A i, j \in DOMAIN u : i + 1 = j + 1 => i = j
      /\ \A i \in DOMAIN q : i = 1 \/ \E j \in DOMAIN u : i = j + 1
  BY Zenon, RestOf
<1>2. ~a.own /\ a.trace \in Trace /\ u \in Seq(Dumps) /\ new = [rec EXCEPT ![a.trace] = @ + 1]
  BY Zenon, TodoTypes
<1> HIDE DEF u, a
<1>3. a.trace \in due /\ rec[a.trace] = 0
  BY <1>1, <1>2 DEF Noted
<1>4. new[a.trace] = 1 /\ \A t \in Trace : t # a.trace => new[t] = rec[t]
  BY <1>2, <1>3
<1>5. \A i \in DOMAIN u : u[i].trace \in Trace
  <2>1. \A i \in DOMAIN u : u[i] \in Dumps
    BY <1>2
  <2>2. \A x \in Dumps : x.trace \in Trace
    BY DEF Dumps
  <2> QED
    BY Zenon, <2>1, <2>2
<1>6. /\ \A i, j \in DOMAIN u : ~u[i].own /\ ~u[j].own /\ u[i].trace = u[j].trace => i = j
      /\ \A i \in DOMAIN u : ~u[i].own =>
           u[i].trace # a.trace /\ u[i].trace \in due /\ rec[u[i].trace] = 0
  BY <1>1, <1>2 DEF Noted
<1>7. \A t \in Trace : t # a.trace /\ t \in due /\ t[2] \in on =>
        rec[t] = 1 \/ \E i \in DOMAIN u : ~u[i].own /\ u[i].trace = t
  <2> SUFFICES ASSUME NEW t \in Trace, t # a.trace, t \in due, t[2] \in on, rec[t] # 1
               PROVE  \E i \in DOMAIN u : ~u[i].own /\ u[i].trace = t
    OBVIOUS
  <2>1. PICK k \in DOMAIN q : ~q[k].own /\ q[k].trace = t
    BY Zenon DEF Noted
  <2>2. PICK j \in DOMAIN u : k = j + 1
    BY Zenon, <1>1, <2>1
  <2> QED
    BY Zenon, <1>1, <2>1, <2>2
<1>8. \A t \in Trace : rec[t] = 0 \/ (t \in due /\ rec[t] = 1)
  BY DEF Noted
<1>9. Noted(due, u, new, on)
  BY Zenon, <1>3, <1>4, <1>5, <1>6, <1>7, <1>8 DEF Noted
<1> QED
  BY <1>9 DEF u

\* NInv is kept by steps that leave what the workers dump alone.
LEMMA NotedSame ==
  ASSUME NInv, DumpEnabled' = DumpEnabled, NEW w \in Worker,
         hand'[w].todo = hand[w].todo, hand'[w].rec = hand[w].rec,
         hand'[w].dir = hand[w].dir, hand'[w].on = hand[w].on
  PROVE  NotedBy(w)'
  BY DEF NInv, NotedBy

\* A worker without a packet has dumped nothing and has nothing to dump.
LEMMA NotedIdle ==
  ASSUME NEW w \in Worker, hand'[w] = Idle
  PROVE  NotedBy(w)'
<1>1. Idle.todo = <<>> /\ Idle.on = {} /\ \A t \in Trace : Idle.rec[t] = 0
  BY DEF Idle
<1>2. DOMAIN <<>> = {}
  OBVIOUS
<1> QED
  BY <1>1, <1>2 DEF NotedBy, Noted

\* What the handlers have dumped is kept: every dump made is the next one, and
\* the last one is left out only if its trace is off.
LEMMA NotedStep ==
  ASSUME Fields, Busy, NInv, [Next]_vars
  PROVE  NInv'
<1>0. \A w \in Worker : /\ SideOf[w] \in Side /\ hand[w].todo \in Seq(Dumps)
                        /\ hand[w].rec \in [Trace -> Nat]
  BY WorkerAssumption DEF Fields, Hand
<1>1. ASSUME NEW w \in Worker, NEW r \in Passes[SideOf[w]], Arrive(w, r) PROVE NInv'
  <2>1. DumpEnabled' = DumpEnabled /\ \A v \in Worker \ {w} : hand'[v] = hand[v]
    BY <1>1 DEF Arrive, Fields
  <2>2. /\ hand'[w].todo = r.dumps /\ hand'[w].dir = r.dir /\ hand'[w].rec = Idle.rec
        /\ hand'[w].on = DumpEnabled \cap {"send", r.dir}
    BY <1>1 DEF Arrive, Fields
  <2>3. Noted(Due(SideOf[w], r.dir), r.dumps, Idle.rec, DumpEnabled \cap {"send", r.dir})
    BY Zenon, <1>0, PassTypes
  <2>4. NotedBy(w)'
    BY Zenon, <2>1, <2>2, <2>3 DEF NotedBy
  <2> QED
    BY <2>1, <2>4, NotedSame DEF NInv
<1>2. ASSUME NEW w \in Worker, Check(w) PROVE NInv'
  <2>1. DumpEnabled' = DumpEnabled /\ \A v \in Worker \ {w} : hand'[v] = hand[v]
    BY <1>2 DEF Check, Fields
  <2>2. CASE Now(w)[2] \in DumpEnabled
    <3>1. /\ hand'[w].todo = hand[w].todo /\ hand'[w].rec = hand[w].rec
          /\ hand'[w].dir = hand[w].dir /\ hand'[w].on = hand[w].on
      BY <1>2, <2>2 DEF Check, Fields, Hand
    <3> QED
      BY <2>1, <3>1, NotedSame DEF NInv
  <2>3. CASE Now(w)[2] \notin DumpEnabled
    <3>1. /\ hand'[w].todo = Tail(hand[w].todo) /\ hand'[w].rec = hand[w].rec
          /\ hand'[w].dir = hand[w].dir /\ hand'[w].on = hand[w].on
      BY <1>2, <2>3 DEF Check, Fields, Hand
    <3>2. Now(w)[2] \notin hand[w].on
      BY Zenon, <2>3 DEF NInv, NotedBy
    <3>3. Noted(Due(SideOf[w], hand[w].dir), Tail(hand[w].todo), hand[w].rec, hand[w].on)
      BY Zenon, <1>0, <1>2, <3>2, DumpSkipped DEF Check, Now, NInv, NotedBy
    <3>4. NotedBy(w)'
      BY <2>1, <3>1, <3>3 DEF NInv, NotedBy
    <3> QED
      BY <2>1, <3>4, NotedSame DEF NInv
  <2> QED
    BY <2>2, <2>3
<1>3. ASSUME NEW w \in Worker, NEW pc, hand' = [hand EXCEPT ![w].pc = pc], DumpEnabled' = DumpEnabled
      PROVE  NInv'
  <2>1. \A v \in Worker : /\ hand'[v].todo = hand[v].todo /\ hand'[v].rec = hand[v].rec
                          /\ hand'[v].dir = hand[v].dir /\ hand'[v].on = hand[v].on
    BY <1>3 DEF Fields, Hand
  <2> QED
    BY <1>3, <2>1, NotedSame DEF NInv
<1>4. ASSUME NEW w \in Worker, NEW ok \in BOOLEAN, Write(w, ok), ok /\ fdump[Now(w)] = "open" PROVE NInv'
  <2>1. DumpEnabled' = DumpEnabled /\ \A v \in Worker \ {w} : hand'[v] = hand[v]
    BY <1>4 DEF Write, Fields
  <2>2. /\ hand'[w].todo = Tail(hand[w].todo) /\ hand'[w].rec = Recorded(w)
        /\ hand'[w].dir = hand[w].dir /\ hand'[w].on = hand[w].on
    <3>1. hand' = [hand EXCEPT ![w].pc = "dump", ![w].todo = Tail(@), ![w].rec = Recorded(w)]
      BY Zenon, <1>4 DEF Write
    <3> QED
      BY <3>1 DEF Fields, Hand
  <2>3. hand[w].todo # <<>>
    BY <1>4 DEF Write, At, Busy
  <2>4. Noted(Due(SideOf[w], hand[w].dir), Tail(hand[w].todo), Recorded(w), hand[w].on)
    <3>1. CASE Head(hand[w].todo).own
      BY Zenon, <1>0, <2>3, <3>1, DumpSkipped DEF Recorded, NInv, NotedBy
    <3>2. CASE ~Head(hand[w].todo).own
      <4>1. Recorded(w) = [hand[w].rec EXCEPT ![Head(hand[w].todo).trace] = @ + 1]
        BY Zenon, <3>2 DEF Recorded, Now
      <4> QED
        BY Zenon, <1>0, <2>3, <3>2, <4>1, DumpMade DEF NInv, NotedBy
    <3> QED
      BY <3>1, <3>2
  <2>5. NotedBy(w)'
    BY <2>1, <2>2, <2>4 DEF NInv, NotedBy
  <2> QED
    BY <2>1, <2>5, NotedSame DEF NInv
<1>5. ASSUME hand' = [v \in Worker |-> Idle] PROVE NInv'
  BY <1>5, NotedIdle DEF NInv
<1>6. ASSUME NEW w \in Worker, Return(w) PROVE NInv'
  <2>1. DumpEnabled' = DumpEnabled /\ \A v \in Worker : hand'[v] = Idle \/ hand'[v] = hand[v]
    BY <1>6 DEF Return, Terminate, Fields
  <2> QED
    BY <2>1, NotedSame, NotedIdle DEF NInv
<1>7. ASSUME NEW d \in Switched, NEW enable \in BOOLEAN, ControlDump(d, enable) PROVE NInv'
  <2> SUFFICES ASSUME NEW v \in Worker PROVE NotedBy(v)'
    BY DEF NInv
  <2>1. /\ hand'[v].todo = hand[v].todo /\ hand'[v].rec = hand[v].rec /\ hand'[v].dir = hand[v].dir
        /\ hand'[v].on = hand[v].on \cap DumpEnabled'
    BY <1>7 DEF ControlDump, Fields, Hand
  <2>2. Noted(Due(SideOf[v], hand[v].dir), hand[v].todo, hand[v].rec, hand[v].on \cap DumpEnabled')
    BY Zenon DEF NInv, NotedBy, Noted
  <2> QED
    BY Zenon, <2>1, <2>2 DEF NotedBy
<1>8. ASSUME hand' = hand, DumpEnabled' = DumpEnabled PROVE NInv'
  BY <1>8 DEF NInv, NotedBy
<1>9. ASSUME NEW w \in Worker, Step(w) PROVE NInv'
  <2>1. CASE Lock(w)
    BY Zenon, <1>3, <2>1 DEF Lock
  <2>2. ASSUME NEW ok \in BOOLEAN, startTrace(w, ok) PROVE NInv'
    BY <1>3, <1>5, <2>2 DEF startTrace, Terminate
  <2>3. ASSUME NEW ok \in BOOLEAN, Write(w, ok) PROVE NInv'
    BY Zenon, <1>4, <1>5, <2>3 DEF Write, Terminate
  <2> QED
    BY <1>2, <1>6, <1>9, <2>1, <2>2, <2>3 DEF Step
<1>10. CASE Signal \/ Close
  BY <1>5, <1>8, <1>10 DEF Signal, Close, CopyFiles, CloseFile, Exit, Terminate
<1> QED
  BY <1>1, <1>7, <1>8, <1>9, <1>10 DEF Next, vars

-----------------------------------------------------------------------------

\* The invariant holds in every reachable state.
THEOREM TracesInvariant == Spec => []TInv
<1>1. Init => TInv
  <2> SUFFICES ASSUME Init PROVE TInv
    OBVIOUS
  <2>1. hand \in [Worker -> Hand] /\ \A w \in Worker : hand[w].pc = "idle" /\ hand[w].dir = "drop"
    BY IdleType DEF Init, Idle
  <2>2. closing \in [ports : Ports, copy : SUBSET Trace, old : SUBSET Trace]
    BY DEF Init, Ports
  <2>3. closing.ports = <<"private", "public">> /\ closing.copy = {} /\ closing.old = {}
    BY DEF Init
  <2>4. Fields
    BY <2>1, <2>2, WorkerAssumption DEF Init, Fields
  <2>5. Busy /\ Locks /\ Opened
    BY <2>1 DEF Init, Busy, Locks, Inside, Opened
  <2>6. Left /\ Done
    BY <2>3 DEF Init, Left, Done
  <2> QED
    BY <2>4, <2>5, <2>6 DEF TInv
<1>2. TInv /\ [Next]_vars => TInv'
  BY FieldsStep, LocksStep, OpenedStep, LeftStep, DoneStep DEF TInv
<1> QED
  BY <1>1, <1>2, PTL DEF Spec

\* A mutex is held by the one worker inside the section it protects, for any
\* number of handlers: dumpPacket always releases it, or ends the program.
THEOREM TracesTypeCorrect == Spec => []TracesTypeOK
<1>1. TInv => TracesTypeOK
  <2> SUFFICES ASSUME TInv PROVE TracesTypeOK
    OBVIOUS
  <2>1. ASSUME Running, NEW t \in Trace
        PROVE  {w \in Worker : hand[w].pc \in {"create", "write"} /\ Now(w) = t}
                 = IF dumpsync[t] = None THEN {} ELSE {dumpsync[t]}
    BY <2>1, WorkerAssumption DEF TInv, Fields, Locks, Inside
  <2> QED
    BY <2>1 DEF TInv, Fields, TracesTypeOK
<1> QED
  BY <1>1, TracesInvariant, PTL

\* A packet that is in a trace stays there: startTrace never truncates a file
\* with packets.
THEOREM TracesKept == Spec => TraceKept
<1>1. TInv /\ [Next]_vars => [filled \subseteq filled']_vars
  <2> SUFFICES ASSUME TInv, Next PROVE filled \subseteq filled'
    OBVIOUS
  <2>1. ASSUME NEW w \in Worker, NEW ok \in BOOLEAN, startTrace(w, ok) PROVE filled \subseteq filled'
    <3>1. fdump[Now(w)] = "nil"
      BY <2>1 DEF startTrace, At, TInv, Opened
    <3>2. Now(w) \notin filled
      BY <3>1 DEF TInv, Opened
    <3> QED
      BY <2>1, <3>2 DEF startTrace
  <2>2. ASSUME NEW w \in Worker, NEW ok \in BOOLEAN, Write(w, ok) PROVE filled \subseteq filled'
    BY <2>2 DEF Write
  <2> QED
    BY <2>1, <2>2 DEF Next, Step, Close, Arrive, Check, Lock, Return, ControlDump, Signal,
                      CopyFiles, CloseFile, Exit, files
<1> QED
  BY <1>1, TracesInvariant, PTL DEF Spec, TraceKept

\* A packet is once in the trace of arriving packets and once in the one of what
\* became of it, if the trace was on all the time, and in no other, however
\* handlers, ControlDump and the end of main interleave.
THEOREM ReturnsTraced == Spec => []TracedAsReturned
<1>1. Init => NInv
  <2>1. Idle.todo = <<>> /\ Idle.on = {} /\ \A t \in Trace : Idle.rec[t] = 0
    BY DEF Idle
  <2>2. DOMAIN <<>> = {}
    OBVIOUS
  <2> QED
    BY <2>1, <2>2 DEF Init, NInv, NotedBy, Noted
<1>2. TInv /\ NInv /\ [Next]_vars => NInv'
  BY NotedStep DEF TInv
<1>3. TInv /\ NInv => TracedAsReturned
  <2> SUFFICES ASSUME NInv, NEW w \in Worker, hand[w].todo = <<>>, NEW t \in Trace
               PROVE  LET due == Due(SideOf[w], hand[w].dir)
                      IN  /\ hand[w].rec[t] <= IF t \in due THEN 1 ELSE 0
                          /\ t \in due /\ t[2] \in hand[w].on => hand[w].rec[t] = 1
    BY Zenon DEF TracedAsReturned
  <2> DEFINE due == Due(SideOf[w], hand[w].dir)
             n == hand[w].rec[t]
  <2>1. DOMAIN <<>> = {}
    OBVIOUS
  <2>2. n = 0 \/ (t \in due /\ n = 1)
    BY Zenon DEF NInv, NotedBy, Noted
  <2>3. t \in due /\ t[2] \in hand[w].on => n = 1
    BY Zenon, <2>1 DEF NInv, NotedBy, Noted
  <2> HIDE DEF due, n
  <2>4. n <= IF t \in due THEN 1 ELSE 0
    BY <2>2
  <2> QED
    BY Zenon, <2>3, <2>4 DEF due, n
<1> QED
  BY <1>1, <1>2, <1>3, TracesInvariant, PTL DEF Spec

\* Switching traces and writing them never ends the program before SIGINT.
THEOREM FatalAfterSignal == Spec => FatalOnlyAtExit
<1>1. TInv /\ [Next]_vars => [program' = "fatal" => program = "signal"]_vars
  <2> SUFFICES ASSUME TInv, Next, program' = "fatal", program # "fatal" PROVE program = "signal"
    <3>1. ASSUME TInv, Next, program' = "fatal", program = "fatal" PROVE FALSE
      BY <3>1 DEF Next, Step, Close, Arrive, Check, Lock, Return, startTrace, Write, ControlDump,
                  Signal, CopyFiles, CloseFile, Exit, At, Running
    <3> QED
      BY <3>1
  <2>1. PICK w \in Worker, ok \in BOOLEAN : Write(w, ok)
    BY DEF Next, Step, Close, Arrive, Check, Lock, Return, startTrace, ControlDump,
           Signal, CopyFiles, CloseFile, Exit, Terminate, Stay
  <2>2. Running /\ fdump[Now(w)] # "open"
    BY <2>1 DEF Write, At, Terminate
  <2>3. Now(w) \in Trace /\ fdump[Now(w)] \in {"nil", "open", "closed"} /\ fdump[Now(w)] # "nil"
    BY <2>1, TodoTypes DEF Write, At, TInv, Fields, Hand, Busy, Now, Opened
  <2> QED
    BY <2>2, <2>3 DEF Running, TInv, Left
<1> QED
  BY <1>1, TracesInvariant, PTL DEF Spec, FatalOnlyAtExit

\* When main returns, the files that were open at the signal are closed.
THEOREM FilesClosed == Spec => []ClosedAtExit
<1>1. TInv => ClosedAtExit
  <2>1. Len(<<>>) # Len(<<"public">>) /\ Len(<<>>) # Len(<<"private", "public">>)
    OBVIOUS
  <2>2. <<>> # <<"public">> /\ <<>> # <<"private", "public">>
    BY <2>1
  <2> QED
    BY <2>2 DEF TInv, Left, Done, ClosedAtExit
<1> QED
  BY <1>1, TracesInvariant, PTL
=============================================================================
