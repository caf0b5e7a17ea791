--------------------------- MODULE ServiceProofs ----------------------------
(***************************************************************************)
(* The program with its client, for any configurations, command lines and  *)
(* number of calls: the private port is one of module AddressClient, and   *)
(* the tables hold the rules that were asked for.                          *)
(***************************************************************************)
EXTENDS Service, AddressClientProofs, SequenceTheorems

AnyRequest == DumpRequest \cup AddressRequest \cup ForwardRequest

\* A request of a command line that was accepted.
Accepted(o) ==
  /\ o \in AnyRequest
  /\ o \in ForwardRequest => /\ Parses(o)
                             /\ o.protocol \in DOMAIN protocolIdLookup => Asked(o) \in asked

\* A rule is one that was asked for.
Good(s, r) ==
  \E a \in asked :
    /\ a.side = s /\ a.protocol = r.protocol /\ a.port = r.port /\ a.host = r.host
    /\ r.tport = IF a.tport = 0 /\ a.host # ZeroAddr THEN a.port ELSE a.tport

\* The configuration is one of Config and its rules are asked for.
Read ==
  /\ config \in Config
  /\ main \in [stage : {"config", "failed", "offload", "flows", "grpc", "ports", "run", "panic"},
               hw : BOOLEAN, pub : {ZeroAddr, "public"}]
  /\ \A s \in Side : \A r \in config.rules[s] :
       [side |-> s, protocol |-> r.protocol, port |-> r.port, host |-> r.host,
        tport |-> r.tport] \in asked

\* What a call that was checked goes on with: a rule that is good, or a request
\* of AddressClient.
Fit(c) ==
  /\ c.req.kind = "forward" /\ c.at = "store" => Good(c.req.index, c.rule)
  /\ c.req.kind = "address" /\ c.at \in {"args", "link"} => c.rule \in Caller

\* Requests on their way were accepted.
Pending ==
  /\ cli.todo \in Seq(AnyRequest)
  /\ \A i \in DOMAIN cli.todo : Accepted(cli.todo[i])
  /\ \A c \in calls :
       /\ c = [req |-> c.req, at |-> c.at, mine |-> c.mine, rule |-> c.rule]
       /\ Accepted(c.req) /\ Fit(c)

ServiceInv == Read /\ Pending /\ OnlyAskedRules

-----------------------------------------------------------------------------

\* asked only grows, so that what was good stays good.
LEMMA GoodKept ==
  ASSUME asked \subseteq asked', NEW s, NEW r, Good(s, r)
  PROVE  Good(s, r)'
  BY DEF Good

\* Nor is a request that was accepted ever refused later.
LEMMA AcceptedKept ==
  ASSUME asked \subseteq asked', NEW o, Accepted(o)
  PROVE  Accepted(o)'
  BY DEF Accepted

\* A number that fits is not cut.
LEMMA SixteenBits ==
  ASSUME NEW n \in Nat, n < 65536
  PROVE  Uint16(n) = n
  BY SMT DEF Uint16

\* The widths of the fields change nothing in a request that was accepted, and
\* a name that is no protocol is refused.
LEMMA Converted ==
  ASSUME NEW o \in ForwardRequest, Parses(o), convertForwardedPort(o).protocol.id \in {6, 17}
  PROVE  /\ o.protocol \in DOMAIN protocolIdLookup
         /\ convertForwardedPort(o)
              = [protocol |-> protocolIdLookup[o.protocol], port |-> o.port, host |-> o.host,
                 ipv6 |-> o.ipv6, tport |-> o.tport]
<1>1. o.protocol \in {"TCP", "UDP", "IPv6_Flag", "TCP6"}
  BY DEF ForwardRequest, ProtocolValue
<1>2. Uint16(o.port) = o.port /\ Uint16(o.tport) = o.tport
  <2>1. o.port \in Nat /\ o.tport \in Nat
    BY DEF ForwardRequest
  <2> QED
    BY SMT, SixteenBits, <2>1 DEF Parses
<1>3. /\ ProtocolValue["TCP"] = 6 /\ ProtocolValue["UDP"] = 17
      /\ ProtocolValue["IPv6_Flag"] = 65536 /\ ProtocolValue["TCP6"] = 65542
  BY SMT DEF ProtocolValue, IPv6Flag
<1>4. Uint8(6) = 6 /\ Uint8(17) = 17 /\ Uint8(65536) = 0 /\ Uint8(65542) = 6
  BY SMT DEF Uint8
<1>5. o.protocol # "IPv6_Flag"
  BY <1>3, <1>4 DEF convertForwardedPort
<1>6. convertForwardedPort(o).protocol
        = [id |-> Uint8(ProtocolValue[o.protocol]), ipv6 |-> ProtocolValue[o.protocol] >= IPv6Flag]
  BY DEF convertForwardedPort
<1>7. convertForwardedPort(o).protocol = protocolIdLookup[o.protocol]
  <2>1. /\ (ProtocolValue["TCP"] >= IPv6Flag) = FALSE /\ (ProtocolValue["UDP"] >= IPv6Flag) = FALSE
        /\ (ProtocolValue["TCP6"] >= IPv6Flag) = TRUE
    BY SMT, <1>3 DEF IPv6Flag
  <2>2. /\ protocolIdLookup["TCP"] = [id |-> 6, ipv6 |-> FALSE]
        /\ protocolIdLookup["UDP"] = [id |-> 17, ipv6 |-> FALSE]
        /\ protocolIdLookup["TCP6"] = [id |-> 6, ipv6 |-> TRUE]
    BY SMT DEF protocolIdLookup
  <2>6. /\ Uint8(ProtocolValue["TCP"]) = 6 /\ Uint8(ProtocolValue["UDP"]) = 17
        /\ Uint8(ProtocolValue["TCP6"]) = 6
    BY SMT, <1>3, <1>4
  <2>3. CASE o.protocol = "TCP"
    BY Zenon, <1>6, <2>1, <2>2, <2>3, <2>6
  <2>4. CASE o.protocol = "UDP"
    BY Zenon, <1>6, <2>1, <2>2, <2>4, <2>6
  <2>5. CASE o.protocol = "TCP6"
    BY Zenon, <1>6, <2>1, <2>2, <2>5, <2>6
  <2> QED
    BY <1>1, <1>5, <2>3, <2>4, <2>5
<1>8. DOMAIN protocolIdLookup = {"TCP", "UDP", "TCP6"}
  BY DEF protocolIdLookup
<1> QED
  BY <1>1, <1>2, <1>5, <1>6, <1>7, <1>8 DEF convertForwardedPort

\* Completing a rule changes its target port only.
LEMMA CompletedFields ==
  ASSUME NEW r \in Rule
  PROVE  /\ Completed(r).host = r.host /\ Completed(r).protocol = r.protocol
         /\ Completed(r).port = r.port
         /\ Completed(r).tport = IF r.tport = 0 /\ r.host # ZeroAddr THEN r.port ELSE r.tport
  BY DEF Completed, Rule

\* A rule that was asked for is good once it is completed.
LEMMA CompletedGood ==
  ASSUME NEW s, NEW r \in Rule,
         [side |-> s, protocol |-> r.protocol, port |-> r.port, host |-> r.host,
          tport |-> r.tport] \in asked
  PROVE  Good(s, Completed(r))
<1> DEFINE a == [side |-> s, protocol |-> r.protocol, port |-> r.port, host |-> r.host,
                 tport |-> r.tport]
<1>1. /\ a.side = s /\ a.protocol = r.protocol /\ a.port = r.port /\ a.host = r.host
      /\ a.tport = r.tport
  OBVIOUS
<1>2. a \in asked
  OBVIOUS
<1> HIDE DEF a
<1> QED
  BY <1>1, <1>2, CompletedFields DEF Good

\* What enableStaticPortForward stores for a good rule was asked for, the way
\* there and the way back.
LEMMA EnabledFollows ==
  ASSUME NEW s, NEW r, Good(s, r), NEW e \in Enabled(s, r)
  PROVE  \E a \in asked : Follows(e, a)
<1>1. PICK a \in asked :
        /\ a.side = s /\ a.protocol = r.protocol /\ a.port = r.port /\ a.host = r.host
        /\ r.tport = IF a.tport = 0 /\ a.host # ZeroAddr THEN a.port ELSE a.tport
  BY DEF Good
<1>2. CASE e = Forward(s, r)
  <2>1. /\ e.side = s /\ e.protocol = r.protocol /\ e.key = Own(s, r) /\ e.value = Target(r)
    BY <1>2 DEF Forward, Entry
  <2>2. e.key[2] = r.port /\ e.value = <<r.host, r.tport>>
    BY <2>1 DEF Own, Target
  <2>3. Follows(e, a)
    BY <1>1, <2>1, <2>2 DEF Follows
  <2> QED
    BY <2>3
<1>3. CASE r.host # ZeroAddr /\ \E o \in Side \ {s} : e = Entry(o, r.protocol, Target(r), Own(s, r))
  <2>1. /\ e.side # s /\ e.protocol = r.protocol /\ e.key = Target(r) /\ e.value = Own(s, r)
    BY <1>3 DEF Entry
  <2>2. e.value[2] = r.port /\ e.key = <<r.host, r.tport>>
    BY <2>1 DEF Own, Target
  <2>3. Follows(e, a)
    BY <1>1, <1>3, <2>1, <2>2 DEF Follows
  <2> QED
    BY <2>3
<1> QED
  BY <1>2, <1>3 DEF Enabled

-----------------------------------------------------------------------------

\* main's part of the invariant, when a step leaves it alone.
LEMMA ReadSame ==
  ASSUME Read, main' = main, config' = config, asked \subseteq asked'
  PROVE  Read'
  BY DEF Read

\* Entries that were asked for stay so, and so do those of which some are left.
LEMMA RulesSame ==
  ASSUME OnlyAskedRules, rules' \subseteq rules, asked \subseteq asked'
  PROVE  OnlyAskedRules'
  BY Zenon DEF OnlyAskedRules, Follows

\* Requests on their way stay accepted when others are asked.
LEMMA PendingSame ==
  ASSUME Pending, cli' = cli, calls' = calls, asked \subseteq asked'
  PROVE  Pending'
<1>1. \A i \in DOMAIN cli.todo : Accepted(cli.todo[i])'
  BY AcceptedKept DEF Pending
<1>2. \A c \in calls : Accepted(c.req)'
  BY AcceptedKept DEF Pending
<1>3. \A c \in calls : Fit(c)'
  BY GoodKept DEF Pending, Fit
<1> QED
  BY <1>1, <1>2, <1>3 DEF Pending

\* The calls change, to ones of requests that were accepted.
LEMMA CallsStep ==
  ASSUME Pending, asked' = asked,
         cli'.todo \in Seq(AnyRequest), \A i \in DOMAIN cli'.todo : Accepted(cli'.todo[i]),
         \A c \in calls' \ calls :
           /\ c = [req |-> c.req, at |-> c.at, mine |-> c.mine, rule |-> c.rule]
           /\ Accepted(c.req) /\ Fit(c)
  PROVE  Pending'
<1>1. \A o : Accepted(o) => Accepted(o)'
  BY DEF Accepted
<1>2. \A c : Fit(c) => Fit(c)'
  BY DEF Good, Fit
<1> QED
  BY <1>1, <1>2 DEF Pending

\* Of each rule of the configuration, InitFlows stores what was asked for.
LEMMA FlowsStep ==
  ASSUME ServiceInv, InitFlows
  PROVE  OnlyAskedRules'
<1>1. asked' = asked
  BY DEF InitFlows
<1>2. CASE rules' = rules
  BY <1>1, <1>2, RulesSame DEF ServiceInv
<1>3. CASE rules' # rules
  <2> DEFINE all(s) == {Completed(r) : r \in config.rules[s]}
             back == UNION {Enabled("public", r) \ {Forward("public", r)} : r \in all("public")}
  <2>1. PICK kept \in SUBSET back :
          rules' = Put({Forward("private", r) : r \in all("private")},
                       {Forward("public", r) : r \in all("public")} \cup kept)
    BY Zenon, <1>3 DEF InitFlows
  <2>2. \A s \in Side : \A r \in all(s) : Good(s, r)
    <3> SUFFICES ASSUME NEW s \in Side, NEW r \in config.rules[s] PROVE Good(s, Completed(r))
      OBVIOUS
    <3>1. r \in Rule
      BY ConfigAssumption DEF ServiceInv, Read
    <3> QED
      BY Zenon, <3>1, CompletedGood DEF ServiceInv, Read
  <2>3. \A s, r : Forward(s, r) \in Enabled(s, r)
    BY DEF Enabled
  <2> HIDE DEF all
  <2>4. \A e \in back : \E r \in all("public") : e \in Enabled("public", r)
    BY Zenon
  <2> HIDE DEF back
  <2>5. \A e \in rules' : \E s \in Side : \E r \in all(s) : e \in Enabled(s, r)
    <3>1. "private" \in Side /\ "public" \in Side
      BY DEF Side
    <3>2. \A e \in rules' :
            \/ \E r \in all("private") : e = Forward("private", r)
            \/ \E r \in all("public") : e = Forward("public", r)
            \/ e \in kept
      <4> DEFINE own == {Forward("private", r) : r \in all("private")}
                 other == {Forward("public", r) : r \in all("public")}
      <4>1. rules' = Put(own, other \cup kept)
        BY <2>1
      <4>2. \A e \in own : \E r \in all("private") : e = Forward("private", r)
        BY Zenon
      <4>3. \A e \in other : \E r \in all("public") : e = Forward("public", r)
        BY Zenon
      <4> HIDE DEF own, other
      <4> QED
        BY <4>1, <4>2, <4>3 DEF Put
    <3>3. \A e \in kept : \E r \in all("public") : e \in Enabled("public", r)
      BY <2>4
    <3> QED
      BY <2>3, <3>1, <3>2, <3>3
  <2>6. \A e \in rules' : \E a \in asked : Follows(e, a)
    BY Zenon, <2>2, <2>5, EnabledFollows
  <2> QED
    BY Zenon, <1>1, <2>6 DEF OnlyAskedRules, Follows
<1> QED
  BY <1>2, <1>3

\* main and the loop.
LEMMA MainStep ==
  ASSUME ServiceInv, ReadConfig \/ Offload \/ InitFlows \/ Start \/ PublicAddress \/ Loop
  PROVE  ServiceInv'
<1>1. config' = config /\ asked' = asked /\ cli' = cli /\ calls' = calls
  BY DEF ReadConfig, Offload, InitFlows, Start, PublicAddress, Loop, service
<1>2. Pending'
  BY <1>1, PendingSame DEF ServiceInv
<1>3. OnlyAskedRules'
  <2>1. CASE InitFlows
    BY <2>1, FlowsStep
  <2>2. CASE rules' = rules
    BY <1>1, <2>2, RulesSame DEF ServiceInv
  <2> QED
    BY <2>1, <2>2 DEF ReadConfig, Offload, Start, PublicAddress, Loop, service
<1>4. main' \in [stage : {"config", "failed", "offload", "flows", "grpc", "ports", "run", "panic"},
                hw : BOOLEAN, pub : {ZeroAddr, "public"}]
  <2>1. CASE ReadConfig
    BY <2>1 DEF ReadConfig, ServiceInv, Read
  <2>2. CASE Offload
    BY Zenon, <2>2 DEF Offload, ServiceInv, Read, CheckHWOffloading
  <2>3. CASE InitFlows
    BY <2>3 DEF InitFlows, ServiceInv, Read
  <2>4. CASE Start
    BY <2>4 DEF Start, ServiceInv, Read
  <2>5. CASE PublicAddress
    BY <2>5 DEF PublicAddress, ServiceInv, Read
  <2>6. CASE Loop
    BY <2>6 DEF Loop, service, ServiceInv, Read
  <2> QED
    BY <2>1, <2>2, <2>3, <2>4, <2>5, <2>6
<1>5. Read'
  BY <1>1, <1>4 DEF ServiceInv, Read
<1> QED
  BY <1>2, <1>3, <1>5 DEF ServiceInv

-----------------------------------------------------------------------------

\* An element of a concatenation is one of a part.
LEMMA FromEither ==
  ASSUME NEW s \in Seq(AnyRequest), NEW t \in Seq(AnyRequest), NEW i \in DOMAIN (s \o t)
  PROVE  \/ \E j \in DOMAIN s : (s \o t)[i] = s[j]
         \/ \E j \in DOMAIN t : (s \o t)[i] = t[j]
<1>1. CASE i <= Len(s)
  BY <1>1
<1>2. CASE i > Len(s)
  <2>1. i - Len(s) \in DOMAIN t /\ (s \o t)[i] = t[i - Len(s)]
    BY <1>2
  <2> QED
    BY <2>1
<1> QED
  BY <1>1, <1>2

\* The requests of a command line are those of its options.
LEMMA RequestsOf ==
  ASSUME NEW command \in Command
  PROVE  /\ Requests(command) \in Seq(AnyRequest)
         /\ \A i \in DOMAIN Requests(command) :
              \/ Requests(command)[i] \in DumpRequest \cup AddressRequest
              \/ \E j \in DOMAIN command.forward : Requests(command)[i] = command.forward[j]
<1>1. /\ command.dump \in Seq(AnyRequest) /\ command.address \in Seq(AnyRequest)
      /\ command.forward \in Seq(AnyRequest)
      /\ command.dump \in Seq(DumpRequest) /\ command.address \in Seq(AddressRequest)
  BY CommandAssumption DEF AnyRequest
<1>3. command.dump \o command.address \in Seq(AnyRequest)
  BY <1>1
<1>4. \A i \in DOMAIN command.dump : command.dump[i] \in DumpRequest
  BY <1>1
<1>5. \A i \in DOMAIN command.address : command.address[i] \in AddressRequest
  BY <1>1
<1> DEFINE early == command.dump \o command.address
<1>6. \A i \in DOMAIN early : early[i] \in DumpRequest \cup AddressRequest
  <2>1. \A i \in DOMAIN early : \/ \E j \in DOMAIN command.dump : early[i] = command.dump[j]
                               \/ \E j \in DOMAIN command.address : early[i] = command.address[j]
    BY Zenon, <1>1, FromEither
  <2> QED
    BY Zenon, <1>4, <1>5, <2>1
<1>7. \A i \in DOMAIN (early \o command.forward) :
        \/ \E j \in DOMAIN early : (early \o command.forward)[i] = early[j]
        \/ \E j \in DOMAIN command.forward : (early \o command.forward)[i] = command.forward[j]
  BY Zenon, <1>1, <1>3, FromEither
<1>8. Requests(command) = early \o command.forward
  BY DEF Requests
<1>9. early \o command.forward \in Seq(AnyRequest)
  BY <1>1, <1>3
<1> HIDE DEF early
<1> QED
  BY <1>6, <1>7, <1>8, <1>9

\* The kinds of requests are disjoint.
LEMMA KindsDiffer ==
  ASSUME NEW o \in DumpRequest \cup AddressRequest
  PROVE  o \notin ForwardRequest
<1>1. o.kind # "forward"
  BY DEF DumpRequest, AddressRequest
<1>2. \A f \in ForwardRequest : f.kind = "forward"
  BY DEF ForwardRequest
<1> QED
  BY <1>1, <1>2

\* A command line is accepted as a whole.
LEMMA RunStep ==
  ASSUME ServiceInv, NEW command \in Command, RunClient(command)
  PROVE  ServiceInv'
<1> DEFINE forward == {command.forward[i] : i \in DOMAIN command.forward}
<1>1. /\ main' = main /\ config' = config /\ rules' = rules /\ calls' = calls
      /\ cli'.todo = Requests(command) /\ asked \subseteq asked'
  BY DEF RunClient
<1>2. \A o \in forward : /\ Parses(o)
                         /\ o.protocol \in DOMAIN protocolIdLookup => Asked(o) \in asked'
  BY DEF RunClient
<1>3. \A i \in DOMAIN Requests(command) : Accepted(Requests(command)[i])'
  <2> SUFFICES ASSUME NEW i \in DOMAIN Requests(command)
               PROVE  Accepted(Requests(command)[i])'
    OBVIOUS
  <2> DEFINE o == Requests(command)[i]
  <2>1. o \in AnyRequest
    BY RequestsOf
  <2>2. o \in DumpRequest \cup AddressRequest \/ o \in forward
    BY RequestsOf
  <2> HIDE DEF o, forward
  <2>3. o \in ForwardRequest => o \in forward
    BY <2>2, KindsDiffer
  <2>4. Accepted(o)'
    BY <1>2, <2>1, <2>3 DEF Accepted
  <2> QED
    BY <2>4 DEF o
<1>4. \A c \in calls : Accepted(c.req)' /\ Fit(c)'
  BY <1>1, AcceptedKept, GoodKept DEF ServiceInv, Pending, Fit
<1>5. Pending'
  BY <1>1, <1>3, <1>4, RequestsOf DEF ServiceInv, Pending
<1> QED
  BY <1>1, <1>5, ReadSame, RulesSame DEF ServiceInv

\* A step that changes the client and the calls only.
LEMMA OnlyCalls ==
  ASSUME ServiceInv, main' = main, config' = config, rules' = rules, asked' = asked, Pending'
  PROVE  ServiceInv'
  BY ReadSame, RulesSame DEF ServiceInv

\* A call is made of the first request left.
LEMMA CallStep ==
  ASSUME ServiceInv, Call
  PROVE  ServiceInv'
<1>1. /\ cli.todo \in Seq(AnyRequest) /\ cli.todo # <<>>
      /\ main' = main /\ config' = config /\ rules' = rules /\ asked' = asked
      /\ calls' = calls \cup {[req |-> Head(cli.todo), at |-> "new", mine |-> TRUE, rule |-> None]}
      /\ cli' = [cli EXCEPT !.waits = TRUE]
  BY DEF Call, ServiceInv, Pending
<1>2. 1 \in DOMAIN cli.todo /\ Head(cli.todo) = cli.todo[1]
  BY <1>1
<1>3. Accepted(Head(cli.todo))
  BY <1>2 DEF ServiceInv, Pending
<1>4. cli'.todo = cli.todo
  BY <1>1
<1>5. Pending'
  <2>1. \A c \in calls' \ calls : c.at = "new" /\ c.req = Head(cli.todo)
                                 /\ c = [req |-> c.req, at |-> c.at, mine |-> c.mine, rule |-> c.rule]
    BY <1>1
  <2> QED
    BY <1>1, <1>3, <1>4, <2>1, CallsStep DEF ServiceInv, Pending, Fit
<1> QED
  BY <1>1, <1>5, OnlyCalls

\* The requests after the first one.
LEMMA RestOfRequests ==
  ASSUME NEW s \in Seq(AnyRequest), s # <<>>
  PROVE  /\ Tail(s) \in Seq(AnyRequest)
         /\ \A i \in DOMAIN Tail(s) : i + 1 \in DOMAIN s /\ Tail(s)[i] = s[i + 1]
  OBVIOUS

\* The client takes an answer, or gives up.
LEMMA AnswerStep ==
  ASSUME ServiceInv, NEW c \in calls, Answered(c) \/ Deadline(c)
  PROVE  ServiceInv'
<1>1. /\ main' = main /\ config' = config /\ rules' = rules /\ asked' = asked
      /\ \E rest \in {<<>>, Tail(cli.todo)} :
           cli' = IF rest = <<>> THEN NoRun ELSE [cli EXCEPT !.waits = FALSE, !.todo = rest]
      /\ calls' \subseteq calls \cup {[c EXCEPT !.mine = FALSE]}
      /\ cli.todo \in Seq(AnyRequest)
  BY Zenon DEF Answered, Deadline, Proceed, ServiceInv, Pending
<1>2. PICK rest \in {<<>>, Tail(cli.todo)} :
        cli' = IF rest = <<>> THEN NoRun ELSE [cli EXCEPT !.waits = FALSE, !.todo = rest]
  BY Zenon, <1>1
<1>3. cli'.todo \in Seq(AnyRequest) /\ \A i \in DOMAIN cli'.todo : Accepted(cli'.todo[i])
  <2>1. CASE rest = <<>>
    BY <1>2, <2>1 DEF NoRun
  <2>2. CASE rest # <<>>
    <3>1. CASE cli.todo = <<>>
      BY <1>1, <1>2, <2>2, <3>1
    <3>2. CASE cli.todo # <<>>
      <4>0. rest = Tail(cli.todo)
        BY Zenon, <1>2, <2>2
      <4>1. rest \in Seq(AnyRequest)
        BY Zenon, <1>1, <3>2, <4>0, RestOfRequests
      <4>2. \A i \in DOMAIN rest : i + 1 \in DOMAIN cli.todo /\ rest[i] = cli.todo[i + 1]
        BY Zenon, <1>1, <3>2, <4>0, RestOfRequests
      <4>3. \A i \in DOMAIN rest : Accepted(rest[i])
        BY <4>2 DEF ServiceInv, Pending
      <4>4. cli'.todo = rest
        BY <1>2, <2>2
      <4> QED
        BY <4>1, <4>3, <4>4
    <3> QED
      BY <3>1, <3>2
  <2> QED
    BY <2>1, <2>2
<1>4. \A d \in calls' \ calls :
        /\ d = [req |-> d.req, at |-> d.at, mine |-> d.mine, rule |-> d.rule]
        /\ d.req = c.req /\ d.at = c.at /\ d.rule = c.rule
  BY <1>1 DEF ServiceInv, Pending
<1>5. Pending'
  BY <1>1, <1>3, <1>4, CallsStep DEF ServiceInv, Pending, Fit
<1> QED
  BY <1>1, <1>5, OnlyCalls

\* The server goes on with a call, or answers it.
LEMMA GoesOn ==
  ASSUME ServiceInv, NEW c \in calls, asked' = asked, cli' = cli,
         \/ \E ok \in BOOLEAN : Reply(c, ok)
         \/ \E at, r : Continue(c, at, r) /\ Fit(Moved(c, at, r))
  PROVE  Pending'
<1>1. c = [req |-> c.req, at |-> c.at, mine |-> c.mine, rule |-> c.rule] /\ Accepted(c.req)
  BY DEF ServiceInv, Pending
<1>2. CASE \E ok \in BOOLEAN : Reply(c, ok)
  <2>1. \A d \in calls' \ calls :
          /\ d = [req |-> d.req, at |-> d.at, mine |-> d.mine, rule |-> d.rule]
          /\ d.req = c.req /\ d.at \in {"ok", "error"}
    <3>1. \A d \in calls' \ calls : \E at \in {"ok", "error"} :
            d = Moved(c, at, None)
      BY <1>2 DEF Reply
    <3> QED
      BY <3>1 DEF Moved
  <2>2. \A d \in calls' \ calls : Fit(d)
    BY <2>1 DEF Fit
  <2> QED
    BY <1>1, <2>1, <2>2, CallsStep DEF ServiceInv, Pending
<1>3. CASE \E at, r : Continue(c, at, r) /\ Fit(Moved(c, at, r))
  <2>1. PICK at, r : Continue(c, at, r) /\ Fit(Moved(c, at, r))
    BY <1>3
  <2>2. \A d \in calls' \ calls : d = Moved(c, at, r)
    BY <2>1 DEF Continue
  <2>3. \A d \in calls' \ calls :
          d = [req |-> d.req, at |-> d.at, mine |-> d.mine, rule |-> d.rule] /\ d.req = c.req
    BY <2>2 DEF Moved
  <2>4. \A d \in calls' \ calls : Fit(d)
    BY Zenon, <2>1, <2>2
  <2> QED
    BY <1>1, <2>3, <2>4, CallsStep DEF ServiceInv, Pending
<1> QED
  BY <1>2, <1>3

\* A request whose kind is "forward" is one.
LEMMA ForwardKind ==
  ASSUME NEW o \in AnyRequest, o.kind = "forward"
  PROVE  o \in ForwardRequest
  BY DEF AnyRequest, DumpRequest, AddressRequest

\* ChangePortForwarding.
LEMMA CheckStep ==
  ASSUME ServiceInv, NEW c \in calls, CheckForward(c)
  PROVE  ServiceInv'
<1> DEFINE s == c.req.index
           r == convertForwardedPort(c.req)
<1>1. /\ main' = main /\ config' = config /\ rules' = rules /\ asked' = asked /\ cli' = cli
      /\ c.req.kind = "forward"
  BY DEF CheckForward, CallAt
<1>2. CASE s \in Side /\ r.protocol.id \in {6, 17} /\ checkPortForwarding(s, r)
  <2>1. Continue(c, "store", Completed(r))
    BY <1>2 DEF CheckForward
  <2>2. c.req \in ForwardRequest /\ Accepted(c.req)
    BY <1>1, ForwardKind DEF ServiceInv, Pending, Accepted
  <2>3. Parses(c.req)
    BY <2>2 DEF Accepted
  <2>4. /\ c.req.protocol \in DOMAIN protocolIdLookup
        /\ r = [protocol |-> protocolIdLookup[c.req.protocol], port |-> c.req.port,
                host |-> c.req.host, ipv6 |-> c.req.ipv6, tport |-> c.req.tport]
    BY <1>2, <2>2, <2>3, Converted
  <2>5. Asked(c.req) \in asked
    BY <2>2, <2>4 DEF Accepted
  <2>6. protocolIdLookup[c.req.protocol] \in [id : Nat, ipv6 : BOOLEAN]
    <3>1. DOMAIN protocolIdLookup = {"TCP", "UDP", "TCP6"}
      BY DEF protocolIdLookup
    <3>2. /\ protocolIdLookup["TCP"] = [id |-> 6, ipv6 |-> FALSE]
          /\ protocolIdLookup["UDP"] = [id |-> 17, ipv6 |-> FALSE]
          /\ protocolIdLookup["TCP6"] = [id |-> 6, ipv6 |-> TRUE]
      BY SMT DEF protocolIdLookup
    <3>3. [id |-> 6, ipv6 |-> FALSE] \in [id : Nat, ipv6 : BOOLEAN]
      OBVIOUS
    <3>4. [id |-> 17, ipv6 |-> FALSE] \in [id : Nat, ipv6 : BOOLEAN]
      OBVIOUS
    <3>5. [id |-> 6, ipv6 |-> TRUE] \in [id : Nat, ipv6 : BOOLEAN]
      OBVIOUS
    <3> QED
      BY Zenon, <2>4, <3>1, <3>2, <3>3, <3>4, <3>5
  <2>7. r \in Rule
    BY <2>2, <2>4, <2>6 DEF ForwardRequest, Rule
  <2>8. [side |-> s, protocol |-> r.protocol, port |-> r.port, host |-> r.host, tport |-> r.tport]
          = Asked(c.req)
    BY <2>4 DEF Asked
  <2> HIDE DEF r
  <2>9. Good(s, Completed(r))
    BY <2>5, <2>7, <2>8, CompletedGood
  <2>10. Fit(Moved(c, "store", Completed(r)))
    BY <1>1, <2>9 DEF Fit, Moved
  <2> QED
    BY Zenon, <1>1, <2>1, <2>10, GoesOn, OnlyCalls
<1>3. CASE ~(s \in Side /\ r.protocol.id \in {6, 17} /\ checkPortForwarding(s, r))
  <2>1. Reply(c, FALSE)
    BY Zenon, <1>3 DEF CheckForward
  <2> QED
    BY Zenon, <1>1, <2>1, GoesOn, OnlyCalls
<1> QED
  BY <1>2, <1>3

\* The section of ChangePortForwarding under the mutex: what it stores was asked
\* for, and the entries it leaves were there before.
LEMMA StoreStep ==
  ASSUME ServiceInv, NEW c \in calls, StoreForward(c)
  PROVE  ServiceInv'
<1>1. /\ config' = config /\ asked' = asked /\ cli' = cli
      /\ c.req.kind = "forward" /\ c.at = "store"
  BY DEF StoreForward, CallAt
<1>2. Good(c.req.index, c.rule)
  BY <1>1 DEF ServiceInv, Pending, Fit
<1>3. CASE PastPortmap(c.req.index, c.rule)
  <2>1. main' = [main EXCEPT !.stage = "panic"] /\ rules' = rules /\ calls' = calls
    BY <1>3 DEF StoreForward
  <2>2. Read'
    BY <1>1, <2>1 DEF ServiceInv, Read
  <2>3. Pending' /\ OnlyAskedRules'
    BY <1>1, <2>1, PendingSame, RulesSame DEF ServiceInv
  <2> QED
    BY <2>2, <2>3 DEF ServiceInv
<1>4. CASE ~PastPortmap(c.req.index, c.rule)
  <2> DEFINE left == Deleted(rules, c.req.index, c.rule)
             new == Enabled(c.req.index, c.rule)
  <2>1. /\ rules' = IF c.req.enable THEN Put(left, new) ELSE left
        /\ Reply(c, TRUE) /\ main' = main
    BY Zenon, <1>4 DEF StoreForward
  <2>2. left \subseteq rules
    BY Zenon DEF Deleted
  <2>3. \A e \in new : \E a \in asked : Follows(e, a)
    BY Zenon, <1>2, EnabledFollows
  <2> HIDE DEF left, new
  <2>4. \A e \in rules' : e \in rules \/ e \in new
    BY Zenon, <2>1, <2>2 DEF Put
  <2>5. OnlyAskedRules'
    BY Zenon, <1>1, <2>3, <2>4 DEF ServiceInv, OnlyAskedRules, Follows
  <2>6. Read'
    BY <1>1, <2>1, ReadSame DEF ServiceInv
  <2>7. Pending'
    BY Zenon, <1>1, <2>1, GoesOn
  <2> QED
    BY <2>5, <2>6, <2>7 DEF ServiceInv
<1> QED
  BY <1>3, <1>4

\* ControlDump and ChangeInterfaceAddress.
LEMMA OtherStep ==
  ASSUME ServiceInv, NEW c \in calls,
         \/ ControlDump(c) \/ ChangeAddress(c) \/ ChangeArgs(c)
         \/ \E del, add \in BOOLEAN : ChangeLink(c, del, add)
  PROVE  ServiceInv'
<1>1. /\ main' = main /\ config' = config /\ rules' = rules /\ asked' = asked /\ cli' = cli
  BY Zenon DEF ControlDump, ChangeAddress, ChangeArgs, ChangeLink
<1>2. \A at, k : c.req.kind = "address" /\ k \in Caller => Fit(Moved(c, at, k))
  BY DEF Fit, Moved
<1>3. Pending'
  <2>1. CASE ControlDump(c)
    BY Zenon, <1>1, <2>1, GoesOn DEF ControlDump
  <2>2. CASE ChangeAddress(c)
    <3>1. Reply(c, FALSE) \/ \E k \in Caller : Continue(c, "args", k)
      BY Zenon, <2>2 DEF ChangeAddress
    <3>2. c.req.kind = "address"
      BY <2>2 DEF ChangeAddress, CallAt
    <3> QED
      BY Zenon, <1>1, <1>2, <3>1, <3>2, GoesOn
  <2>3. CASE ChangeArgs(c)
    <3>1. Continue(c, "link", c.rule)
      BY Zenon, <2>3 DEF ChangeArgs
    <3>2. c.req.kind = "address" /\ c.rule \in Caller
      BY <2>3 DEF ChangeArgs, CallAt, ServiceInv, Pending, Fit
    <3> QED
      BY Zenon, <1>1, <1>2, <3>1, <3>2, GoesOn
  <2>4. CASE \E del, add \in BOOLEAN : ChangeLink(c, del, add)
    <3>1. acquired' \in BOOLEAN /\ Reply(c, acquired')
      BY <2>4 DEF ChangeLink, RpcLink
    <3> QED
      BY Zenon, <1>1, <3>1, GoesOn
  <2> QED
    BY <2>1, <2>2, <2>3, <2>4
<1> QED
  BY <1>1, <1>3, OnlyCalls

-----------------------------------------------------------------------------

\* Nothing was stored or called at the start.
LEMMA ServiceStarts ==
  ASSUME ServiceInit
  PROVE  ServiceInv
<1>1. /\ config \in Config /\ rules = {} /\ calls = {} /\ cli.todo = <<>>
      /\ main = [stage |-> "config", hw |-> config.hwcsum,
             pub |-> IF config.pubDhcp THEN ZeroAddr ELSE "public"]
      /\ \A s \in Side : \A r \in config.rules[s] :
           [side |-> s, protocol |-> r.protocol, port |-> r.port, host |-> r.host,
            tport |-> r.tport] \in asked
  <2>1. config \in Config /\ rules = {} /\ calls = {} /\ cli = NoRun
    BY Zenon DEF ServiceInit
  <2>2. main = [stage |-> "config", hw |-> config.hwcsum,
             pub |-> IF config.pubDhcp THEN ZeroAddr ELSE "public"]
    BY Zenon DEF ServiceInit
  <2>3. asked = UNION {{[side |-> s, protocol |-> r.protocol, port |-> r.port, host |-> r.host,
                         tport |-> r.tport] : r \in config.rules[s]} : s \in Side}
    BY Zenon DEF ServiceInit
  <2>4. NoRun.todo = <<>>
    BY DEF NoRun
  <2>5. \A s \in Side : \A r \in config.rules[s] :
          [side |-> s, protocol |-> r.protocol, port |-> r.port, host |-> r.host,
           tport |-> r.tport] \in asked
    <3> DEFINE a(s, r) == [side |-> s, protocol |-> r.protocol, port |-> r.port,
                           host |-> r.host, tport |-> r.tport]
               Of(s) == {a(s, r) : r \in config.rules[s]}
    <3>1. \A s \in Side : \A r \in config.rules[s] : a(s, r) \in Of(s)
      BY Zenon
    <3>2. asked = UNION {Of(s) : s \in Side}
      BY Zenon, <2>3
    <3> HIDE DEF Of
    <3>3. \A s \in Side : Of(s) \subseteq asked
      BY Zenon, <3>2
    <3> QED
      BY Zenon, <3>1, <3>3
  <2> QED
    BY Zenon, <2>1, <2>2, <2>4, <2>5
<1>2. config.hwcsum \in BOOLEAN /\ main.stage = "config"
  BY <1>1, ConfigAssumption
<1>3. main \in [stage : {"config", "failed", "offload", "flows", "grpc", "ports", "run", "panic"},
                hw : BOOLEAN, pub : {ZeroAddr, "public"}]
  BY <1>1, <1>2
<1>4. Read
  BY <1>1, <1>3 DEF Read
<1>5. Pending
  BY <1>1 DEF Pending
<1>6. OnlyAskedRules
  BY <1>1 DEF OnlyAskedRules
<1> QED
  BY <1>4, <1>5, <1>6 DEF ServiceInv

\* Every step keeps the invariant.
LEMMA ServiceStep ==
  ASSUME ServiceInv, [ServiceNext]_<<vars, service>>
  PROVE  ServiceInv'
<1>1. CASE UNCHANGED <<vars, service>>
  BY <1>1, OnlyCalls, PendingSame DEF service, ServiceInv
<1>2. CASE ServiceNext
  BY <1>2, MainStep, RunStep, CallStep, AnswerStep, CheckStep, StoreStep, OtherStep
     DEF ServiceNext
<1> QED
  BY <1>1, <1>2

\* The invariant of the program: configuration, requests on their way and
\* tables agree.
THEOREM ServiceInvariant == ServiceSpec => []ServiceInv
BY ServiceStarts, ServiceStep, PTL DEF ServiceSpec

\* Every entry of the two tables comes from a rule that was asked for, in the
\* configuration or by a command line, whatever the client's requests and their
\* timing: convertForwardedPort cuts nothing off that the client lets pass.
THEOREM RulesAsked == ServiceSpec => []OnlyAskedRules
<1>1. ServiceInv => OnlyAskedRules
  BY Zenon DEF ServiceInv
<1> QED
  BY <1>1, ServiceInvariant, PTL

-----------------------------------------------------------------------------
(* The order of the requests *)

\* What is left of the list all after k requests, and the first k of it.
LeftOf(all, k, todo) ==
  /\ all \in Seq(AnyRequest) /\ todo \in Seq(AnyRequest) /\ k \in Nat
  /\ Len(all) = k + Len(todo) /\ \A i \in 1 .. Len(todo) : todo[i] = all[k + i]
FirstOf(all, k, done) ==
  /\ done \in Seq(AnyRequest) /\ k \in Nat /\ Len(done) = k /\ k <= Len(all)
  /\ \A n \in 1 .. k : done[n] = all[n]

\* The one call of the client is for the first request left.
OneCall ==
  /\ \A c \in calls : c.mine \in BOOLEAN
  /\ \A c \in calls : c.mine => cli.waits /\ cli.todo # <<>> /\ c.req = Head(cli.todo)
  /\ \A c, d \in calls : c.mine /\ d.mine => c = d

\* It was carried out, and the client has not got the answer.
CarriedOut == \E c \in calls : c.mine /\ c.at = "ok"

\* What was carried out are the requests before the first one left, and that one
\* too when its answer is on the way.
InPlace ==
  /\ Requests(cli.command) \in Seq(AnyRequest)
  /\ cli.todo = <<>> => served = <<>>
  /\ cli.todo # <<>> => \E k \in Nat :
       /\ LeftOf(Requests(cli.command), k, cli.todo)
       /\ FirstOf(Requests(cli.command), IF CarriedOut THEN k + 1 ELSE k, served)

OrderInv == OneCall /\ InPlace

\* The first request left is carried out next.
LEMMA OneMore ==
  ASSUME NEW all, NEW k, NEW todo, NEW done, LeftOf(all, k, todo), FirstOf(all, k, done), todo # <<>>
  PROVE  FirstOf(all, k + 1, Append(done, Head(todo)))
<1> DEFINE o == Head(todo)
           new == Append(done, o)
<1>1. o \in AnyRequest /\ o = todo[1] /\ Len(todo) \in Nat \ {0}
  BY DEF LeftOf
<1>2. o = all[k + 1] /\ k \in Nat /\ k + 1 <= Len(all)
  BY <1>1 DEF LeftOf
<1> HIDE DEF o
<1>3. /\ new \in Seq(AnyRequest) /\ Len(new) = k + 1 /\ new[k + 1] = o
      /\ \A n \in 1 .. k : new[n] = done[n]
  BY <1>1, AppendProperties DEF FirstOf
<1> HIDE DEF new
<1>4. \A n \in 1 .. k + 1 : new[n] = all[n]
  BY <1>2, <1>3 DEF FirstOf
<1> QED
  BY <1>2, <1>3, <1>4 DEF FirstOf, new, o

\* The first request left is done with.
LEMMA OneLess ==
  ASSUME NEW all, NEW k, NEW todo, LeftOf(all, k, todo), todo # <<>>
  PROVE  LeftOf(all, k + 1, Tail(todo))
<1> DEFINE u == Tail(todo)
<1>1. /\ u \in Seq(AnyRequest) /\ Len(u) = Len(todo) - 1
      /\ \A i \in 1 .. Len(u) : u[i] = todo[i + 1]
  BY HeadTailProperties DEF LeftOf
<1> HIDE DEF u
<1>2. Len(todo) \in Nat \ {0} /\ k \in Nat
  BY DEF LeftOf
<1>3. \A i \in 1 .. Len(u) : i + 1 \in 1 .. Len(todo) /\ k + (i + 1) = (k + 1) + i
  BY <1>1, <1>2
<1>4. \A i \in 1 .. Len(u) : u[i] = all[(k + 1) + i]
  BY Zenon, <1>1, <1>3 DEF LeftOf
<1> QED
  BY <1>1, <1>2, <1>4 DEF LeftOf, u

\* A call takes the place of another one for the same request.
LEMMA OneCallKept ==
  ASSUME OneCall, NEW c \in calls, cli' = cli, NEW e, e.mine = c.mine, e.req = c.req,
         \A d \in calls' : d \in calls \ {c} \/ d = e
  PROVE  OneCall'
<1>1. \A d \in calls' : d.mine \in BOOLEAN
  BY Zenon DEF OneCall
<1>2. \A d \in calls' : d.mine => cli.waits /\ cli.todo # <<>> /\ d.req = Head(cli.todo)
  BY Zenon DEF OneCall
<1>3. ASSUME NEW d \in calls', NEW f \in calls', d.mine, f.mine PROVE d = f
  <2>1. CASE d = e
    BY Zenon, <1>3, <2>1 DEF OneCall
  <2>2. CASE d # e
    BY Zenon, <1>3, <2>2 DEF OneCall
  <2> QED
    BY <2>1, <2>2
<1> QED
  BY Zenon, <1>1, <1>2, <1>3 DEF OneCall

\* The server goes on with a call, or answers it; only a request of the client
\* that was carried out is added.
LEMMA OrderServer ==
  ASSUME OrderInv, NEW c \in calls, c.at # "ok", cli' = cli,
         \/ \E ok \in BOOLEAN : Reply(c, ok)
         \/ \E at, r : Continue(c, at, r) /\ at # "ok"
  PROVE  OrderInv'
<1>1. c.mine \in BOOLEAN
  BY DEF OrderInv, OneCall
<1>2. \A at, r : Moved(c, at, r).mine = c.mine /\ Moved(c, at, r).req = c.req /\ Moved(c, at, r).at = at
  BY DEF Moved
<1>3. CASE \E at, r : Continue(c, at, r) /\ at # "ok"
  <2>1. PICK at, r : Continue(c, at, r) /\ at # "ok"
    BY <1>3
  <2>2. calls' = (calls \ {c}) \cup {Moved(c, at, r)} /\ served' = served
    BY <2>1 DEF Continue
  <2>3. OneCall'
    <3>1. \A d \in calls' : d \in calls \ {c} \/ d = Moved(c, at, r)
      BY Zenon, <2>2
    <3>2. Moved(c, at, r).mine = c.mine /\ Moved(c, at, r).req = c.req
      BY Zenon, <1>2
    <3> QED
      BY Zenon, <3>1, <3>2, OneCallKept DEF OrderInv
  <2>4. CarriedOut' = CarriedOut
    BY <1>2, <2>1, <2>2 DEF CarriedOut
  <2> QED
    BY <2>2, <2>3, <2>4 DEF OrderInv, InPlace
<1>4. ASSUME NEW ok \in BOOLEAN, Reply(c, ok), ~(c.mine /\ ok) PROVE OrderInv'
  <2>1. served' = served /\ \A d \in calls' : d \in calls \ {c} \/ (c.mine /\ d = Moved(c, "error", None))
    BY Zenon, <1>4 DEF Reply
  <2>2. OneCall'
    <3>1. \A d \in calls' : d \in calls \ {c} \/ d = Moved(c, "error", None)
      BY Zenon, <2>1
    <3>2. Moved(c, "error", None).mine = c.mine /\ Moved(c, "error", None).req = c.req
      BY Zenon, <1>2
    <3> QED
      BY Zenon, <3>1, <3>2, OneCallKept DEF OrderInv
  <2>3. calls \ {c} \subseteq calls'
    BY Zenon, <1>4 DEF Reply
  <2>4. CarriedOut' = CarriedOut
    BY <1>2, <2>1, <2>3 DEF CarriedOut
  <2> QED
    BY <2>1, <2>2, <2>4 DEF OrderInv, InPlace
<1>5. ASSUME Reply(c, TRUE), c.mine PROVE OrderInv'
  <2>1. served' = Append(served, c.req) /\ calls' = (calls \ {c}) \cup {Moved(c, "ok", None)}
    BY Zenon, <1>5 DEF Reply
  <2>2. OneCall'
    <3>1. \A d \in calls' : d \in calls \ {c} \/ d = Moved(c, "ok", None)
      BY Zenon, <2>1
    <3>2. Moved(c, "ok", None).mine = c.mine /\ Moved(c, "ok", None).req = c.req
      BY Zenon, <1>2
    <3> QED
      BY Zenon, <3>1, <3>2, OneCallKept DEF OrderInv
  <2>3. ~CarriedOut /\ CarriedOut' /\ c.req = Head(cli.todo) /\ cli.todo # <<>>
    BY Zenon, <1>2, <1>5, <2>1 DEF OrderInv, OneCall, CarriedOut
  <2>4. PICK k \in Nat : LeftOf(Requests(cli.command), k, cli.todo) /\ FirstOf(Requests(cli.command), k, served)
    BY Zenon, <2>3 DEF OrderInv, InPlace
  <2>5. FirstOf(Requests(cli.command), k + 1, served')
    BY Zenon, <2>1, <2>3, <2>4, OneMore
  <2>6. InPlace'
    BY Zenon, <2>3, <2>4, <2>5 DEF OrderInv, InPlace, Requests
  <2> QED
    BY <2>2, <2>6 DEF OrderInv
<1> QED
  BY Zenon, <1>3, <1>4, <1>5

\* A client that does not run has no requests.
LEMMA NoRequests == NoRun.todo = <<>> /\ Requests(NoRun.command) \in Seq(AnyRequest)
<1>1. NoRun.todo = <<>> /\ NoRun.command = [dump |-> <<>>, address |-> <<>>, forward |-> <<>>]
  BY DEF NoRun
<1>2. Requests(NoRun.command) = <<>> \o <<>> \o <<>>
  BY <1>1 DEF Requests
<1>3. <<>> \in Seq(AnyRequest)
  OBVIOUS
<1>4. <<>> \o <<>> \o <<>> \in Seq(AnyRequest)
  BY <1>3, ConcatProperties
<1> QED
  BY <1>1, <1>2, <1>4

\* Nothing was carried out for a client that does not run.
LEMMA OrderNoRun ==
  ASSUME cli' = NoRun, served' = <<>>
  PROVE  InPlace'
<1>1. Requests(cli.command)' = Requests(NoRun.command)
  BY DEF Requests
<1> QED
  BY <1>1, NoRequests DEF InPlace

\* The client takes the answer of its call.
LEMMA OrderAnswer ==
  ASSUME OrderInv, NEW c \in calls, Answered(c)
  PROVE  OrderInv'
<1>1. c.mine /\ c.at \in {"ok", "error"} /\ calls' = calls \ {c} /\ cli.todo # <<>>
  BY DEF Answered, OrderInv, OneCall
<1>2. \A d \in calls' : d.mine \in BOOLEAN /\ ~d.mine
  BY Zenon, <1>1 DEF OrderInv, OneCall
<1>3. OneCall' /\ ~CarriedOut'
  BY Zenon, <1>2 DEF OneCall, CarriedOut
<1> DEFINE rest == IF c.at = "ok" THEN Tail(cli.todo) ELSE <<>>
<1>4. Proceed(rest)
  BY DEF Answered
<1>5. CASE rest = <<>>
  <2>1. cli' = NoRun /\ served' = <<>>
    BY <1>4, <1>5 DEF Proceed
  <2>2. InPlace'
    BY Zenon, <2>1, OrderNoRun
  <2> QED
    BY Zenon, <1>3, <2>2 DEF OrderInv
<1>6. CASE rest # <<>>
  <2>1. c.at = "ok" /\ rest = Tail(cli.todo)
    BY <1>6
  <2>2. cli' = [cli EXCEPT !.waits = FALSE, !.todo = rest] /\ served' = served
    BY <1>4, <1>6 DEF Proceed
  <2>3. PICK k \in Nat : /\ LeftOf(Requests(cli.command), k, cli.todo)
                         /\ FirstOf(Requests(cli.command), k + 1, served)
    BY Zenon, <1>1, <2>1 DEF OrderInv, InPlace, CarriedOut
  <2>4. LeftOf(Requests(cli.command), k + 1, rest)
    BY Zenon, <1>1, <2>1, <2>3, OneLess
  <2> HIDE DEF rest
  <2>5. cli'.todo = rest /\ cli'.command = cli.command
    BY <2>2
  <2>6. k + 1 \in Nat
    OBVIOUS
  <2>7. InPlace'
    BY Zenon, <1>3, <1>6, <2>2, <2>3, <2>4, <2>5, <2>6 DEF OrderInv, InPlace, Requests
  <2> QED
    BY <1>3, <2>7 DEF OrderInv
<1> QED
  BY <1>5, <1>6

\* The client gives its call up and ends.
LEMMA OrderDeadline ==
  ASSUME OrderInv, NEW c \in calls, Deadline(c)
  PROVE  OrderInv'
<1> DEFINE e == [c EXCEPT !.mine = FALSE]
<1>1. c.mine /\ calls' = (calls \ {c}) \cup {e} /\ cli' = NoRun /\ served' = <<>>
  BY DEF Deadline, Proceed
<1>2. e.mine = FALSE
  BY DEF OrderInv, OneCall
<1> HIDE DEF e
<1>3. \A d \in calls' : d.mine \in BOOLEAN /\ ~d.mine
  BY Zenon, <1>1, <1>2 DEF OrderInv, OneCall
<1>4. OneCall'
  BY Zenon, <1>3 DEF OneCall
<1>5. InPlace'
  BY Zenon, <1>1, OrderNoRun
<1> QED
  BY Zenon, <1>4, <1>5 DEF OrderInv

\* The client starts with the whole list, and makes a call of what is first.
LEMMA OrderClient ==
  ASSUME ServiceInv, OrderInv, Call \/ \E command \in Command : RunClient(command)
  PROVE  OrderInv'
<1>1. CASE Call
  <2> DEFINE e == [req |-> Head(cli.todo), at |-> "new", mine |-> TRUE, rule |-> None]
  <2>1. /\ cli.todo # <<>> /\ ~cli.waits /\ calls' = calls \cup {e} /\ served' = served
        /\ cli' = [cli EXCEPT !.waits = TRUE]
    BY <1>1 DEF Call
  <2>2. e.mine = TRUE /\ e.req = Head(cli.todo) /\ e.at = "new"
    OBVIOUS
  <2>3. cli'.waits /\ cli'.todo = cli.todo /\ cli'.command = cli.command
    BY <2>1
  <2> HIDE DEF e
  <2>4. \A d \in calls : d.mine \in BOOLEAN /\ ~d.mine
    BY Zenon, <2>1 DEF OrderInv, OneCall
  <2>5. OneCall'
    <3>1. \A d \in calls' : d.mine \in BOOLEAN
      BY Zenon, <2>1, <2>2, <2>4
    <3>2. \A d \in calls' : d.mine => d = e
      BY Zenon, <2>1, <2>4
    <3> QED
      BY Zenon, <2>1, <2>2, <2>3, <3>1, <3>2 DEF OneCall
  <2>6. ~CarriedOut /\ ~CarriedOut'
    <3>1. ~CarriedOut
      BY Zenon, <2>4 DEF CarriedOut
    <3>2. ASSUME NEW d \in calls', d.mine, d.at = "ok" PROVE FALSE
      BY <2>1, <2>2, <2>4, <3>2
    <3> QED
      BY Zenon, <3>1, <3>2 DEF CarriedOut
  <2>7. InPlace'
    BY <2>1, <2>3, <2>6 DEF OrderInv, InPlace, Requests
  <2> QED
    BY <2>5, <2>7 DEF OrderInv
<1>2. ASSUME NEW command \in Command, RunClient(command) PROVE OrderInv'
  <2>1. /\ cli.todo = <<>> /\ calls' = calls /\ served' = served
        /\ cli' = [todo |-> Requests(command), waits |-> FALSE, command |-> command]
    BY <1>2 DEF RunClient
  <2>2. served = <<>> /\ \A d \in calls : d.mine \in BOOLEAN /\ ~d.mine
    BY Zenon, <2>1 DEF OrderInv, OneCall, InPlace
  <2>3. OneCall' /\ ~CarriedOut'
    BY Zenon, <2>1, <2>2 DEF OneCall, CarriedOut
  <2> DEFINE all == Requests(command)
  <2>4. all \in Seq(AnyRequest) /\ cli'.todo = all /\ cli'.command = command
    BY <2>1, RequestsOf
  <2>5. Requests(cli'.command) = all
    BY <2>4
  <2> HIDE DEF all
  <2>6. LeftOf(all, 0, all)
    BY <2>4 DEF LeftOf
  <2>7. FirstOf(all, 0, <<>>)
    BY <2>4 DEF FirstOf
  <2>8. InPlace'
    BY Zenon, <2>1, <2>2, <2>3, <2>4, <2>5, <2>6, <2>7 DEF InPlace, Requests
  <2> QED
    BY <2>3, <2>8 DEF OrderInv
<1> QED
  BY <1>1, <1>2

\* Every step keeps the place of the client in its list.
LEMMA OrderStep ==
  ASSUME ServiceInv, OrderInv, [ServiceNext]_<<vars, service>>
  PROVE  OrderInv'
<1>1. ASSUME cli' = cli, calls' = calls, served' = served PROVE OrderInv'
  BY <1>1 DEF OrderInv, OneCall, InPlace, CarriedOut, Requests
<1>2. CASE \/ ReadConfig \/ Offload \/ InitFlows \/ Start \/ PublicAddress \/ Loop
           \/ UNCHANGED <<vars, service>>
  BY <1>1, <1>2 DEF ReadConfig, Offload, InitFlows, Start, PublicAddress, Loop, service
<1>3. ASSUME NEW c \in calls, ControlDump(c) PROVE OrderInv'
  BY Zenon, <1>3, OrderServer DEF ControlDump, CallAt
<1>4. ASSUME NEW c \in calls, CheckForward(c) PROVE OrderInv'
  <2>1. Reply(c, FALSE) \/ Continue(c, "store", Completed(convertForwardedPort(c.req)))
    BY Zenon, <1>4 DEF CheckForward
  <2>2. "store" # "ok"
    OBVIOUS
  <2> QED
    BY Zenon, <1>4, <2>1, <2>2, OrderServer DEF CheckForward, CallAt
<1>5. ASSUME NEW c \in calls, StoreForward(c) PROVE OrderInv'
  BY Zenon, <1>1, <1>5, OrderServer DEF StoreForward, CallAt
<1>6. ASSUME NEW c \in calls, ChangeAddress(c) PROVE OrderInv'
  <2>1. Reply(c, FALSE) \/ \E k : Continue(c, "args", k)
    BY Zenon, <1>6 DEF ChangeAddress
  <2>2. "args" # "ok"
    OBVIOUS
  <2> QED
    BY Zenon, <1>6, <2>1, <2>2, OrderServer DEF ChangeAddress, CallAt
<1>8. ASSUME NEW c \in calls, ChangeArgs(c) PROVE OrderInv'
  <2>1. "link" # "ok" /\ c.at # "ok"
    BY <1>8 DEF ChangeArgs, CallAt
  <2> QED
    BY Zenon, <1>8, <2>1, OrderServer DEF ChangeArgs
<1>7. ASSUME NEW c \in calls, NEW del \in BOOLEAN, NEW add \in BOOLEAN, ChangeLink(c, del, add)
      PROVE  OrderInv'
  <2>1. acquired' \in BOOLEAN /\ Reply(c, acquired') /\ c.at # "ok" /\ cli' = cli
    BY <1>7 DEF ChangeLink, RpcLink, CallAt
  <2> QED
    BY Zenon, <2>1, OrderServer
<1> QED
  BY <1>2, <1>3, <1>4, <1>5, <1>6, <1>7, <1>8, OrderAnswer, OrderDeadline, OrderClient DEF ServiceNext

\* What was carried out for a client is a beginning of the list of its requests in
\* the documented order, whatever the command line, the answers and the deadline.
THEOREM RequestsInOrder == ServiceSpec => []InOrder
<1>1. ServiceInit => OrderInv
  <2> SUFFICES ASSUME ServiceInit PROVE OrderInv
    OBVIOUS
  <2>1. cli = NoRun /\ calls = {} /\ served = <<>>
    BY Zenon DEF ServiceInit
  <2> QED
    BY <2>1, NoRequests DEF OrderInv, OneCall, InPlace
<1>2. OrderInv => InOrder
  <2> SUFFICES ASSUME OrderInv
               PROVE  /\ Len(served) <= Len(Requests(cli.command))
                      /\ \A n \in DOMAIN served : served[n] = Requests(cli.command)[n]
    BY Zenon DEF InOrder, Requests
  <2> DEFINE all == Requests(cli.command)
  <2>1. CASE cli.todo = <<>>
    <3>1. served = <<>>
      BY <2>1 DEF OrderInv, InPlace
    <3>2. Len(all) \in Nat
      BY DEF OrderInv, InPlace
    <3> QED
      BY <3>1, <3>2
  <2>2. CASE cli.todo # <<>>
    <3>1. PICK k : FirstOf(all, k, served)
      BY Zenon, <2>2 DEF OrderInv, InPlace
    <3> HIDE DEF all
    <3>2. Len(served) <= Len(all) /\ \A n \in DOMAIN served : served[n] = all[n]
      BY <3>1 DEF FirstOf
    <3> QED
      BY <3>2 DEF all
  <2> QED
    BY <2>1, <2>2
<1> QED
  BY <1>1, <1>2, OrderStep, ServiceInvariant, PTL DEF ServiceSpec

-----------------------------------------------------------------------------

\* Once CheckHWOffloading was called, hardware is left to compute checksums
\* only if all ports do.
Offloaded == main.stage \in {"config", "failed", "offload"} \/ (main.hw => config.capable = Side)

\* CheckHWOffloading is the only place that decides.
LEMMA OffloadedStep ==
  ASSUME ServiceInv, Offloaded, [ServiceNext]_<<vars, service>>
  PROVE  Offloaded'
<1>1. CASE main' = main /\ config' = config
  BY <1>1 DEF Offloaded
<1>2. CASE ReadConfig
  BY <1>2 DEF ReadConfig, ServiceInv, Read, Offloaded
<1>3. CASE Offload
  BY Zenon, <1>3 DEF Offload, ServiceInv, Read, Offloaded, CheckHWOffloading
<1>4. CASE InitFlows \/ Start \/ PublicAddress
  BY <1>4 DEF InitFlows, Start, PublicAddress, ServiceInv, Read, Offloaded
<1>5. ASSUME NEW c \in calls, StoreForward(c) PROVE Offloaded'
  BY Zenon, <1>5 DEF StoreForward, CallAt, Serving, ServiceInv, Read, Offloaded
<1>6. CASE Loop \/ Call \/ UNCHANGED <<vars, service>>
  BY <1>1, <1>6 DEF Loop, Call, service
<1>7. ASSUME NEW command \in Command, RunClient(command) PROVE Offloaded'
  BY <1>1, <1>7 DEF RunClient
<1>8. ASSUME NEW c \in calls,
             \/ Answered(c) \/ Deadline(c) \/ ControlDump(c) \/ CheckForward(c)
             \/ ChangeAddress(c) \/ ChangeArgs(c) \/ \E del, add \in BOOLEAN : ChangeLink(c, del, add)
      PROVE  Offloaded'
  BY Zenon, <1>1, <1>8 DEF Answered, Deadline, ControlDump, CheckForward, ChangeAddress, ChangeArgs,
     ChangeLink
<1> QED
  BY <1>2, <1>3, <1>4, <1>5, <1>6, <1>7, <1>8 DEF ServiceNext

\* No packet leaves with a checksum that nobody computes, unless -nocsum says so,
\* for every mixture of ports with and without the capability.
THEOREM ChecksumsDone == ServiceSpec => []ChecksumsComplete
<1>1. ServiceInit => Offloaded
  BY SMTT(30) DEF ServiceInit, Offloaded
<1>2. Offloaded => ChecksumsComplete
  <2> SUFFICES ASSUME Offloaded, Serving, config.csum,
                      NEW ipv6 \in BOOLEAN, NEW l4 \in {"tcp", "udp", "icmp"},
                      NEW h \in {"l3", "l4"}
               PROVE  \/ setChecksum(ipv6, l4)[h] \in {"absent", "software"}
                      \/ setChecksum(ipv6, l4)[h] = "hardware" /\ config.capable = Side
    BY DEF ChecksumsComplete
  <2>1. main.hw => config.capable = Side
    BY DEF Offloaded, Serving
  <2>2. CASE main.hw
    BY SMTT(30), <2>1, <2>2 DEF setChecksum
  <2>3. CASE ~main.hw
    BY SMTT(30), <2>3 DEF setChecksum
  <2> QED
    BY <2>2, <2>3
<1>3. ServiceInv /\ Offloaded /\ [ServiceNext]_<<vars, service>> => Offloaded'
  BY OffloadedStep
<1> QED
  BY <1>1, <1>2, <1>3, ServiceInvariant, PTL DEF ServiceSpec

-----------------------------------------------------------------------------

\* A request whose kind is "address" sets one of the addresses Manual.
LEMMA AddressKind ==
  ASSUME NEW o \in AnyRequest, o.kind = "address"
  PROVE  o.addr \in Manual
<1>1. o \in AddressRequest
  BY DEF AnyRequest, DumpRequest, ForwardRequest
<1> QED
  BY <1>1 DEF AddressRequest

\* What main, the client and the server do to the private port are steps of
\* sendDHCPRequests and of ChangeInterfaceAddress.
LEMMA PortStep ==
  ASSUME ServiceInv, [ServiceNext]_<<vars, service>>
  PROVE  [Next]_vars
<1>1. CASE UNCHANGED vars
  BY <1>1
<1>2. CASE Loop
  BY Zenon, <1>2 DEF Loop, Next
<1>3. ASSUME NEW c \in calls, ChangeAddress(c) PROVE [Next]_vars
  <2>1. c.req.addr \in Manual
    BY <1>3, AddressKind DEF ChangeAddress, CallAt, ServiceInv, Pending, Accepted
  <2>2. (\E k \in Caller : RpcAddr(k, c.req.addr)) \/ UNCHANGED vars
    BY Zenon, <1>3 DEF ChangeAddress
  <2> QED
    BY Zenon, <2>1, <2>2 DEF Next
<1>4. ASSUME NEW c \in calls, NEW del \in BOOLEAN, NEW add \in BOOLEAN,
             ChangeArgs(c) \/ ChangeLink(c, del, add)
      PROVE  [Next]_vars
  <2>1. c.rule \in Caller
    BY <1>4 DEF ChangeArgs, ChangeLink, CallAt, ServiceInv, Pending, Fit
  <2>2. RpcArgs(c.rule) \/ RpcLink(c.rule, del, add)
    BY Zenon, <1>4 DEF ChangeArgs, ChangeLink
  <2> QED
    BY Zenon, <2>1, <2>2 DEF Next
<1>5. CASE ReadConfig \/ Offload \/ InitFlows \/ Start \/ PublicAddress \/ Call
  BY <1>1, <1>5 DEF ReadConfig, Offload, InitFlows, Start, PublicAddress, Call
<1>6. ASSUME NEW command \in Command, RunClient(command) PROVE [Next]_vars
  BY <1>1, <1>6 DEF RunClient
<1>7. ASSUME NEW c \in calls,
             Answered(c) \/ Deadline(c) \/ ControlDump(c) \/ CheckForward(c) \/ StoreForward(c)
      PROVE  [Next]_vars
  BY Zenon, <1>1, <1>7 DEF Answered, Deadline, ControlDump, CheckForward, StoreForward
<1> QED
  BY Zenon, <1>1, <1>2, <1>3, <1>4, <1>5, <1>6, <1>7 DEF ServiceNext

\* The private port of the program is a port of module AddressClient: what is
\* proved there holds in the program, whatever commands it gets.
THEOREM ServesPort == ServiceSpec => Spec
<1>1. ServiceInit => Init
  BY DEF ServiceInit
<1>2. ServiceInv /\ [ServiceNext]_<<vars, service>> => [Next]_vars
  BY PortStep
<1> QED
  BY <1>1, <1>2, ServiceInvariant, PTL DEF ServiceSpec, Spec

\* With addresses from the configuration and from commands, the KNI interface
\* has the address of its port when kniAddressSet says so, in the whole program,
\* unless two commands set an address at the same time.
THEOREM ServiceKNI ==
  ASSUME Lease = {}
  PROVE  ServiceSpec => []KNIAgrees
  BY KNITrue, ServesPort, PTL
=============================================================================
