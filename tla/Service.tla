------------------------------ MODULE Service -------------------------------
(***************************************************************************)
(* The program around one pair of ports: main (nat.go) with ReadConfig     *)
(* and InitFlows (nat/config.go), the GRPC server (nat/grpc.go) and the    *)
(* command line client (client/client.go) that controls it.                *)
(*                                                                         *)
(* The private port's address, its KNI interface and the requests that     *)
(* change the address are those of module AddressClient; the public port   *)
(* has an address of its own, from the configuration or from DHCP.  The    *)
(* client makes one call after the other under one deadline; a call whose  *)
(* answer it does not wait for any longer is served all the same.          *)
(***************************************************************************)
EXTENDS AddressClient, Sequences

CONSTANTS
  Config,       \* configuration files, with the options of main: see ReadConfig
  Command,      \* command lines of the client, with the requests of each kind
  Host,         \* addresses of private hosts
  Inside,       \* hosts in the subnet of each address of the private port
  MaxCalls      \* bound on the calls at the server

ASSUME InsideAssumption ==
  Inside \in [Addr -> SUBSET Host] /\ ZeroAddr \notin Host /\ Inside[ZeroAddr] = Host

portEnd == 65500
Uint8(n) == n % 256
Uint16(n) == n % 65536

\* Names of protocols: updatecfg.Protocol_value, and protocolIdLookup.
IPv6Flag == 65536
ProtocolValue == [TCP |-> 6, UDP |-> 17, IPv6_Flag |-> IPv6Flag, TCP6 |-> IPv6Flag + 6]
protocolIdLookup == [TCP |-> [id |-> 6, ipv6 |-> FALSE], UDP |-> [id |-> 17, ipv6 |-> FALSE],
                     TCP6 |-> [id |-> 6, ipv6 |-> TRUE]]

Side == {"private", "public"}

\* Rules: protocol, port, and host and port of the destination.
Rule == [protocol : [id : Nat, ipv6 : BOOLEAN], port : Nat, host : Host \cup {ZeroAddr},
         ipv6 : BOOLEAN, tport : Nat]

\* Requests of the client; "none" is an index that no port has.
DumpRequest == [kind : {"dump"}]
AddressRequest == [kind : {"address"}, index : {"private", "none"}, addr : Manual]
ForwardRequest ==
  [kind : {"forward"}, enable : BOOLEAN, index : {"private", "public", "none"},
   protocol : DOMAIN ProtocolValue, port : Nat, host : Host \cup {ZeroAddr},
   ipv6 : BOOLEAN, tport : Nat]

ASSUME ConfigAssumption ==
  \A c \in Config : c.rules \in [Side -> SUBSET Rule] /\ c.hwcsum \in BOOLEAN /\ c.csum \in BOOLEAN

ASSUME CommandAssumption ==
  \A c \in Command : /\ c.dump \in Seq(DumpRequest)
                     /\ c.address \in Seq(AddressRequest)
                     /\ c.forward \in Seq(ForwardRequest)

VARIABLES
  main,     \* stage of main, what CheckHWOffloading found, address of the public port
  config,   \* the configuration
  rules,    \* entries of both tables that enableStaticPortForward stored
  cli,      \* the client: requests left and whether it waits for an answer
  calls,    \* calls at the server
  served,   \* requests of this client that were carried out (history)
  asked     \* rules of the configuration and of commands (history)

service == <<main, config, rules, cli, calls, served, asked>>

KNIName(s) == IF s = "private" THEN HasKNI ELSE config.pubKNI

-----------------------------------------------------------------------------
(* Rules of the tables.                                                    *)

\* A rule to the zero address leads to the KNI interface of the port; any other
\* one is for the public port and leads into the subnet of the private one.
\* No IPv6 subnet is configured: its mask is zero and every address is inside.
checkPortForwarding(s, r) ==
  /\ r.ipv6 = r.protocol.ipv6
  /\ IF r.host = ZeroAddr THEN KNIName(s) /\ r.tport = r.port
     ELSE s = "public" /\ (r.ipv6 \/ r.host \in Inside[addr])

\* A missing target port is the port itself.
Completed(r) == IF r.host # ZeroAddr /\ r.tport = 0 THEN [r EXCEPT !.tport = r.port] ELSE r

\* An entry of the table of side s.  Addresses of IPv4 and IPv6 are keys of
\* different types, so the whole protocol tells entries apart.
Entry(s, protocol, key, value) == [side |-> s, protocol |-> protocol, key |-> key, value |-> value]

\* Address of the port and port number, as they are at the time of the call.
Own(s, r) == <<IF r.protocol.ipv6 THEN ZeroAddr ELSE IF s = "private" THEN addr ELSE main.pub, r.port>>

Target(r) == <<r.host, r.tport>>

Forward(s, r) == Entry(s, r.protocol, Own(s, r), Target(r))

\* What enableStaticPortForward stores: a rule that leads to a host also gets
\* the way back, in the other table.
Enabled(s, r) ==
  {Forward(s, r)} \cup
    (IF r.host = ZeroAddr THEN {}
     ELSE {Entry(o, r.protocol, Target(r), Own(s, r)) : o \in Side \ {s}})

SameKey(e, f) == e.side = f.side /\ e.protocol = f.protocol /\ e.key = f.key

Put(entries, new) == {e \in entries : \A f \in new : ~SameKey(e, f)} \cup new

\* deletePortForwardingEntry takes an entry out of the private table,
\* deleteOldConnection one out of the public table and the one it leads to.
Deleted(entries, s, r) ==
  LET old == {e \in entries : SameKey(e, Forward(s, r))}
      back == {e \in entries : /\ s = "public" /\ e.side = "private"
                               /\ \E o \in old : e.protocol = o.protocol /\ e.key = o.value}
  IN  entries \ (old \cup back)

\* The functions above index the portmap of the public port, of length portEnd.
PastPortmap(s, r) == s = "public" /\ r.port >= portEnd

-----------------------------------------------------------------------------
(* main *)

\* config: vlan, the sides with a VLAN tag; pubKNI, the public port has a
\* kni-name; pubDhcp, its subnet is "dhcp"; hostName; rules, those of each
\* port, in a set, one for a port number and protocol; csum and hwcsum, -nocsum
\* and -nohwcsum are not given; capable, the sides whose port computes checksums.
ReadConfigOk ==
  /\ config.vlan \in {{}, Side}
  /\ ~("private" \in config.vlan /\ HasKNI)
  /\ InitAddr = ZeroAddr \/ config.pubDhcp => config.hostName
  /\ \A s \in Side : \A r \in config.rules[s] : checkPortForwarding(s, r)

NeedDHCP == InitAddr = ZeroAddr \/ config.pubDhcp

\* Fault: one port with the capability is enough.
CheckHWOffloadingAny == config.capable # {}

CheckHWOffloading == config.capable = Side

\* The client is not running.
NoRun == [todo |-> <<>>, waits |-> FALSE,
          command |-> [dump |-> <<>>, address |-> <<>>, forward |-> <<>>]]

ServiceInit ==
  /\ Init
  /\ config \in Config
  /\ main = [stage |-> "config", hw |-> config.hwcsum,
             pub |-> IF config.pubDhcp THEN ZeroAddr ELSE "public"]
  /\ rules = {} /\ cli = NoRun
  /\ calls = {} /\ served = <<>>
  /\ asked = UNION {{[side |-> s, protocol |-> r.protocol, port |-> r.port,
                      host |-> r.host, tport |-> r.tport] : r \in config.rules[s]} : s \in Side}

Serving == main.stage \in {"ports", "run"}

ReadConfig ==
  /\ main.stage = "config"
  /\ main' = [main EXCEPT !.stage = IF ReadConfigOk THEN "offload" ELSE "failed"]
  /\ UNCHANGED <<vars, config, rules, cli, calls, served, asked>>

Offload ==
  /\ main.stage = "offload"
  /\ main' = [main EXCEPT !.stage = "flows", !.hw = @ /\ CheckHWOffloading]
  /\ UNCHANGED <<vars, config, rules, cli, calls, served, asked>>

\* InitFlows stores the rules of the private and then of the public port in the
\* empty tables.  Of two rules with one target, the later has the way back.
InitFlows ==
  /\ main.stage = "flows"
  /\ IF \E s \in Side : \E r \in config.rules[s] : PastPortmap(s, r)
     THEN main' = [main EXCEPT !.stage = "panic"] /\ UNCHANGED rules
     ELSE /\ main' = [main EXCEPT !.stage = "grpc"]
          /\ LET all(s) == {Completed(r) : r \in config.rules[s]}
                 back == UNION {Enabled("public", r) \ {Forward("public", r)} : r \in all("public")}
             IN  \E kept \in SUBSET back :
                   /\ \A e \in back : Cardinality({f \in kept : SameKey(e, f)}) = 1
                   /\ rules' = Put({Forward("private", r) : r \in all("private")},
                                   {Forward("public", r) : r \in all("public")} \cup kept)
  /\ UNCHANGED <<vars, config, cli, calls, served, asked>>

\* StartGRPCServer, then SystemInitPortsAndMemory, then the DHCP client: the
\* server takes requests before the ports are initialized.
Start ==
  /\ main.stage \in {"grpc", "ports"}
  /\ main' = [main EXCEPT !.stage = IF @ = "grpc" THEN "ports" ELSE "run"]
  /\ UNCHANGED <<vars, config, rules, cli, calls, served, asked>>

\* The DHCP client of the public port gets its address.
PublicAddress ==
  /\ main.stage = "run" /\ main.pub = ZeroAddr
  /\ main' = [main EXCEPT !.pub = "public"]
  /\ UNCHANGED <<vars, config, rules, cli, calls, served, asked>>

\* Who computes the checksums of the IP header and of the one above when the
\* addresses and ports of a packet are replaced.  IPv6 has no header checksum;
\* the one of ICMP is always computed here.
setChecksum(ipv6, l4) ==
  LET by == IF ~config.csum THEN "nobody" ELSE IF main.hw THEN "hardware" ELSE "software"
  IN  [l3 |-> IF ipv6 THEN "absent" ELSE by,
       l4 |-> IF l4 = "icmp" /\ config.csum THEN "software" ELSE by]

\* sendDHCPRequests, if main started it.
Loop ==
  /\ main.stage = "run" /\ (NeedDHCP \/ SetKniIP)
  /\ Wake \/ LoopStep
  /\ UNCHANGED service

-----------------------------------------------------------------------------
(* The client.  The options of the command line are collected by kind.     *)

\* Fault: 32 bits of a port number are read.
Parses32(o) == TRUE

\* The Set functions: a port number has 16 bits.
Parses(o) == o.port < 65536 /\ o.tport < 65536

\* The three loops of main in client.go.
Requests(command) == command.dump \o command.address \o command.forward

\* The rule that an option names, if it names a protocol.
Asked(o) == [side |-> o.index, protocol |-> protocolIdLookup[o.protocol], port |-> o.port,
             host |-> o.host, tport |-> o.tport]

RunClient(command) ==
  LET forward == {command.forward[i] : i \in DOMAIN command.forward}
  IN  /\ cli.todo = <<>> /\ Serving /\ Cardinality(calls) < MaxCalls
      /\ \A o \in forward : Parses(o)
      /\ cli' = [todo |-> Requests(command), waits |-> FALSE, command |-> command]
      /\ asked' = asked \cup {Asked(o) : o \in {f \in forward : f.protocol \in DOMAIN protocolIdLookup}}
      /\ UNCHANGED <<vars, main, config, rules, calls, served>>

Call ==
  /\ cli.todo # <<>> /\ ~cli.waits /\ Serving
  /\ calls' = calls \cup {[req |-> Head(cli.todo), at |-> "new", mine |-> TRUE, rule |-> None]}
  /\ cli' = [cli EXCEPT !.waits = TRUE]
  /\ UNCHANGED <<vars, main, config, rules, served, asked>>

\* The client goes on to the next request or ends.
Proceed(rest) ==
  /\ cli' = IF rest = <<>> THEN NoRun ELSE [cli EXCEPT !.waits = FALSE, !.todo = rest]
  /\ served' = IF rest = <<>> THEN <<>> ELSE served

\* Fault: the next request is made although one failed.
AnsweredAnyway(c) ==
  /\ c \in calls /\ c.mine /\ c.at \in {"ok", "error"} /\ Serving
  /\ calls' = calls \ {c}
  /\ Proceed(Tail(cli.todo))
  /\ UNCHANGED <<vars, main, config, rules, asked>>

\* log.Fatalf ends the client when a request failed.
Answered(c) ==
  /\ c \in calls /\ c.mine /\ c.at \in {"ok", "error"} /\ Serving
  /\ calls' = calls \ {c}
  /\ Proceed(IF c.at = "ok" THEN Tail(cli.todo) ELSE <<>>)
  /\ UNCHANGED <<vars, main, config, rules, asked>>

\* The deadline of all calls passes; the server goes on with the call.
Deadline(c) ==
  /\ c \in calls /\ c.mine /\ c.at \notin {"ok", "error"} /\ Serving
  /\ calls' = (calls \ {c}) \cup {[c EXCEPT !.mine = FALSE]}
  /\ Proceed(<<>>)
  /\ UNCHANGED <<vars, main, config, rules, asked>>

-----------------------------------------------------------------------------
(* The GRPC server *)

CallAt(c, kind, at) == c \in calls /\ c.req.kind = kind /\ c.at = at /\ Serving

\* The call at another place, with a rule or the request of AddressClient it is.
Moved(c, at, r) == [req |-> c.req, at |-> at, mine |-> c.mine, rule |-> r]

Continue(c, at, r) == calls' = (calls \ {c}) \cup {Moved(c, at, r)} /\ UNCHANGED served

\* An answer that nobody waits for is lost.
Reply(c, ok) ==
  /\ calls' = (calls \ {c}) \cup
       (IF c.mine THEN {Moved(c, IF ok THEN "ok" ELSE "error", None)} ELSE {})
  /\ served' = IF c.mine /\ ok THEN Append(served, c.req) ELSE served

\* ControlDump; the flags are in module Traces.
ControlDump(c) ==
  /\ CallAt(c, "dump", "new")
  /\ Reply(c, TRUE)
  /\ UNCHANGED <<vars, main, config, rules, cli, asked>>

\* Port numbers are cut to 16 bits, the identifier to 8, its flag taken off.
convertForwardedPort(o) ==
  LET p == ProtocolValue[o.protocol]
  IN  [protocol |-> [id |-> Uint8(p), ipv6 |-> p >= IPv6Flag], port |-> Uint16(o.port),
       host |-> o.host, ipv6 |-> o.ipv6, tport |-> Uint16(o.tport)]

\* ChangePortForwarding up to the mutex: the subnet is read without it.
CheckForward(c) ==
  LET s == c.req.index
      r == convertForwardedPort(c.req)
  IN  /\ CallAt(c, "forward", "new")
      /\ IF s \in Side /\ r.protocol.id \in {6, 17} /\ checkPortForwarding(s, r)
         THEN Continue(c, "store", Completed(r)) ELSE Reply(c, FALSE)
      /\ UNCHANGED <<vars, main, config, rules, cli, asked>>

\* The section under the mutex.
StoreForward(c) ==
  /\ CallAt(c, "forward", "store")
  /\ IF PastPortmap(c.req.index, c.rule)
     THEN main' = [main EXCEPT !.stage = "panic"] /\ UNCHANGED <<rules, calls, served>>
     ELSE /\ rules' = LET left == Deleted(rules, c.req.index, c.rule)
                     IN  IF c.req.enable THEN Put(left, Enabled(c.req.index, c.rule)) ELSE left
          /\ Reply(c, TRUE)
          /\ UNCHANGED main
  /\ UNCHANGED <<vars, config, cli, asked>>

\* ChangeInterfaceAddress is in module AddressClient.
ChangeAddress(c) ==
  /\ CallAt(c, "address", "new")
  /\ IF c.req.index = "private"
     THEN \E k \in Caller : RpcAddr(k, c.req.addr) /\ Continue(c, "args", k)
     ELSE Reply(c, FALSE) /\ UNCHANGED vars
  /\ UNCHANGED <<main, config, rules, cli, asked>>

ChangeArgs(c) ==
  /\ CallAt(c, "address", "args")
  /\ RpcArgs(c.rule)
  /\ Continue(c, "link", c.rule)
  /\ UNCHANGED <<main, config, rules, cli, asked>>

ChangeLink(c, del, add) ==
  /\ CallAt(c, "address", "link")
  /\ RpcLink(c.rule, del, add)
  /\ Reply(c, acquired')
  /\ UNCHANGED <<main, config, rules, cli, asked>>

-----------------------------------------------------------------------------

ServiceNext ==
  \/ ReadConfig \/ Offload \/ InitFlows \/ Start \/ PublicAddress \/ Loop
  \/ \E command \in Command : RunClient(command)
  \/ Call
  \/ \E c \in calls : \/ Answered(c) \/ Deadline(c) \/ ControlDump(c)
                      \/ CheckForward(c) \/ StoreForward(c) \/ ChangeAddress(c) \/ ChangeArgs(c)
                      \/ \E del, add \in BOOLEAN : ChangeLink(c, del, add)

ServiceSpec == ServiceInit /\ [][ServiceNext]_<<vars, service>>

-----------------------------------------------------------------------------
(* Properties *)

\* "processed in the following order: all dump, all subnet, all port forwarding
\* requests": what was carried out for the client is, at any time, a beginning of
\* this list, each request once, so that one that fails or takes too long stops
\* all later ones.
InOrder ==
  LET all == cli.command.dump \o cli.command.address \o cli.command.forward
  IN  Len(served) <= Len(all) /\ \A n \in DOMAIN served : served[n] = all[n]

\* Entry e is what rule a, with its port and target, makes of the tables: the
\* way there, or the way back from its host.
Follows(e, a) ==
  LET tport == IF a.tport = 0 /\ a.host # ZeroAddr THEN a.port ELSE a.tport
  IN  /\ e.protocol = a.protocol
      /\ IF e.side = a.side THEN e.key[2] = a.port /\ e.value = <<a.host, tport>>
         ELSE a.host # ZeroAddr /\ e.key = <<a.host, tport>> /\ e.value[2] = a.port

\* Every entry of the two tables is one that a rule of the configuration or of a
\* command line makes: same port, protocol, host and target port.  What the
\* widths of the port number and the flag in the protocol cut off on the way, and
\* what deleting and replacing leave over, never turn a rule into another one.
OnlyAskedRules == \A e \in rules : \E a \in asked : Follows(e, a)

\* "Falling back to software checksum calculation": unless checksums are off,
\* a translated packet leaves the program with every checksum computed, or left
\* to hardware that computes it, whatever its protocol and the port it leaves by.
ChecksumsComplete ==
  Serving /\ config.csum =>
    \A ipv6 \in BOOLEAN, l4 \in {"tcp", "udp", "icmp"}, h \in {"l3", "l4"} :
      \/ setChecksum(ipv6, l4)[h] \in {"absent", "software"}
      \/ setChecksum(ipv6, l4)[h] = "hardware" /\ config.capable = Side
=============================================================================
