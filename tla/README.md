# Verification of the NAT

TLA+ specifications of the network address translator in this repository, their
TLC models and TLAPS proofs. `PROJECT.json` lists the components, the runs, the
source lines behind every definition, the hazards and the theorems.

## The system

The program translates between a private and a public network port. A *port
pair* has two lookup tables per protocol (`translationTable`, one per port), the
`portmap` of the public port (age, TCP termination state and static flag of every
port number), `lastport`, and one mutex. These run concurrently:

- `PublicToPrivateTranslation` and `PrivateToPublicTranslation`, packet handlers
  that the framework clones over cores (`nat/translation.go`);
- the GRPC server: forwarding rules, interface addresses, dumps (`nat/grpc.go`),
  which the command line client (`client/client.go`) calls;
- the endless loop of the DHCP client (`nat/dhcp.go`, `nat/dhcp6.go`), whose
  answers arrive in the packet handlers;
- `main` (`nat.go`), which starts all of these after reading the configuration
  and closes the dump files after SIGINT while the handlers go on.

The tables are changed under the mutex, but looked up without it. The address of
a port, its `addressAcquired` flag and the `lastused` times are read and written
without any lock. That is where most hazards of this code come from.

| part | source | module |
|---|---|---|
| translation, port allocation, TCP termination | `translation.go`, `portalloc.go` | `Translation` |
| what the tables promise | | `AbstractNat` |
| forwarding rules among connections | `config.go`, `grpc.go` | `Translation` |
| change of the public address | `grpc.go`, `dhcp.go` | `Translation` |
| DHCP and DHCPv6 client | `dhcp.go`, `dhcp6.go` | `AddressClient` |
| DHCPv6 option encoding | `dhcp6.go` | `DHCPv6Options` |
| interface address request, KNI addresses | `grpc.go`, `util.go` | `AddressClient` |
| ARP, neighbour discovery | `arp.go`, `neigh.go` | `Neighbours` |
| ICMP | `icmp.go` | `Neighbours`, `PacketPath` |
| outputs of the handlers | `translation.go`, `config.go` | `PacketPath` |
| packet dumps | `util.go`, `grpc.go`, `nat.go` | `Traces` |
| program start, configuration, rule validation | `nat.go`, `config.go` | `Service` |
| GRPC server and command line client | `grpc.go`, `client.go` | `Service` |
| who computes checksums | `cksum.go` | `Service` |
| header rewriting, GRPC messages | `util.go`, `updatecfg/` | not modelled |

## Modules

**Translation** is one pair, one protocol and one IP version. The other protocols
have their own tables and appear as `OtherProtocol`, which moves `lastport`.
Every unlocked access of a handler is a step (`PubHit`, `PubCheck`, `PubTouch`,
`PriMiss`, `PriHit`, `PriTouch`, `ReadStatic`). A section under the mutex is one
step, except where it reads something twice that others write without the mutex:
`FindPort` scans the ages, `TakePort` deletes the connection of the port it found,
and `AllocStore` stores the new one under an address read again, as do
`EnableForwarding` and `enableStaticPortForward`. A packet that uses the connection,
or `SetAddress`, can come in between. A private tuple is one value of
`Host`; `KNI` is the target 0.0.0.0. Time is an age in ticks, saturating above
`connectionTimeout`; a cleared entry has the saturated age, like Go's zero time.
The address and its flag change in one step here, and in two in `AddressClient`.

**AddressClient** is one port and one IP version: the loop, any number of handlers and
of `ChangeInterfaceAddress` calls (`Caller`), which take no lock and read the address
they stored again for the kernel call, the kernel's addresses of the KNI interface,
and servers on a network that loses, delays, reorders and duplicates. DHCP and DHCPv6
share it, since their control is the same; `V6` selects the one difference (an
Advertise is checked for its options, an Offer is not). Transaction identifiers are
left out because no handler compares them.

**Neighbours** is what a port does before translation. An IPv4 address has two bytes
here, so that host and network order differ, and two stations may have each other's
swapped address; IPv6 addresses are never swapped, and a solicitation may also be for
the link local address. The state of an ICMP connection is abstracted to none, live or
old.

**AbstractNat** is what a user of the tables may rely on, without threads, locks,
ages or a changing address: private tuples are bound to public ones and released,
and a public tuple is never bound while it leads somewhere. `ImplementsNat` in
`Translation` is its specification with the two lookup tables as its state.

**DHCPv6Options** extends `AddressClient` by the bytes of its messages: the nested
options with `OptionsLen`, `Encode` and `DecodeFromBytes`, the domain name, and the
choice of the address in `handleDHCPv6Reply`. What `AddressClient` says of an answer
(its address, and whether it is good) is what these functions find in its bytes. Each
iteration of their loops is a step: `phase` is the loop that runs, `data` and `offset`
are its variables, and an index or slice outside the data leads to the phase `past`.
`cut` holds the sums of `OptionsLen`, or where in the data each label of a name begins.
The functions share nothing, so one runs at a time, for a message that is on its way.

**PacketPath** is one packet's way through a handler, as a function of what the
handler finds (the record `Found`): the output of the splitter that is returned
and the packets given to `dumpPacket` on the way, the first of which is always the
packet that arrives, in the trace of sent packets. An entry that leads to address 0
is returned to KNI whether or not the port has such an interface, and an index past
the portmap, or into the portmap that a private port does not have (`icmp.go:61`), is a
panic that ends the program. **Traces** runs any number of
handlers over all these ways. `dumpPacket` is four steps (`Check` without a lock,
`Lock`, `startTrace`, `Write`), `ControlDump` switches traces in between, and after
`Signal` main copies the files of a port and closes them one by one.

**Service** extends `AddressClient` by everything around one pair: the stages of
`main`, a configuration out of `Config`, the address of the public port, which DHCP
may assign later, the entries of both tables that rules make, and a client that runs
command lines out of `Command`. An entry has a key and a value, a rule to a host also
has its way back in the other table, and deleting follows the entry that is found
(`Enabled`, `Put`, `Deleted`). `ChangePortForwarding` is two steps, since the check is
outside the mutex. A call whose client passed its deadline stays at the server (`mine
= FALSE`) and is served while the next client runs. Port numbers and protocol
identifiers keep the widths of each conversion (`Uint16`, `Uint8`, the flag of IPv6
protocols). Several `ChangeInterfaceAddress` calls may run at once. The handlers of
DHCP answers are not started here: the private port has an address from the
configuration.

`MCTranslation`, `MCAddressClient`, `MCDHCPv6Options`, `MCNeighbours`, `MCTraces` and
`MCService` hold the values for TLC. The theorems are in `TranslationProofs`,
`MirrorProofs`, `RuleProofs`, `AddressClientProofs`, `OptionsProofs`,
`NeighboursProofs`, `TracesProofs` and `ServiceProofs`. Operators whose comment starts
with "Fault:" are deliberate mistakes, used to see that a property notices them; no
specification contains them.

## Runs that pass

| run | instance | checks |
|---|---|---|
| `tcp_workers` | TCP, 2 hosts, 2 ports, one handler per direction, timeout 2 | `TypeOK`, `ReplyPathExists`, `TablesMirror`, `AllocationSparesLive` |
| `address_change` | 2 hosts, 1 port, 2 addresses, 2 private handlers, 1 public, 1 request | `ReplyPathExists`, `ReleasedBeforeReuse`, `ImplementsNat` |
| `forward_rules` | TCP, one configured rule, one handler per direction, fair | `RulesInForce`, `HandlersReturn` |
| `dhcp_lease` | 2 leases, 1 handler, 3 answers in flight, duplicates | `ClientTypeOK`, `AddressGranted`, `AddressKept` |
| `dhcp_acquired` | DHCPv6, 2 leases, 2 handlers, fair | `AddressAcquired`, `KNIConfigured`, `OptionsRoundTrip`, `FirstAddressTaken`, `NameInBounds` |
| `service` | 8 configurations, 4 command lines, 2 calls at the server, 2 addresses, failing kernel | `KNIAgrees`, `InOrder`, `OnlyAskedRules`, `ChecksumsComplete` |
| `arp_resolved` | IPv4, 3 stations, two of which have each other's swapped address, fair | `NeighboursTypeOK`, `OwnMAC`, `Resolved` |
| `tracing` | a handler on each side, KNI on the private port, the trace of sent packets on, that of KNI packets switched | `TracesTypeOK`, `TracedAsReturned`, `ClosedAtExit`, `TraceKept`, `FatalOnlyAtExit` |

- `ReplyPathExists`: a translated private tuple gets its replies.
- `TablesMirror`: the converse; it needs a single private handler. With two
  clones that look up one private tuple before either stores it, both allocate, and
  the first port is an orphan.
- `AllocationSparesLive`: a port is taken only from a connection that was silent when
  the ports were scanned. A packet that uses it after the scan does not save it.
- `ReleasedBeforeReuse`: a public tuple is cleared before someone else gets it.
- `ImplementsNat`: the tables refine `AbstractNat`.
- `RulesInForce`: traffic, timeouts, TCP termination and allocation never remove a
  configured rule.
- `HandlersReturn`: no handler waits for the mutex for ever.
- `AddressGranted`: only an acknowledged address is used, however late or often an
  answer arrives.
- `KNIAgrees`: `kniAddressSet` is true to the kernel after partial failures, unless two
  address requests ran at the same time: an overlap can leave `addressAcquired` true
  and another address on the interface.
- `OwnMAC`: a station's packets go to its own MAC address, but for the station that has
  its swapped address and was heard.
- `Resolved`: the byte order conversions of request, answer and lookup fit.
- `OptionsRoundTrip`, `FirstAddressTaken`, `NameInBounds`: nested options are decoded
  as they were encoded and nothing is read or written outside a buffer; the first
  address of a good reply is taken, and the client starts over only after a bad one; a
  name is decoded inside whatever data it is in, and none that `Encode` wrote is refused.
  It is not decoded to what was encoded: the dots are lost (`dhcp6.go:318`), and all
  behind an empty label. The program never decodes a name.
- `InOrder`: what was carried out for a client is a beginning of its list of requests
  in the documented order, each once, so none comes after one that failed.
- `OnlyAskedRules`: every entry of both tables is one that a configured or requested
  rule makes; conversions, replacing and deleting never turn a rule into another one.
- `ChecksumsComplete`: the fallback to software covers both ports.
- `TracedAsReturned`: a packet is in the trace of the port it reaches and in that of
  what became of it, once in each that is on all the time, and in no other. The trace
  that the options call "translated (normally sent) packets" (`nat.go:56`) so holds
  every packet that arrives, dropped ones too (`translation.go:73`, `215`).
- `TraceKept`, `ClosedAtExit`, `FatalOnlyAtExit`: no trace is truncated, the files open
  at SIGINT are closed, and a handler can meet a closed file only after SIGINT.

### Bounds

Two hosts competing for one or two ports give exhaustion, reclaiming after the
timeout, wrap-around of the scan, and reuse of a port by another host. A timeout of 1
or 2 ticks separates fresh, old and expired. Port numbers start at 0 and `PortStart`
is 0 in the instances; the theorems hold for any range. Two addresses suffice for a
change between the two reads of a section. Two leases tell an old answer from a new
one, and three answers in flight allow an offer, an acknowledgement and a duplicate at
once. `MaxInFlight` bounds the answers in `Serve`. `MaxCalls = 2` gives a call of a
client and one of a client that gave up; the two values of `Caller` differ in name
only, so the run uses their symmetry. The configurations of `MCService` are accepted,
or refused for their VLAN tags, a missing host name, a target outside the subnet or a
host behind the private port; the command lines add, replace and remove rules of both
ports, name an index that no port has, a protocol that is a flag only, and IPv6. Ports
22, 80, 81, 2222, 65510, 65535 and 65558 lie on both sides of `portEnd` and of 16
bits. In `tracing` one handler per side is enough for two writers of one file, since a
sent packet is dumped on the opposite port; the theorem is for any traces and
switches. The byte sequences in `DHCPv6Options` are the options of the messages on
their way with up to three small options around them, among them a second address, a
second IA_NA and two statuses, names of one and three labels, one of them empty, and
all data of up to three bytes out of 0, 1 and 2 in place of a name.

`AddrReuse = FALSE` in all runs: the public port does not return to an address it
had before. Without that, entries left behind under the old address come back
into use, and a change between the two reads of a section can select one that the
section did not delete. The table theorems assume it explicitly.

### Fairness

- `Translation`: a running handler is scheduled, and a Go mutex reaches every
  waiting goroutine (it hands over in FIFO order after a millisecond), hence
  strong fairness for steps that may wait. No packet need arrive.
- `AddressClient`: the loop and handlers are scheduled; a message repeated for
  ever is received, and answered well, infinitely often; the kernel does not
  refuse for ever. `Timely` adds that a round trip takes longer than storing one
  field and less than `requestInterval`. The run has no duplicated answers. Both
  restrictions are needed: with duplicates TLC shows the exchange starting over
  for ever, since an offer that arrives after the request resets the client.
- `Neighbours`: packets for a station keep coming, and repeated requests and
  answers get through infinitely often.

## Disagreements found

Each run below is expected to fail, on one property that quotes the repository.

| run | property | what TLC shows |
|---|---|---|
| `dhcp_rule_address` | `RuleOfUse` | a configured rule stays under address 0 after DHCP (as in `config-dhcp.json`): it is not found from outside (`ForwardReachable`), and its way back leads to a KNI output the private port does not have (`KNIOnlyIfPresent`) |
| `dhcp_dropped` | `AddressKept` | a handler that read `addressAcquired` early clears the address another one acquired |
| `arp_heard` | `HeardIsKnown` | stations learned from IPv4 packets are stored in network order and never found |
| `icmp_private` | `PortmapExists` | ICMP to a private port with KNI reaches a portmap that only public ports have |

## Proofs

TLAPS proves these for every value of the constants that meets the named
assumptions of the modules: any number of hosts, ports, addresses and threads.

- `TypeCorrect` (`TypeOK`). Inductive invariant `Safe`: `TypeOK` and
  `HandlerState`, which says what a thread holds at each point. Without it the
  port a handler is about to index need not be in the portmap.
- `ReplyPath` (`ReplyPathExists`), for `AddrReuse = FALSE`. `ReplyPathExists` is not
  inductive: `AllocStore` would overwrite an entry in use. `TableInv` adds `MutexHeld`
  (only the holder is inside a section of several steps), `PortReserved` (the port it
  chose is unused under the *current* address) and `NewAddressUnused` (nothing is keyed
  by an address the port never had, so `PortReserved` survives an address change).
- `ReleasedFirst` (`ReleasedBeforeReuse`), an action property, from `Safe` and
  `TableInv`, for `AddrReuse = FALSE`.
- `Refinement` (`ImplementsNat`), for `AddrReuse = FALSE`: each step of `Translation` is
  `Open`, `Close` or a stutter of `AbstractNat`. `PortReserved` is what makes
  `AllocStore` an `Open`.
- `Mirror` (`TablesMirror`) and `SparedConnections` (`AllocationSparesLive`), for one
  private handler, no run time requests for rules and at most one rule per private
  tuple (`Sequential`), since two clones break them. The invariant adds that the
  private tuple a port is being allocated for has no connection yet, and that the port
  found by the scan is not one of a connection that was in use then (`ScanKept`).
- `RulesKept` (`RulesInForce`). `RuleInv` is the rule in both tables and the static flag;
  `RuleSparing` says that no handler is about to delete or replace it.
- `ClientTypeCorrect` (`ClientTypeOK`).
- `GrantedAddresses` (`AddressGranted`), for a port that gets addresses from DHCP
  only. `GrantInv` adds that every good acknowledgement, in flight or in a
  handler's hands, is for a granted address.
- `AddressKeptByOneHandler` (`AddressKept`), for one handler and no requests; the run
  `dhcp_dropped` shows that two handlers break it.
- `KNITrue` (`KNIAgrees`), for a port without leases. `Alone` says what the one request
  under way has in hand while no two have met.
- `NeighboursTypeCorrect` (`NeighboursTypeOK`) and `WhoseMAC` (`OwnMAC`), for any stations.
- `TracesTypeCorrect`, `TracesKept`, `FatalAfterSignal`, `FilesClosed`, for
  any handlers, KNI interfaces and traces. `TInv` has four parts: types; a mutex is
  held by the one worker between `Lock` and `Write`; a file is created only if there
  is none; main closed nothing before the signal, and afterwards what was open is
  closed or still on its list.
- `RulesAsked` (`OnlyAskedRules`), for any configurations and command lines of the types
  in `ConfigAssumption` and `CommandAssumption` and any number of calls. `ServiceInv`
  follows a rule: one in the client or at the server was accepted and recorded as
  asked, one that waits for the mutex is what the request becomes; storing it with its
  way back adds only entries that follow from it (`EnabledFollows`). Lemma `Converted`
  is where the 16 bits of the client and the flag of `convertForwardedPort` meet.
- `ChecksumsDone` (`ChecksumsComplete`).
- `ServesPort`: `Service` implements `AddressClient` for the private port, and so
  `ServiceKNI` (`KNIAgrees`) carries `KNITrue` over to the whole program.
- `RequestsInOrder` (`InOrder`). `InOrder` alone does not say which request comes
  next. `OrderInv` adds that the client has at most one call at the server, for the
  first request left (`OneCall`), and that what was carried out are the requests before
  it, and it too while its answer is on the way (`InPlace`).
- `ReturnsTraced` (`TracedAsReturned`), from the lemma `PassTypes` on every way through
  the handlers: among the dumps of the packet itself each trace of `Due` is once and no
  other one at all. `Noted` carries this from dump to dump: what a trace got and what is
  left to dump add up to one, if the trace was on.
- `DecodesWhatIsEncoded`, `ReplyGivesFirstAddress`, `NameStaysInside` (`OptionsRoundTrip`,
  `FirstAddressTaken`, `NameInBounds`), for options of any number and length below 2^16,
  any options around the address and the IA_NA, and host names of any number of labels
  of 0 to 255 bytes (`OptionsAssumption`). `CodecInv` has one case per loop. While
  `Encode` writes, the options before `turn` are in the buffer where `OptionsLen`
  counted them (`Holds`, `Cuts`) and `offset` is the sum for `turn`, so that writing one
  neither leaves the buffer nor touches the others; while `DecodeFromBytes` reads,
  `offset` is the sum after the options read so far, which are those encoded. The
  lemmas `TwoBytes` and `EncodedOption` are where a number and its two bytes meet;
  `FirstFound` and `NoneFound` say what `getDHCPv6Option` finds. In a name `offset` is
  at the length of a label or at the zero after the last one (`AtLabel`); for any other
  data it is inside, which is what the `+1` of the comparison is for.

Only model-checked: `HeardIsKnown` and the other properties of failing runs, which
do not hold; and all liveness properties (`HandlersReturn`, `AddressAcquired`,
`KNIConfigured`, `Resolved`), which are out of the prover's reach. Every safety
property of the passing runs is proved, some under conditions named above.

## Not modelled

- Reading the configuration: JSON and the `UnmarshalJSON` methods. `Service` starts
  from the record they produce. `hostPort.UnmarshalJSON` reads a destination port with
  32 bits and keeps 16, so a number past 65535 in the file becomes another port.
- `ParseAllKnownL4`, `setPacketSrcPort`, `setPacketDstPort` and the arithmetic of
  checksums: functions of one packet without shared state.
- The generated GRPC code, but for the values of `Protocol`; the connections between
  flows inside the packet framework.
- GRPC requests that change the public address in `Service`; `Translation` has them. No
  IPv6 subnet is configured in `Service`.
- The remote peer: connections of one private socket to several servers share a
  public port and are not told apart.
- The IPv6 link local address on the KNI interface; static ARP mode, which appears
  only as a known MAC address in `PacketPath`.
- Answers whose IA_NA was not made by an encoder like `Encode`: a length inside it that
  leads past the data is not compared with what is left (`dhcp6.go:401`, `450`). This is an
  assumption of the model.
- How long a closed TCP port is kept from reuse: a history of closed ports makes
  `tcp_workers` too large.

Known not to hold in variants of these models, where nothing in the repository
promises it: `TablesMirror` with two private handlers; sparing a connection that is
used between the scan and the deletion; `KNIAgrees` when leases and GRPC requests are
mixed, or when two address requests overlap; refusing a rule for a port from `portEnd`
(65500) on, which `checkPortForwarding` accepts and the portmap does not have; a
rule's reply path when a dynamic connection of the same private tuple exists; a
packet being judged by the age of its own connection rather than of the port's next
user; the target of a stored rule being inside the subnet after an address change.
