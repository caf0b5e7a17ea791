----------------------------- MODULE MCService ------------------------------
(***************************************************************************)
(* A small instance of Service for TLC.                                    *)
(***************************************************************************)
EXTENDS Service, TLC

CONSTANTS h1, h2, m1, m2, zero, k1, k2

Callers == Permutations({k1, k2})

Subnets == [a \in {m1, m2, zero} |-> CASE a = m1 -> {h1} [] a = m2 -> {h2} [] OTHER -> {h1, h2}]

Port(enable, index, protocol, port, host, tport) ==
  [kind |-> "forward", enable |-> enable, index |-> index, protocol |-> protocol,
   port |-> port, host |-> host, ipv6 |-> FALSE, tport |-> tport]

Address(index, a) == [kind |-> "address", index |-> index, addr |-> a]

Dump == [kind |-> "dump"]

Line(dump, address, forward) == [dump |-> dump, address |-> address, forward |-> forward]

Commands ==
  { Line(<<Dump>>, <<Address("private", m2)>>,
         <<Port(TRUE, "public", "UDP", 80, h2, 0),
           [Port(TRUE, "public", "TCP6", 65510, h1, 22) EXCEPT !.ipv6 = TRUE]>>),
    Line(<<>>, <<Address("private", m1)>>, <<Port(FALSE, "public", "UDP", 80, h1, 80),
                                             Port(FALSE, "private", "TCP", 65535, zero, 65535),
                                             Port(TRUE, "public", "IPv6_Flag", 2222, h1, 22)>>),
    Line(<<>>, <<>>, <<Port(TRUE, "public", "TCP", 65558, h1, 22)>>),
    Line(<<>>, <<Address("none", m1)>>, <<>>) }

Forwarded(protocol, port, host) ==
  [protocol |-> protocolIdLookup[protocol], port |-> port, host |-> host, ipv6 |-> FALSE,
   tport |-> IF host = zero THEN port ELSE 0]

Rules(private, public) == [s \in Side |-> IF s = "private" THEN private ELSE public]

Plain == [vlan |-> {}, pubKNI |-> FALSE, pubDhcp |-> FALSE, hostName |-> FALSE,
          rules |-> Rules({}, {Forwarded("UDP", 80, h1)}),
          csum |-> TRUE, hwcsum |-> TRUE, capable |-> {"public"}]

Configs ==
  { [Plain EXCEPT !.pubKNI = TRUE,
                  !.rules = Rules({Forwarded("TCP", 65535, zero)},
                                  {Forwarded("UDP", 80, h1), [Forwarded("UDP", 81, h1) EXCEPT !.tport = 80],
                                   Forwarded("TCP", 22, zero)})],
    [Plain EXCEPT !.pubDhcp = TRUE, !.hostName = TRUE, !.capable = Side, !.rules = Rules({}, {})],
    [Plain EXCEPT !.vlan = {"public"}], [Plain EXCEPT !.vlan = Side],
    [Plain EXCEPT !.pubDhcp = TRUE], [Plain EXCEPT !.rules = Rules({}, {Forwarded("UDP", 80, h2)})],
    [Plain EXCEPT !.rules = Rules({}, {Forwarded("UDP", 65535, h1)})],
    [Plain EXCEPT !.rules = Rules({Forwarded("TCP", 22, h1)}, {})] }
=============================================================================
