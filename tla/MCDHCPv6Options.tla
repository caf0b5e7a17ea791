-------------------------- MODULE MCDHCPv6Options --------------------------
(***************************************************************************)
(* A small instance of AddressClient with DHCPv6Options for TLC.           *)
(***************************************************************************)
EXTENDS DHCPv6Options

CONSTANTS c1, c2, w1, w2, zero

MCOctet == [a \in Lease |-> IF a = c1 THEN 1 ELSE 2]

Opt(code, bytes) == [code |-> code, data |-> bytes]
Pair(before, after) == [before |-> before, after |-> after]

\* No other option; one that looks like others inside and a second address,
\* one without data at the end.
MCInner == { Pair(<<>>, <<>>),
             Pair(<<Opt(258, <<0, OptIAAddr, 0>>)>>, <<IAAddr(c2), Opt(259, <<>>)>>) }

\* No other option; success, and an IA_NA that is too short, after it; failure
\* before success; a status without a code.
MCOuter == { Pair(<<>>, <<>>),
             Pair(<<Opt(1, <<0, 3>>), Opt(OptStatusCode, <<0, 0, 65>>)>>, <<Opt(OptIANA, <<7>>)>>),
             Pair(<<>>, <<Opt(OptStatusCode, <<0, 2>>), Opt(OptStatusCode, <<0, 0>>)>>),
             Pair(<<Opt(OptStatusCode, <<0>>)>>, <<>>) }

MCHeads == { [k \in 1 .. IANAHead |-> 7], [k \in 1 .. IAAddrHead |-> 255] }

Strings(set, n) == UNION {[1 .. k -> set] : k \in 0 .. n}

MCHostName == { <<<<65>>>>, <<<<65, 66>>, <<>>, <<67>>>> }
MCReceived == Strings({0, 1, 2}, 3)
=============================================================================
