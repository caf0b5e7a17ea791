--------------------------- MODULE DHCPv6Options ----------------------------
(***************************************************************************)
(* The options of DHCPv6 messages (nat/dhcp6.go) as sequences of bytes:    *)
(* IA_NA and IA Address, which have a head of fixed length and options     *)
(* inside, the status code and the client's domain name.  The messages on  *)
(* their way are those of module AddressClient, where an answer is an      *)
(* address and whether it can be decoded; here are their bytes.            *)
(*                                                                         *)
(* Every iteration of a loop that encodes, decodes or measures is a step   *)
(* beside the steps of AddressClient.  The functions work on local data    *)
(* only, so one of them at a time is enough.  Encode stands for the        *)
(* encoder of the servers, too.                                            *)
(***************************************************************************)
EXTENDS AddressClient, Sequences

CONSTANTS
  Octet,      \* leased addresses as bytes: one byte, sixteen times
  Outer,      \* options before and after the IA_NA of an answer
  Inner,      \* options before and after the address in an IA_NA
  Heads,      \* heads of IA_NA and IA Address options
  HostName,   \* host names, not empty (ReadConfig), as sequences of labels
  Received    \* data to be decoded as a domain name

Byte == {n \in Nat : n < 256}
Uint16 == {n \in Nat : n < 65536}
Option == {o \in [code : Uint16, data : Seq(Byte)] : Len(o.data) \in Uint16}
Around == [before : Seq(Option), after : Seq(Option)]
Label == {l \in Seq(Byte) : Len(l) \in Byte}

ASSUME OptionsAssumption ==
  /\ Octet \in [Lease -> Byte]
  /\ Outer \subseteq Around /\ Inner \subseteq Around
  /\ Heads \subseteq Seq(Byte)
  /\ HostName \subseteq Seq(Label) \ {<<>>}
  /\ Received \subseteq Seq(Byte)

VARIABLES
  phase,    \* the loop that runs, or how it ended
  job,      \* what is encoded or decoded
  data,     \* the bytes
  offset,   \* offset or index into data
  turn,     \* the option that Encode is at
  cut,      \* where the options or labels begin, and where the last one ends
  out       \* the options or the name decoded so far

codec == <<phase, job, data, offset, turn, cut, out>>

\* Codes of options, and the status of success.
OptIANA == 3
OptIAAddr == 5
OptStatusCode == 13
Success == 0

\* Lengths of the heads: IAID, T1 and T2; address and two lifetimes.
IANAHead == 12
IAAddrHead == 24

\* binary.BigEndian
PutUint16(n) == <<n \div 256, n % 256>>
Uint16At(bytes, at) == bytes[at + 1] * 256 + bytes[at + 2]

-----------------------------------------------------------------------------
(* The messages of AddressClient *)

IAAddr(a) == [code |-> OptIAAddr, data |-> [k \in 1 .. IAAddrHead |-> Octet[a]]]

\* What a message of the client says of the association: sendDHCPv6SolicitRequest
\* sends it empty, handleDHCPv6Advertise as the server offered it.
Association(m) == IF m.type = "discover" THEN <<>> ELSE <<IAAddr(m.addr)>>

\* The options of an answer, with the given data in its IA_NA, if it has one.
Message(j, bytes) ==
  j.outer.before
    \o (IF j.has = "nothing" THEN <<>> ELSE <<[code |-> OptIANA, data |-> bytes]>>)
    \o j.outer.after

Has(options, code) == \E k \in DOMAIN options : options[k].code = code

\* A status option that says success, and can be decoded.
Succeeded(o) == Len(o.data) >= 2 /\ Uint16At(o.data, 0) = Success

\* The server reports success (ok) or failure: the first status counts.
Reports(options, ok) ==
  \/ ok /\ ~Has(options, OptStatusCode)
  \/ \E k \in DOMAIN options :
       /\ options[k].code = OptStatusCode
       /\ \A l \in 1 .. k - 1 : options[l].code # OptStatusCode
       /\ ok = Succeeded(options[k])

\* What a good answer has to carry.
Needed(m) == IF m.type = "offer" THEN {"address", "association"} ELSE {"address"}

Init0 ==
  /\ phase = "idle" /\ job = None /\ data = <<>> /\ offset = 0 /\ turn = 0
  /\ cut = <<>> /\ out = <<>>

\* The IA_NA of a message to a server, or an IA Address, is encoded and decoded.
StartRequest(m, head, around) ==
  /\ phase = "idle"
  /\ job' = [kind |-> "request", head |-> head,
             options |-> around.before \o Association(m) \o around.after]
  /\ phase' = "measure" /\ cut' = <<Len(head)>>
  /\ UNCHANGED <<data, offset, turn, out>>

\* The IA_NA of an answer is encoded, and the client looks at the answer.
StartAnswer(m, head, outer, inner, has, ok) ==
  /\ phase = "idle" /\ Len(head) = IANAHead
  /\ ~Has(outer.before, OptIANA) /\ ~Has(inner.before, OptIAAddr)
  /\ has = "nothing" => ~Has(outer.after, OptIANA)
  /\ job' = [kind |-> "answer", m |-> m, head |-> head, outer |-> outer, has |-> has,
             options |-> IF has = "address"
                         THEN inner.before \o <<IAAddr(m.addr)>> \o inner.after
                         ELSE inner.before]
  /\ Reports(Message(job', <<>>), ok)
  /\ m.ok = (ok /\ has \in Needed(m))
  /\ phase' = "measure" /\ cut' = <<Len(head)>>
  /\ UNCHANGED <<data, offset, turn, out>>

-----------------------------------------------------------------------------
(* Encode of IA_NA and IA Address *)

\* OptionsLen: cut is the sum after each option.
MeasureOption ==
  /\ phase = "measure" /\ Len(cut) <= Len(job.options)
  /\ cut' = Append(cut, cut[Len(cut)] + Len(job.options[Len(cut)].data) + 4)
  /\ UNCHANGED <<phase, job, data, offset, turn, out>>

\* A buffer of the computed length, and the head.
Allocate ==
  /\ phase = "measure" /\ Len(cut) > Len(job.options)
  /\ data' = [k \in 1 .. cut[Len(cut)] |-> IF k <= Len(job.head) THEN job.head[k] ELSE 0]
  /\ offset' = Len(job.head) /\ turn' = 1 /\ phase' = "write"
  /\ UNCHANGED <<job, cut, out>>

\* Fault: the length counts the head of the option.
EncodeOptionLong(o) == PutUint16(o.code) \o PutUint16(Len(o.data) + 4) \o o.data

EncodeOption(o) == PutUint16(o.code) \o PutUint16(Len(o.data)) \o o.data

\* The bytes with others copied to an offset, as far as they fit.
Overwrite(bytes, at, new) ==
  [k \in 1 .. Len(bytes) |-> IF k \in at + 1 .. at + Len(new) THEN new[k - at] ELSE bytes[k]]

\* "past": the slice for code and length is out of range.
WriteOption ==
  /\ phase = "write" /\ turn <= Len(job.options)
  /\ phase' = IF offset + 4 > Len(data) THEN "past" ELSE "write"
  /\ data' = Overwrite(data, offset, EncodeOption(job.options[turn]))
  /\ offset' = offset + Len(job.options[turn].data) + 4
  /\ turn' = turn + 1
  /\ UNCHANGED <<job, cut, out>>

-----------------------------------------------------------------------------
(* DecodeFromBytes of IA_NA and IA Address *)

\* The beginning, with a head of n bytes, in a caller that goes on with step.
DecodeHead(bytes, n, step, failed) ==
  /\ phase' = IF Len(bytes) < n THEN failed ELSE step
  /\ data' = bytes /\ offset' = n /\ out' = <<>>

Encoded ==
  /\ phase = "write" /\ turn > Len(job.options)
  /\ IF job.kind = "request" THEN DecodeHead(data, Len(job.head), "read", "error")
     ELSE phase' = "check" /\ UNCHANGED <<data, offset, out>>
  /\ UNCHANGED <<job, turn, cut>>

\* The loop does not compare the length with the bytes that are left: "past" is
\* a slice that is out of range.
ReadOption ==
  /\ phase \in {"read", "inner"} /\ offset < Len(data)
  /\ LET stop == offset + 4 + Uint16At(data, offset + 2)
     IN  IF offset + 4 > Len(data) \/ stop > Len(data)
         THEN phase' = "past" /\ UNCHANGED <<offset, out>>
         ELSE /\ out' = Append(out, [code |-> Uint16At(data, offset),
                                     data |-> SubSeq(data, offset + 5, stop)])
              /\ offset' = stop
              /\ UNCHANGED phase
  /\ UNCHANGED <<job, data, turn, cut>>

ReadEnd ==
  /\ phase \in {"read", "inner"} /\ offset >= Len(data)
  /\ phase' = CASE phase = "inner" -> "taken"
                [] phase = "read" /\ job.kind = "request" -> "done"
                [] phase = "read" /\ job.kind = "answer" -> "pick"
  /\ UNCHANGED <<job, data, offset, turn, cut, out>>

-----------------------------------------------------------------------------
(* handleDHCPv6Advertise and handleDHCPv6Reply *)

\* Fault: the last option with the code is found.
getLastOption(options, code) ==
  LET found == {k \in DOMAIN options : options[k].code = code}
  IN  IF found = {} THEN <<>>
      ELSE <<options[CHOOSE k \in found : \A l \in found : l <= k]>>

\* The first option with the code, if any.
getDHCPv6Option(options, code) ==
  LET found == {k \in DOMAIN options : options[k].code = code}
  IN  IF found = {} THEN <<>>
      ELSE <<options[CHOOSE k \in found : \A l \in found : k <= l]>>

\* checkDHCPv6ServerAnswerAndGetIANA: no status means success.  An offer is
\* answered with its first IA_NA ("forward"), which a reply decodes.
CheckAnswer ==
  LET options == Message(job, data)
      status == getDHCPv6Option(options, OptStatusCode)
      iana == getDHCPv6Option(options, OptIANA)
  IN /\ phase = "check"
     /\ IF (status # <<>> /\ ~Succeeded(status[1])) \/ iana = <<>>
        THEN phase' = "reset" /\ UNCHANGED <<data, offset, out>>
        ELSE IF job.m.type = "offer"
        THEN phase' = "forward" /\ data' = iana[1].data /\ UNCHANGED <<offset, out>>
        ELSE DecodeHead(iana[1].data, IANAHead, "read", "reset")
     /\ UNCHANGED <<job, turn, cut>>

\* handleDHCPv6Reply: the first address of the association.
PickAddress ==
  LET address == getDHCPv6Option(out, OptIAAddr)
  IN /\ phase = "pick"
     /\ IF address = <<>> THEN phase' = "reset" /\ UNCHANGED <<data, offset, out>>
        ELSE DecodeHead(address[1].data, IAAddrHead, "inner", "reset")
     /\ UNCHANGED <<job, turn, cut>>

-----------------------------------------------------------------------------
(* The domain name.  A label is a sequence of bytes, empty between two dots *)
(* and after a last one.  The client only encodes names; nothing in the     *)
(* program calls the decoder.                                               *)

StartName(labels) ==
  /\ phase = "idle"
  /\ job' = [kind |-> "name", labels |-> labels]
  /\ phase' = "spell" /\ data' = <<0>> /\ cut' = <<1>>
  /\ UNCHANGED <<offset, turn, out>>

SpellLabel ==
  LET label == job.labels[Len(cut)]
  IN /\ phase = "spell" /\ Len(cut) <= Len(job.labels)
     /\ data' = Append(data, Len(label) % 256) \o label
     /\ cut' = Append(cut, Len(data) + 1 + Len(label))
     /\ UNCHANGED <<phase, job, offset, turn, out>>

\* DecodeFromBytes: index 2 is where the bytes of the first label begin.
SpellEnd ==
  /\ phase = "spell" /\ Len(cut) > Len(job.labels)
  /\ DecodeHead(Append(data, 0), 2, "parse", "error")
  /\ UNCHANGED <<job, turn, cut>>

StartReceived(bytes) ==
  /\ phase = "idle"
  /\ job' = [kind |-> "received"]
  /\ DecodeHead(bytes, 2, "parse", "error")
  /\ UNCHANGED <<turn, cut>>

\* Fault: the byte after a label is not counted.
FitsLabel(bytes, index, length) == Len(bytes) - index >= length

\* A label and the length of the next one are left.
Fits(bytes, index, length) == Len(bytes) - index >= length + 1

\* The labels are joined without the dots between them.
ParseLabel ==
  /\ phase = "parse"
  /\ IF offset > Len(data) THEN phase' = "past" /\ UNCHANGED <<offset, out>>
     ELSE IF data[offset] = 0 THEN phase' = "done" /\ UNCHANGED <<offset, out>>
     ELSE IF ~Fits(data, offset, data[offset])
     THEN phase' = "error" /\ UNCHANGED <<offset, out>>
     ELSE /\ out' = out \o SubSeq(data, offset + 1, offset + data[offset])
          /\ offset' = offset + data[offset] + 1
          /\ UNCHANGED phase
  /\ UNCHANGED <<job, data, turn, cut>>

-----------------------------------------------------------------------------

\* The function returned; a program that went past the bytes has ended.
Return ==
  /\ phase \in {"done", "taken", "forward", "reset", "error"}
  /\ phase' = "idle" /\ job' = None /\ data' = <<>> /\ offset' = 0 /\ turn' = 0
  /\ cut' = <<>> /\ out' = <<>>

Start ==
  \/ \E m \in toServer : \/ \E head \in Heads, around \in Inner : StartRequest(m, head, around)
                         \/ \E labels \in HostName : StartName(labels)
  \/ \E m \in toClient, head \in Heads, outer \in Outer, inner \in Inner, ok \in BOOLEAN :
       \E has \in {"address", "association", "nothing"} :
         StartAnswer(m, head, outer, inner, has, ok)
  \/ \E bytes \in Received : StartReceived(bytes)

CodecStep ==
  \/ MeasureOption \/ Allocate \/ WriteOption \/ Encoded \/ ReadOption \/ ReadEnd
  \/ CheckAnswer \/ PickAddress \/ SpellLabel \/ SpellEnd \/ ParseLabel \/ Return

OptionsNext ==
  \/ Next /\ UNCHANGED codec
  \/ (Start \/ CodecStep) /\ UNCHANGED vars

OptionsSpec == Init /\ Init0 /\ [][OptionsNext]_<<vars, codec>>

FairOptionsSpec == OptionsSpec /\ Fairness

-----------------------------------------------------------------------------
(* Properties *)

\* What Encode makes of the head and the options of an IA_NA or IA Address
\* DecodeFromBytes gives back: the offsets of both agree, neither leaves the
\* buffer, and decoding does not fail.
OptionsRoundTrip ==
  /\ phase = "done" /\ job.kind = "request" =>
       out = job.options /\ SubSeq(data, 1, Len(job.head)) = job.head
  /\ phase = "past" => job.kind \notin {"request", "answer"}
  /\ phase = "error" => job.kind # "request"

\* "Ignore multiple addresses in DHCP server reply. Use the first one": of an
\* acknowledgement the port takes the address of AddressClient, the first one of
\* the first IA_NA, whatever options are around it.  The client starts over only
\* when the server reports failure or does not send what is needed.
FirstAddressTaken ==
  /\ phase = "taken" => /\ job.m.type = "ack" /\ job.m.ok
                        /\ SubSeq(data, 1, 16) = [k \in 1 .. 16 |-> Octet[job.m.addr]]
  /\ phase = "forward" => job.m.type = "offer" /\ job.m.ok
  /\ phase = "reset" => ~job.m.ok

\* DecodeFromBytes of the domain name reads no byte past the option, whatever
\* bytes it is given, and refuses none of the names that Encode writes: the index
\* of the one is where the other put a length.  What it returns is not the name
\* that was encoded: the dots are gone, and so is all behind an empty label.
NameInBounds ==
  /\ phase = "past" => job.kind \notin {"name", "received"}
  /\ phase = "error" => job.kind # "name"
=============================================================================
