--------------------------- MODULE OptionsProofs ----------------------------
(***************************************************************************)
(* What Encode makes DecodeFromBytes gives back, and the client takes the  *)
(* address of the answer: proofs about DHCPv6Options for options of any    *)
(* number and length.  The invariant has one case per loop.                *)
(***************************************************************************)
EXTENDS DHCPv6Options, AddressClientProofs, SequenceTheorems

\* An IA_NA or IA Address with options, and what StartAnswer says of an answer.
OptionsOf(j) == j.head \in Seq(Byte) /\ j.options \in Seq(Option)

\* The address of AddressClient is the first one of the association.
AddressFirst(j) ==
  IF j.has = "address"
  THEN \E n \in DOMAIN j.options :
         /\ j.options[n] = IAAddr(j.m.addr)
         /\ \A l \in 1 .. n - 1 : j.options[l].code # OptIAAddr
  ELSE ~Has(j.options, OptIAAddr)

AnswerOf(j) ==
  /\ j.m \in Answer /\ j.outer \in Around /\ Len(j.head) = IANAHead
  /\ j.has \in {"address", "association", "nothing"}
  /\ ~Has(j.outer.before, OptIANA)
  /\ j.has = "nothing" => ~Has(j.outer.after, OptIANA)
  /\ \E ok \in BOOLEAN : Reports(Message(j, <<>>), ok) /\ j.m.ok = (ok /\ j.has \in Needed(j.m))
  /\ AddressFirst(j)

JobOK ==
  /\ job.kind \in {"request", "answer"} /\ OptionsOf(job)
  /\ job.kind = "answer" => AnswerOf(job)

\* The offsets that OptionsLen sums up, as far as it came.
Cuts ==
  /\ cut \in Seq(Nat) /\ Len(cut) \in 1 .. Len(job.options) + 1
  /\ cut[1] = Len(job.head)
  /\ \A k \in 1 .. Len(cut) - 1 : cut[k + 1] = cut[k] + Len(job.options[k].data) + 4
  /\ \A k, l \in 1 .. Len(cut) : k <= l => cut[k] <= cut[l]

\* The option is in the buffer, where OptionsLen counted it.
Holds(k) ==
  \A p \in 1 .. Len(job.options[k].data) + 4 :
    data[cut[k] + p] = EncodeOption(job.options[k])[p]

\* The buffer has its length, the head and the first n options.
Filled(n) ==
  /\ JobOK /\ Cuts /\ Len(cut) = Len(job.options) + 1
  /\ data \in Seq(Byte) /\ Len(data) = cut[Len(cut)]
  /\ \A p \in 1 .. Len(job.head) : data[p] = job.head[p]
  /\ \A k \in 1 .. n : Holds(k)

\* A reply whose status is good: only the address may be missing.
Accepted ==
  job.kind = "answer" =>
    job.m.type = "ack" /\ job.has # "nothing" /\ job.m.ok = (job.has = "address")

Measuring == phase = "measure" /\ JobOK /\ Cuts

Writing ==
  /\ phase = "write" /\ Filled(turn - 1)
  /\ turn \in 1 .. Len(job.options) + 1 /\ offset = cut[turn]

Checking == phase = "check" /\ job.kind = "answer" /\ Filled(Len(job.options))

Reading ==
  /\ phase = "read" /\ Filled(Len(job.options)) /\ Accepted
  /\ out \in Seq(Option) /\ Len(out) <= Len(job.options)
  /\ \A k \in 1 .. Len(out) : out[k] = job.options[k]
  /\ offset = cut[Len(out) + 1]

Picking ==
  /\ phase = "pick" /\ job.kind = "answer" /\ JobOK /\ Accepted
  /\ out = job.options

Taking ==
  /\ phase = "inner" /\ job.m.type = "ack" /\ job.m.ok /\ offset = IAAddrHead
  /\ data = [k \in 1 .. IAAddrHead |-> Octet[job.m.addr]]
  /\ job.m.addr \in Lease

\* The length of the label is in the data, and the next one behind the label.
SpelledAt(k) ==
  /\ cut[k + 1] = cut[k] + 1 + Len(job.labels[k])
  /\ data[cut[k] + 1] = Len(job.labels[k])

\* The first labels of the name.
Spelled ==
  /\ job.kind = "name" /\ job.labels \in Seq(Label)
  /\ cut \in Seq(Nat) /\ Len(cut) \in 1 .. Len(job.labels) + 1
  /\ data \in Seq(Byte) /\ cut[1] = 1
  /\ \A k \in 1 .. Len(cut) : cut[k] <= Len(data)
  /\ \A k \in 1 .. Len(cut) - 1 : SpelledAt(k)

Spelling == phase = "spell" /\ Spelled /\ cut[Len(cut)] = Len(data)

\* The index is that of the length of a label, or of the zero after the last.
AtLabel ==
  /\ Spelled /\ Len(cut) = Len(job.labels) + 1
  /\ Len(data) = cut[Len(cut)] + 1 /\ data[Len(data)] = 0
  /\ \A k \in 1 .. Len(cut) : cut[k] <= cut[Len(cut)]
  /\ \E k \in 1 .. Len(cut) : offset = cut[k] + 1

Parsing ==
  /\ phase = "parse" /\ job.kind \in {"name", "received"}
  /\ data \in Seq(Byte) /\ offset \in 1 .. Len(data)
  /\ job.kind = "name" => AtLabel

Promised == OptionsRoundTrip /\ FirstAddressTaken /\ NameInBounds

Ended == phase \in {"done", "taken", "forward", "reset", "error"} /\ Promised

CodecInv ==
  \/ phase = "idle" \/ Measuring \/ Writing \/ Checking \/ Reading \/ Picking
  \/ Taking \/ Spelling \/ Parsing \/ Ended

-----------------------------------------------------------------------------
(* The operators on bytes *)

\* A number of sixteen bits is what its two bytes say.
LEMMA TwoBytes ==
  ASSUME NEW n \in Uint16
  PROVE  /\ PutUint16(n) \in Seq(Byte) /\ Len(PutUint16(n)) = 2
         /\ PutUint16(n)[1] * 256 + PutUint16(n)[2] = n
<1>1. /\ n \div 256 \in Byte /\ n % 256 \in Byte
      /\ (n \div 256) * 256 + (n % 256) = n
  BY SMT DEF Byte, Uint16
<1> DEFINE a == n \div 256
           b == n % 256
<1>2. PutUint16(n) = <<a, b>>
  BY DEF PutUint16
<1>3. a \in Byte /\ b \in Byte /\ a * 256 + b = n
  BY <1>1
<1> HIDE DEF a, b
<1> QED
  BY <1>2, <1>3

\* The elements of two sequences, one after the other.
LEMMA Joined ==
  ASSUME NEW S, NEW s \in Seq(S), NEW t \in Seq(S)
  PROVE  /\ s \o t \in Seq(S) /\ Len(s \o t) = Len(s) + Len(t)
         /\ \A p \in 1 .. Len(s) : (s \o t)[p] = s[p]
         /\ \A p \in 1 .. Len(t) : (s \o t)[Len(s) + p] = t[p]
<1> DEFINE e == s \o t
<1>1. Len(s) \in Nat /\ Len(t) \in Nat
  BY LenProperties
<1>2. /\ e \in Seq(S) /\ Len(e) = Len(s) + Len(t)
      /\ \A i \in 1 .. Len(s) + Len(t) :
           e[i] = IF i <= Len(s) THEN s[i] ELSE t[i - Len(s)]
  BY Zenon, ConcatProperties
<1> HIDE DEF e
<1>3. \A p \in 1 .. Len(s) : e[p] = s[p]
  BY <1>1, <1>2
<1>4. \A p \in 1 .. Len(t) : e[Len(s) + p] = t[p]
  <2> TAKE p \in 1 .. Len(t)
  <2>1. /\ Len(s) + p \in 1 .. Len(s) + Len(t)
        /\ ~(Len(s) + p <= Len(s)) /\ (Len(s) + p) - Len(s) = p
    BY <1>1
  <2> QED
    BY <1>2, <2>1
<1> QED
  BY <1>2, <1>3, <1>4 DEF e

\* The fields of an option.
LEMMA OptionFields ==
  ASSUME NEW o \in Option
  PROVE  /\ o.code \in Uint16 /\ o.data \in Seq(Byte)
         /\ Len(o.data) \in Uint16
         /\ o = [code |-> o.code, data |-> o.data]
<1>1. o \in [code : Uint16, data : Seq(Byte)] /\ Len(o.data) \in Uint16
  BY Zenon DEF Option
<1>2. o.data \in Seq(Byte) /\ o.code \in Uint16
  BY <1>1
<1>3. o = [code |-> o.code, data |-> o.data]
  BY <1>1
<1> QED
  BY <1>1, <1>2, <1>3

\* An encoded option: the code, the length and the data.
LEMMA EncodedOption ==
  ASSUME NEW o \in Option
  PROVE  /\ EncodeOption(o) \in Seq(Byte)
         /\ Len(EncodeOption(o)) = Len(o.data) + 4
         /\ Uint16At(EncodeOption(o), 0) = o.code
         /\ Uint16At(EncodeOption(o), 2) = Len(o.data)
         /\ \A p \in 1 .. Len(o.data) : EncodeOption(o)[p + 4] = o.data[p]
<1> DEFINE c == PutUint16(o.code)
           l == PutUint16(Len(o.data))
           d == o.data
<1>1. o.code \in Uint16 /\ d \in Seq(Byte) /\ Len(d) \in Uint16
  BY OptionFields
<1>2. c \in Seq(Byte) /\ Len(c) = 2 /\ c[1] * 256 + c[2] = o.code
  BY <1>1, TwoBytes
<1>3. l \in Seq(Byte) /\ Len(l) = 2 /\ l[1] * 256 + l[2] = Len(d)
  BY <1>1, TwoBytes
<1>4. EncodeOption(o) = (c \o l) \o d
  BY DEF EncodeOption
<1> HIDE DEF c, l, d
<1> DEFINE h == c \o l
<1>5. /\ h \in Seq(Byte) /\ Len(h) = Len(c) + Len(l)
      /\ \A p \in 1 .. Len(c) : h[p] = c[p]
      /\ \A p \in 1 .. Len(l) : h[Len(c) + p] = l[p]
  <2>1. c \in Seq(Byte)
    BY <1>2
  <2>2. l \in Seq(Byte)
    BY <1>3
  <2> QED
    BY <2>1, <2>2, Joined
<1> HIDE DEF h
<1>6. Len(h) = 4 /\ h[1] = c[1] /\ h[2] = c[2] /\ h[3] = l[1] /\ h[4] = l[2]
  BY <1>2, <1>3, <1>5
<1> DEFINE e == h \o d
<1>7. /\ e \in Seq(Byte) /\ Len(e) = Len(h) + Len(d)
      /\ \A p \in 1 .. Len(h) : e[p] = h[p]
      /\ \A p \in 1 .. Len(d) : e[Len(h) + p] = d[p]
  <2>1. h \in Seq(Byte)
    BY <1>5
  <2>2. d \in Seq(Byte)
    BY <1>1
  <2> QED
    BY <2>1, <2>2, Joined
<1>8. EncodeOption(o) = e
  BY <1>4 DEF h
<1> HIDE DEF e
<1>9. /\ e[1] = h[1] /\ e[2] = h[2] /\ e[3] = h[3] /\ e[4] = h[4]
      /\ \A p \in 1 .. Len(d) : e[p + 4] = d[p]
  <2>1. 1 \in 1 .. Len(h) /\ 2 \in 1 .. Len(h) /\ 3 \in 1 .. Len(h) /\ 4 \in 1 .. Len(h)
    BY <1>6
  <2>2. \A p \in 1 .. Len(d) : Len(h) + p = p + 4
    BY <1>6
  <2> QED
    BY Zenon, <1>7, <2>1, <2>2
<1>10. Uint16At(e, 0) = o.code /\ Uint16At(e, 2) = Len(d)
  BY <1>2, <1>3, <1>6, <1>9 DEF Uint16At
<1>11. Len(e) = Len(d) + 4
  BY <1>1, <1>6, <1>7, LenProperties
<1> QED
  BY Zenon, <1>7, <1>8, <1>9, <1>10, <1>11 DEF d

\* A byte of an option is before the end of the option.
LEMMA Within ==
  ASSUME NEW a \in Nat, NEW b \in Nat, NEW c \in Nat, a + b + 4 <= c,
         NEW p \in 1 .. b + 4
  PROVE  a + p \in 1 .. c
OBVIOUS

\* The end of an option is behind its beginning.
LEMMA Behind ==
  ASSUME NEW a \in Nat, NEW b \in Nat, NEW c \in Nat, a + b + 4 <= c
  PROVE  ~(a >= c)
OBVIOUS

\* Writing to a buffer changes the bytes from the offset on and no others.
LEMMA Overwritten ==
  ASSUME NEW bytes \in Seq(Byte), NEW at \in Nat, NEW new \in Seq(Byte),
         at + Len(new) <= Len(bytes)
  PROVE  LET b == Overwrite(bytes, at, new)
         IN  /\ b \in Seq(Byte) /\ Len(b) = Len(bytes)
             /\ \A p \in 1 .. Len(new) : b[at + p] = new[p]
             /\ \A p \in 1 .. at : b[p] = bytes[p]
<1> DEFINE b == Overwrite(bytes, at, new)
<1>1. \A k \in at + 1 .. at + Len(new) : k - at \in 1 .. Len(new)
  OBVIOUS
<1>2. b = [k \in 1 .. Len(bytes) |->
             IF k \in at + 1 .. at + Len(new) THEN new[k - at] ELSE bytes[k]]
  BY DEF Overwrite
<1>3. \A k \in 1 .. Len(bytes) :
        (IF k \in at + 1 .. at + Len(new) THEN new[k - at] ELSE bytes[k]) \in Byte
  <2> TAKE k \in 1 .. Len(bytes)
  <2>1. k \in at + 1 .. at + Len(new) => new[k - at] \in Byte
    BY <1>1, ElementOfSeq
  <2>2. bytes[k] \in Byte
    BY ElementOfSeq
  <2> QED
    BY <2>1, <2>2
<1>4. b \in [1 .. Len(bytes) -> Byte]
  BY <1>2, <1>3
<1>5. Len(bytes) \in Nat
  BY LenProperties
<1>6. b \in Seq(Byte) /\ Len(b) = Len(bytes)
  BY <1>4, <1>5, LenProperties
<1>7. \A p \in 1 .. Len(new) : b[at + p] = new[p]
  <2> TAKE p \in 1 .. Len(new)
  <2>1. at + p \in 1 .. Len(bytes) /\ at + p \in at + 1 .. at + Len(new) /\ (at + p) - at = p
    BY LenProperties
  <2> QED
    BY <1>2, <2>1
<1>8. \A p \in 1 .. at : b[p] = bytes[p]
  <2> TAKE p \in 1 .. at
  <2>1. p \in 1 .. Len(bytes) /\ p \notin at + 1 .. at + Len(new)
    BY LenProperties
  <2> QED
    BY <1>2, <2>1
<1> QED
  BY <1>6, <1>7, <1>8

-----------------------------------------------------------------------------
(* Encode *)

\* What is encoded stays while the functions run.
LEMMA SameJob ==
  ASSUME JobOK, job' = job
  PROVE  JobOK'
BY Zenon DEF JobOK

\* The options of a job and their lengths.
LEMMA JobOption ==
  ASSUME JobOK, NEW k \in 1 .. Len(job.options)
  PROVE  /\ job.options[k] \in Option
         /\ Len(job.options[k].data) \in Nat
<1>1. job.options \in Seq(Option)
  BY DEF JobOK, OptionsOf
<1>2. job.options[k] \in Option
  BY <1>1, ElementOfSeq
<1>3. Len(job.options[k].data) \in Uint16
  BY Zenon, <1>2, OptionFields
<1> QED
  BY <1>2, <1>3 DEF Uint16

\* The sum after one more option.
LEMMA Measured ==
  ASSUME Measuring, MeasureOption
  PROVE  Measuring'
<1> DEFINE n == Len(cut)
           x == cut[n] + Len(job.options[n].data) + 4
<1>1. /\ phase' = "measure" /\ job' = job
      /\ n <= Len(job.options) /\ cut' = Append(cut, x)
  BY Zenon DEF Measuring, MeasureOption
<1>2. JobOK /\ Cuts
  BY Zenon DEF Measuring
<1>3. JobOK'
  BY Zenon, <1>1, <1>2, SameJob
<1>4. n \in Nat /\ n >= 1 /\ cut \in Seq(Nat)
  BY <1>2, LenProperties DEF Cuts
<1>5. n \in 1 .. n /\ n \in 1 .. Len(job.options) /\ Len(job.options) \in Nat
  BY <1>1, <1>2, <1>4, LenProperties DEF JobOK, OptionsOf
<1>6. cut[n] \in Nat /\ Len(job.options[n].data) \in Nat
  BY <1>2, <1>4, <1>5, JobOption, ElementOfSeq
<1>7. x \in Nat /\ cut[n] <= x
  <2>1. \A a, b \in Nat : a + b + 4 \in Nat /\ a <= a + b + 4
    OBVIOUS
  <2> QED
    BY Zenon, <1>6, <2>1
<1>8. /\ cut' \in Seq(Nat) /\ Len(cut') = n + 1
      /\ \A k \in 1 .. n : cut'[k] = cut[k]
      /\ cut'[n + 1] = x
  BY <1>1, <1>4, <1>7, AppendProperties
<1>9. Cuts'
  <2>1. cut'[1] = Len(job'.head)
    BY <1>1, <1>2, <1>4, <1>8 DEF Cuts
  <2>2. \A k \in 1 .. Len(cut') - 1 : cut'[k + 1] = cut'[k] + Len(job'.options[k].data) + 4
    <3> TAKE k \in 1 .. Len(cut') - 1
    <3>1. k \in 1 .. n
      BY <1>4, <1>8
    <3>2. CASE k = n
      BY <1>1, <1>8, <3>1, <3>2
    <3>3. CASE k # n
      <4>1. k \in 1 .. n - 1 /\ k + 1 \in 1 .. n
        BY <1>4, <3>1, <3>3
      <4>2. cut[k + 1] = cut[k] + Len(job.options[k].data) + 4
        BY <1>2, <4>1 DEF Cuts
      <4> QED
        BY <1>1, <1>8, <3>1, <4>1, <4>2
    <3> QED
      BY <3>2, <3>3
  <2>3. \A k, l \in 1 .. Len(cut') : k <= l => cut'[k] <= cut'[l]
    <3> SUFFICES ASSUME NEW k \in 1 .. n + 1, NEW l \in 1 .. n + 1, k <= l
                 PROVE  cut'[k] <= cut'[l]
      BY <1>8
    <3>1. CASE l <= n
      <4>1. k \in 1 .. n /\ l \in 1 .. n
        BY <1>4, <3>1
      <4> QED
        BY <1>2, <1>8, <4>1 DEF Cuts
    <3>2. CASE k <= n /\ l = n + 1
      <4>1. k \in 1 .. n /\ k <= n
        BY <1>4, <3>2
      <4>2. cut[k] <= cut[n] /\ cut[k] \in Nat
        BY <1>2, <1>4, <1>5, <4>1, ElementOfSeq DEF Cuts
      <4>3. cut'[k] = cut[k] /\ cut'[l] = x
        BY Zenon, <1>8, <3>2, <4>1
      <4>4. \A a, b, c \in Nat : a <= b /\ b <= c => a <= c
        OBVIOUS
      <4> QED
        BY Zenon, <1>6, <1>7, <4>2, <4>3, <4>4
    <3>3. CASE k = n + 1 /\ l = n + 1
      BY <1>7, <1>8, <3>3
    <3> QED
      BY <1>4, <3>1, <3>2, <3>3
  <2>4. Len(cut') \in 1 .. Len(job'.options) + 1
    BY <1>1, <1>4, <1>5, <1>8
  <2> QED
    BY <1>8, <2>1, <2>2, <2>3, <2>4 DEF Cuts
<1> QED
  BY <1>1, <1>3, <1>9 DEF Measuring

\* The buffer has room for the head and what OptionsLen counted.
LEMMA Allocated ==
  ASSUME Measuring, Allocate
  PROVE  Writing'
<1> DEFINE n == Len(cut)
           h == job.head
           size == cut[n]
<1>1. /\ phase' = "write" /\ job' = job /\ cut' = cut /\ turn' = 1 /\ offset' = Len(h)
      /\ n > Len(job.options)
      /\ data' = [k \in 1 .. size |-> IF k <= Len(h) THEN h[k] ELSE 0]
  BY Zenon DEF Measuring, Allocate
<1>2. JobOK /\ Cuts
  BY Zenon DEF Measuring
<1>3. JobOK'
  BY Zenon, <1>1, <1>2, SameJob
<1>4. Cuts'
  BY Zenon, <1>1, <1>2 DEF Cuts
<1>5. h \in Seq(Byte) /\ Len(h) \in Nat /\ Len(job.options) \in Nat
  BY <1>2, LenProperties DEF JobOK, OptionsOf
<1>6. /\ n = Len(job.options) + 1 /\ 1 \in 1 .. n /\ n \in 1 .. n /\ 1 <= n
      /\ cut \in Seq(Nat) /\ cut[1] = Len(h)
  BY <1>1, <1>2, <1>5 DEF Cuts
<1>7. size \in Nat /\ Len(h) <= size
  BY <1>2, <1>6, ElementOfSeq DEF Cuts
<1> HIDE DEF h, size
<1>8. \A k \in 1 .. size : (IF k <= Len(h) THEN h[k] ELSE 0) \in Byte
  BY <1>5, <1>7 DEF Byte
<1>9. data' \in [1 .. size -> Byte]
  BY <1>1, <1>8
<1>10. data' \in Seq(Byte) /\ Len(data') = size
  BY <1>7, <1>9, LenProperties
<1>11. \A p \in 1 .. Len(h) : data'[p] = h[p]
  BY <1>1, <1>5, <1>7
<1>12. Filled(turn - 1)'
  <2>1. Len(data') = cut'[Len(cut')] /\ Len(cut') = Len(job'.options) + 1
    BY <1>1, <1>6, <1>10 DEF size
  <2>2. \A p \in 1 .. Len(job'.head) : data'[p] = job'.head[p]
    BY <1>1, <1>11 DEF h
  <2>3. \A k \in 1 .. turn' - 1 : Holds(k)'
    BY <1>1
  <2> QED
    BY <1>3, <1>4, <1>10, <2>1, <2>2, <2>3 DEF Filled
<1>13. turn' \in 1 .. Len(job'.options) + 1 /\ offset' = cut'[turn']
  BY <1>1, <1>5, <1>6 DEF h
<1> QED
  BY <1>1, <1>12, <1>13 DEF Writing

\* One more option in the buffer; the others are where they were.
LEMMA Wrote ==
  ASSUME Writing, WriteOption
  PROVE  Writing'
<1> DEFINE o == job.options[turn]
           e == EncodeOption(o)
           L == Len(job.options)
<1>1. /\ turn <= L /\ job' = job /\ cut' = cut
      /\ phase' = IF offset + 4 > Len(data) THEN "past" ELSE "write"
      /\ data' = Overwrite(data, offset, e)
      /\ offset' = offset + Len(o.data) + 4 /\ turn' = turn + 1
  BY Zenon DEF Writing, WriteOption
<1>2. /\ JobOK /\ Cuts /\ Len(cut) = L + 1
      /\ data \in Seq(Byte) /\ Len(data) = cut[Len(cut)]
      /\ \A p \in 1 .. Len(job.head) : data[p] = job.head[p]
      /\ \A k \in 1 .. turn - 1 : Holds(k)
      /\ turn \in 1 .. L + 1 /\ offset = cut[turn]
  BY DEF Writing, Filled
<1>3. JobOK'
  BY Zenon, <1>1, <1>2, SameJob
<1>4. Cuts'
  BY Zenon, <1>1, <1>2 DEF Cuts
<1>5. L \in Nat /\ Len(job.head) \in Nat
  BY <1>2, LenProperties DEF JobOK, OptionsOf
<1>6. /\ turn \in 1 .. L /\ turn + 1 \in 1 .. L + 1 /\ turn \in 1 .. L + 1
      /\ turn \in 1 .. Len(cut) - 1 /\ 1 \in 1 .. L + 1 /\ L + 1 \in 1 .. L + 1
      /\ turn + 1 <= L + 1 /\ 1 <= turn
  BY <1>1, <1>2, <1>5
<1>7. o \in Option /\ Len(o.data) \in Nat
  BY <1>2, <1>6, JobOption
<1>8. e \in Seq(Byte) /\ Len(e) = Len(o.data) + 4
  BY <1>7, EncodedOption
<1>9. cut[turn + 1] = cut[turn] + Len(o.data) + 4
  BY <1>2, <1>6 DEF Cuts
<1>10. /\ cut[turn] \in Nat /\ cut[turn + 1] \in Nat /\ cut[L + 1] \in Nat
       /\ cut[turn + 1] <= cut[L + 1] /\ Len(job.head) <= cut[turn]
  <2>1. cut \in Seq(Nat)
    BY <1>2 DEF Cuts
  <2>2. cut[turn] \in Nat /\ cut[turn + 1] \in Nat /\ cut[L + 1] \in Nat
    BY Zenon, <1>2, <1>6, <2>1, ElementOfSeq
  <2>3. cut[turn + 1] <= cut[L + 1] /\ cut[1] <= cut[turn] /\ cut[1] = Len(job.head)
    BY Zenon, <1>2, <1>6 DEF Cuts
  <2> QED
    BY <2>2, <2>3
<1> HIDE DEF o, e
<1>11. offset \in Nat /\ offset + Len(e) <= Len(data) /\ offset + 4 <= Len(data)
  <2> DEFINE b == cut[turn + 1]
             c == Len(data)
             l == Len(o.data)
             z == Len(e)
  <2>1. /\ offset \in Nat /\ l \in Nat /\ b \in Nat /\ c \in Nat
        /\ b = offset + l + 4 /\ b <= c /\ z = l + 4
    <3>1. offset = cut[turn] /\ c = cut[L + 1]
      BY Zenon, <1>2
    <3> QED
      BY Zenon, <1>7, <1>8, <1>9, <1>10, <3>1
  <2> HIDE DEF b, c, l, z
  <2>2. offset + z <= c /\ offset + 4 <= c
    BY <2>1
  <2> QED
    BY Zenon, <2>1, <2>2 DEF c, z
<1>12. /\ data' \in Seq(Byte) /\ Len(data') = Len(data)
       /\ \A p \in 1 .. Len(e) : data'[offset + p] = e[p]
       /\ \A p \in 1 .. offset : data'[p] = data[p]
  <2>1. data \in Seq(Byte)
    BY <1>2
  <2>2. e \in Seq(Byte)
    BY <1>8
  <2>3. offset \in Nat /\ offset + Len(e) <= Len(data)
    BY <1>11
  <2>4. data' = Overwrite(data, offset, e)
    BY Zenon, <1>1
  <2> QED
    BY <2>1, <2>2, <2>3, <2>4, Overwritten
<1>13. phase' = "write"
  <2>1. ~(offset + 4 > Len(data))
    BY <1>2, <1>11, LenProperties
  <2> QED
    BY Zenon, <1>1, <2>1
<1>14. offset' = cut'[turn']
  BY <1>1, <1>2, <1>9
<1>15. \A p \in 1 .. Len(job'.head) : data'[p] = job'.head[p]
  <2> SUFFICES ASSUME NEW p \in 1 .. Len(job.head)
               PROVE  data'[p] = job.head[p]
    BY <1>1
  <2>1. p \in 1 .. offset
    BY <1>2, <1>5, <1>10
  <2> QED
    BY <1>2, <1>12, <2>1
<1>16. \A k \in 1 .. turn' - 1 : Holds(k)'
  <2> SUFFICES ASSUME NEW k \in 1 .. turn
               PROVE  \A p \in 1 .. Len(job.options[k].data) + 4 :
                        data'[cut[k] + p] = EncodeOption(job.options[k])[p]
    BY <1>1, <1>6 DEF Holds
  <2>1. CASE k = turn
    BY <1>2, <1>8, <1>12, <2>1 DEF o, e
  <2>2. CASE k # turn
    <3>1. k \in 1 .. turn - 1 /\ k \in 1 .. Len(cut) - 1 /\ k \in 1 .. L /\ k + 1 \in 1 .. L + 1
          /\ k + 1 <= turn /\ k \in 1 .. L + 1
      BY <1>2, <1>6, <2>2
    <3>2. cut[k + 1] = cut[k] + Len(job.options[k].data) + 4 /\ cut[k + 1] <= cut[turn]
      BY <1>2, <1>6, <3>1 DEF Cuts
    <3>3. Len(job.options[k].data) \in Nat /\ cut[k] \in Nat
      BY Zenon, <1>2, <3>1, JobOption, ElementOfSeq DEF Cuts
    <3> TAKE p \in 1 .. Len(job.options[k].data) + 4
    <3>4. data[cut[k] + p] = EncodeOption(job.options[k])[p]
      BY <1>2, <3>1 DEF Holds
    <3>5. cut[k] + Len(job.options[k].data) + 4 <= offset /\ offset \in Nat
      BY <1>2, <1>10, <3>2
    <3>6. cut[k] + p \in 1 .. offset
      BY Zenon, <3>3, <3>5, Within
    <3> QED
      BY <1>12, <3>4, <3>6
  <2> QED
    BY <2>1, <2>2
<1>17. Filled(turn - 1)'
  BY Zenon, <1>1, <1>2, <1>3, <1>4, <1>12, <1>15, <1>16 DEF Filled
<1>18. turn' \in 1 .. Len(job'.options) + 1
  BY <1>1, <1>6
<1> QED
  BY <1>13, <1>14, <1>17, <1>18 DEF Writing

-----------------------------------------------------------------------------
(* DecodeFromBytes *)

\* Where an encoded option is in the bytes, its fields are read.
LEMMA ReadBack ==
  ASSUME NEW d \in Seq(Byte), NEW at \in Nat, NEW o \in Option,
         at + Len(o.data) + 4 <= Len(d),
         \A p \in 1 .. Len(o.data) + 4 : d[at + p] = EncodeOption(o)[p]
  PROVE  /\ Uint16At(d, at) = o.code
         /\ Uint16At(d, at + 2) = Len(o.data)
         /\ SubSeq(d, at + 5, at + 4 + Len(o.data)) = o.data
<1> DEFINE e == EncodeOption(o)
           b == o.data
           n == Len(o.data)
           s == SubSeq(d, at + 5, at + 4 + n)
<1>1. b \in Seq(Byte) /\ n \in Nat /\ Len(b) = n /\ Len(d) \in Nat
  BY OptionFields, LenProperties
<1>2. /\ Uint16At(e, 0) = o.code /\ Uint16At(e, 2) = n
      /\ \A p \in 1 .. n : e[p + 4] = b[p]
  BY EncodedOption
<1>3. \A p \in 1 .. n + 4 : d[at + p] = e[p]
  OBVIOUS
<1>4. at + n + 4 <= Len(d)
  OBVIOUS
<1> HIDE DEF e, b, n
<1>5. d[at + 1] = e[1] /\ d[at + 2] = e[2] /\ d[at + 3] = e[3] /\ d[at + 4] = e[4]
  BY <1>1, <1>3
<1>6. Uint16At(d, at) = o.code
  BY <1>2, <1>5 DEF Uint16At
<1>7. Uint16At(d, at + 2) = n
  <2>1. at + 2 + 1 = at + 3 /\ at + 2 + 2 = at + 4
    OBVIOUS
  <2> QED
    BY <1>2, <1>5, <2>1 DEF Uint16At
<1>8. \A i \in at + 5 .. at + 4 + n : d[i] \in Byte
  <2> TAKE i \in at + 5 .. at + 4 + n
  <2>1. i \in 1 .. Len(d)
    BY <1>1, <1>4
  <2> QED
    BY <2>1, ElementOfSeq
<1>9. /\ s \in Seq(Byte)
      /\ Len(s) = IF at + 5 <= at + 4 + n THEN (at + 4 + n) - (at + 5) + 1 ELSE 0
      /\ \A i \in 1 .. (at + 4 + n) - (at + 5) + 1 : s[i] = d[(at + 5) + i - 1]
  <2>1. at + 5 \in Int /\ at + 4 + n \in Int
    BY <1>1
  <2> QED
    BY <1>8, <2>1, SubSeqProperties
<1> HIDE DEF s
<1>10. Len(s) = n
  BY <1>1, <1>9
<1>11. \A i \in 1 .. n : s[i] = b[i]
  <2> TAKE i \in 1 .. n
  <2>1. /\ i \in 1 .. (at + 4 + n) - (at + 5) + 1
        /\ (at + 5) + i - 1 = at + (i + 4) /\ i + 4 \in 1 .. n + 4
    BY <1>1
  <2>2. s[i] = d[at + (i + 4)]
    BY <1>9, <2>1
  <2>3. d[at + (i + 4)] = e[i + 4]
    BY <1>3, <2>1
  <2> QED
    BY <1>2, <2>2, <2>3
<1>12. s = b
  BY <1>1, <1>9, <1>10, <1>11, SeqEqual
<1> QED
  BY Zenon, <1>6, <1>7, <1>12 DEF b, n, s

\* The first elements of a sequence, when another one begins with them.
LEMMA PrefixOf ==
  ASSUME NEW S, NEW s \in Seq(S), NEW t \in Seq(S), \A p \in 1 .. Len(t) : s[p] = t[p]
  PROVE  SubSeq(s, 1, Len(t)) = t
<1> DEFINE u == SubSeq(s, 1, Len(t))
<1>1. Len(t) \in Nat
  BY LenProperties
<1>2. \A i \in 1 .. Len(t) : s[i] \in S
  BY ElementOfSeq
<1>3. /\ u \in Seq(S)
      /\ Len(u) = IF 1 <= Len(t) THEN Len(t) - 1 + 1 ELSE 0
      /\ \A i \in 1 .. Len(t) - 1 + 1 : u[i] = s[1 + i - 1]
  BY <1>1, <1>2, SubSeqProperties
<1> HIDE DEF u
<1>4. Len(u) = Len(t)
  BY <1>1, <1>3
<1>5. \A i \in 1 .. Len(t) : u[i] = t[i]
  BY <1>1, <1>3
<1>6. u = t
  BY <1>3, <1>4, <1>5, SeqEqual
<1> QED
  BY <1>6 DEF u

\* The buffer stays while it is read.
LEMMA SameFilled ==
  ASSUME Filled(Len(job.options)), job' = job, cut' = cut, data' = data
  PROVE  Filled(Len(job.options))'
BY Zenon, SameJob DEF Filled, Cuts, Holds

\* Nothing was decoded yet and the offset is behind the head.
LEMMA BeginsReading ==
  ASSUME Filled(Len(job.options)), Accepted', job' = job, cut' = cut,
         NEW failed, DecodeHead(data, Len(job.head), "read", failed)
  PROVE  Reading'
<1>1. /\ JobOK /\ Cuts /\ Len(cut) = Len(job.options) + 1
      /\ data \in Seq(Byte) /\ Len(data) = cut[Len(cut)]
  BY DEF Filled
<1>2. Len(job.head) \in Nat /\ Len(job.options) \in Nat /\ Len(data) \in Nat
  BY <1>1, LenProperties DEF JobOK, OptionsOf
<1>3. 1 \in 1 .. Len(cut) /\ Len(cut) \in 1 .. Len(cut) /\ 1 <= Len(cut)
  BY <1>1, <1>2
<1>4. cut[1] = Len(job.head) /\ cut[1] <= cut[Len(cut)]
  BY Zenon, <1>1, <1>3 DEF Cuts
<1>5. ~(Len(data) < Len(job.head))
  BY <1>1, <1>2, <1>4
<1>6. phase' = "read" /\ data' = data /\ offset' = Len(job.head) /\ out' = <<>>
  BY Zenon, <1>5 DEF DecodeHead
<1>7. Filled(Len(job.options))'
  BY Zenon, <1>6, SameFilled
<1>8. out' \in Seq(Option) /\ Len(out') = 0
  BY <1>6
<1>9. /\ Len(out') <= Len(job'.options) /\ offset' = cut'[Len(out') + 1]
      /\ \A k \in 1 .. Len(out') : out'[k] = job'.options[k]
  BY <1>2, <1>4, <1>6, <1>8
<1> QED
  BY <1>6, <1>7, <1>8, <1>9 DEF Reading

\* The encoder is done.
LEMMA EncoderEnds ==
  ASSUME Writing, Encoded
  PROVE  Reading' \/ Checking'
<1>1. /\ turn > Len(job.options) /\ job' = job /\ cut' = cut
      /\ turn \in 1 .. Len(job.options) + 1
      /\ Filled(turn - 1) /\ JobOK
  BY DEF Writing, Encoded, Filled
<1>2. Len(job.options) \in Nat
  BY <1>1, LenProperties DEF JobOK, OptionsOf
<1>3. turn - 1 = Len(job.options)
  BY <1>1, <1>2
<1>4. Filled(Len(job.options))
  BY Zenon, <1>1, <1>3
<1>5. CASE job.kind = "request"
  <2>1. DecodeHead(data, Len(job.head), "read", "error")
    BY Zenon, <1>5 DEF Encoded
  <2>2. Accepted'
    BY <1>1, <1>5 DEF Accepted
  <2> QED
    BY Zenon, <1>1, <1>4, <2>1, <2>2, BeginsReading
<1>6. CASE job.kind # "request"
  <2>1. phase' = "check" /\ data' = data
    BY Zenon, <1>6 DEF Encoded
  <2>2. job'.kind = "answer"
    BY <1>1, <1>6 DEF JobOK
  <2>3. Filled(Len(job.options))'
    BY Zenon, <1>1, <1>4, <2>1, SameFilled
  <2> QED
    BY <2>1, <2>2, <2>3 DEF Checking
<1> QED
  BY <1>5, <1>6

\* One more option is decoded, and it is the next one of those encoded.
LEMMA ReadOne ==
  ASSUME Reading, ReadOption
  PROVE  Reading'
<1> DEFINE L == Len(job.options)
           k == Len(out) + 1
           o == job.options[k]
           n == Len(o.data)
           stop == offset + 4 + Uint16At(data, offset + 2)
           read == [code |-> Uint16At(data, offset), data |-> SubSeq(data, offset + 5, stop)]
<1>1. /\ Filled(L) /\ Accepted /\ out \in Seq(Option) /\ Len(out) <= L
      /\ \A i \in 1 .. Len(out) : out[i] = job.options[i]
      /\ offset = cut[k]
  BY Zenon DEF Reading
<1>2. /\ offset < Len(data) /\ job' = job /\ data' = data /\ cut' = cut
      /\ IF offset + 4 > Len(data) \/ stop > Len(data)
         THEN phase' = "past" /\ UNCHANGED <<offset, out>>
         ELSE out' = Append(out, read) /\ offset' = stop /\ UNCHANGED phase
  BY Zenon DEF ReadOption
<1>3. /\ JobOK /\ Cuts /\ Len(cut) = L + 1 /\ data \in Seq(Byte) /\ Len(data) = cut[L + 1]
      /\ \A i \in 1 .. L : Holds(i)
  BY <1>1 DEF Filled
<1>4. Len(out) \in Nat /\ L \in Nat /\ Len(data) \in Nat
  BY <1>1, <1>3, LenProperties DEF JobOK, OptionsOf
<1>5. k \in 1 .. L
  <2>1. k # L + 1
    BY <1>1, <1>2, <1>3, <1>4
  <2> QED
    BY <1>1, <1>4, <2>1
<1>6. /\ k \in 1 .. L + 1 /\ k + 1 \in 1 .. L + 1 /\ L + 1 \in 1 .. L + 1
      /\ k \in 1 .. Len(cut) - 1 /\ k + 1 <= L + 1
  BY <1>3, <1>4, <1>5
<1>7. o \in Option /\ n \in Nat
  BY <1>3, <1>5, JobOption
<1>8. cut[k] \in Nat /\ cut[k + 1] = cut[k] + n + 4 /\ cut[k + 1] <= cut[L + 1]
  <2>1. cut \in Seq(Nat)
    BY <1>3 DEF Cuts
  <2>2. cut[k] \in Nat
    BY Zenon, <1>3, <1>6, <2>1, ElementOfSeq
  <2>3. cut[k + 1] = cut[k] + n + 4 /\ cut[k + 1] <= cut[L + 1]
    BY Zenon, <1>3, <1>6 DEF Cuts
  <2> QED
    BY <2>2, <2>3
<1>9. \A p \in 1 .. n + 4 : data[offset + p] = EncodeOption(o)[p]
  BY Zenon, <1>1, <1>3, <1>5 DEF Holds
<1>10. offset \in Nat /\ offset + n + 4 <= Len(data)
  BY <1>1, <1>3, <1>8
<1> HIDE DEF o
<1>11. /\ Uint16At(data, offset) = o.code /\ Uint16At(data, offset + 2) = n
       /\ SubSeq(data, offset + 5, offset + 4 + n) = o.data
  <2>1. data \in Seq(Byte) /\ o \in Option /\ offset \in Nat
    BY <1>3, <1>7, <1>10
  <2> QED
    BY Zenon, <1>9, <1>10, <2>1, ReadBack
<1>12. stop = offset + 4 + n /\ read = o
  <2>1. o = [code |-> o.code, data |-> o.data]
    BY Zenon, <1>7, OptionFields
  <2> QED
    BY Zenon, <1>11, <2>1
<1>13. ~(offset + 4 > Len(data) \/ stop > Len(data))
  BY <1>4, <1>7, <1>10, <1>12
<1>14. out' = Append(out, o) /\ offset' = offset + 4 + n /\ phase' = phase
  BY Zenon, <1>2, <1>12, <1>13
<1>15. /\ out' \in Seq(Option) /\ Len(out') = k
       /\ \A i \in 1 .. Len(out) : out'[i] = out[i]
       /\ out'[k] = o
  BY <1>1, <1>4, <1>7, <1>14, AppendProperties
<1>16. \A i \in 1 .. Len(out') : out'[i] = job'.options[i]
  <2> SUFFICES ASSUME NEW i \in 1 .. k
               PROVE  out'[i] = job.options[i]
    BY <1>2, <1>15
  <2>1. CASE i = k
    BY <1>15, <2>1 DEF o
  <2>2. CASE i # k
    <3>1. i \in 1 .. Len(out)
      BY <1>4, <2>2
    <3> QED
      BY <1>1, <1>15, <3>1
  <2> QED
    BY <2>1, <2>2
<1>17. Len(out') <= Len(job'.options) /\ offset' = cut'[Len(out') + 1]
  <2>1. offset' = cut[k + 1]
    <3>1. \A a, b \in Nat : a + 4 + b = a + b + 4
      OBVIOUS
    <3> QED
      BY Zenon, <1>1, <1>7, <1>8, <1>14, <3>1
  <2> QED
    BY <1>2, <1>4, <1>5, <1>15, <2>1
<1>18. Filled(Len(job.options))'
  BY Zenon, <1>1, <1>2, SameFilled
<1>19. phase' = "read" /\ Accepted'
  BY Zenon, <1>1, <1>2, <1>14 DEF Reading, Accepted
<1> QED
  BY Zenon, <1>15, <1>16, <1>17, <1>18, <1>19 DEF Reading

\* The loop of DecodeFromBytes ends when all the options are read.
LEMMA ReadAll ==
  ASSUME Reading, ReadEnd
  PROVE  Ended' \/ Picking'
<1> DEFINE L == Len(job.options)
<1>1. /\ Filled(L) /\ Accepted /\ out \in Seq(Option) /\ Len(out) <= L
      /\ \A i \in 1 .. Len(out) : out[i] = job.options[i]
      /\ offset = cut[Len(out) + 1] /\ phase = "read"
  BY Zenon DEF Reading
<1>2. /\ offset >= Len(data) /\ job' = job /\ data' = data /\ out' = out
      /\ phase' = CASE phase = "inner" -> "taken"
                    [] phase = "read" /\ job.kind = "request" -> "done"
                    [] phase = "read" /\ job.kind = "answer" -> "pick"
  BY Zenon DEF ReadEnd
<1>3. /\ JobOK /\ Cuts /\ Len(cut) = L + 1 /\ data \in Seq(Byte) /\ Len(data) = cut[L + 1]
      /\ \A p \in 1 .. Len(job.head) : data[p] = job.head[p]
  BY <1>1 DEF Filled
<1>4. /\ Len(out) \in Nat /\ L \in Nat /\ Len(data) \in Nat /\ Len(job.head) \in Nat
      /\ job.options \in Seq(Option) /\ job.head \in Seq(Byte)
  BY <1>1, <1>3, LenProperties DEF JobOK, OptionsOf
<1>5. Len(out) = L
  <2> SUFFICES ASSUME Len(out) < L
               PROVE  FALSE
    BY <1>1, <1>4
  <2> DEFINE k == Len(out) + 1
  <2>1. /\ k \in 1 .. L /\ k \in 1 .. Len(cut) - 1 /\ k + 1 \in 1 .. Len(cut)
        /\ k \in 1 .. Len(cut) /\ L + 1 \in 1 .. Len(cut) /\ k + 1 <= L + 1
    BY <1>3, <1>4
  <2>2. Len(job.options[k].data) \in Nat
    BY Zenon, <1>3, <2>1, JobOption
  <2>3. cut[k + 1] = cut[k] + Len(job.options[k].data) + 4 /\ cut[k + 1] <= cut[L + 1]
    BY Zenon, <1>3, <2>1 DEF Cuts
  <2>4. cut[k] \in Nat /\ cut[k] >= cut[L + 1]
    <3>1. cut \in Seq(Nat)
      BY <1>3 DEF Cuts
    <3>2. cut[k] \in Nat
      BY Zenon, <2>1, <3>1, ElementOfSeq
    <3> QED
      BY <1>1, <1>2, <1>3, <3>2
  <2>5. cut[L + 1] \in Nat
    BY <1>3, <1>4
  <2>6. cut[k] + Len(job.options[k].data) + 4 <= cut[L + 1]
    BY Zenon, <2>3
  <2>7. cut[k] \in Nat
    BY <2>4
  <2>8. ~(cut[k] >= cut[L + 1])
    BY <2>2, <2>5, <2>6, <2>7, Behind
  <2> QED
    BY <2>4, <2>8
<1>6. out = job.options
  BY <1>1, <1>4, <1>5, SeqEqual
<1>7. CASE job.kind = "request"
  <2>1. phase' = "done"
    BY <1>1, <1>2, <1>7
  <2>2. SubSeq(data, 1, Len(job.head)) = job.head
    BY <1>3, <1>4, PrefixOf
  <2>3. OptionsRoundTrip'
    BY Zenon, <1>2, <1>6, <2>1, <2>2 DEF OptionsRoundTrip
  <2>4. FirstAddressTaken' /\ NameInBounds'
    BY Zenon, <1>2, <1>7, <2>1 DEF FirstAddressTaken, NameInBounds
  <2> QED
    BY <2>1, <2>3, <2>4 DEF Ended, Promised
<1>8. CASE job.kind # "request"
  <2>1. job.kind = "answer"
    BY <1>3, <1>8 DEF JobOK
  <2>2. phase' = "pick"
    BY <1>1, <1>2, <2>1
  <2>3. JobOK' /\ Accepted'
    BY Zenon, <1>1, <1>2, <1>3, SameJob DEF Accepted
  <2> QED
    BY Zenon, <1>2, <1>6, <2>1, <2>2, <2>3 DEF Picking
<1> QED
  BY <1>7, <1>8

-----------------------------------------------------------------------------
(* The options of an answer *)

\* Like Option, but of any length: the IA_NA that Encode made.
AnyOption == [code : Uint16, data : Seq(Byte)]

\* getDHCPv6Option finds the first option with the code ...
LEMMA FirstFound ==
  ASSUME NEW options \in Seq(AnyOption), NEW code, NEW n \in DOMAIN options,
         options[n].code = code, \A l \in 1 .. n - 1 : options[l].code # code
  PROVE  getDHCPv6Option(options, code) = <<options[n]>>
<1> DEFINE found == {k \in DOMAIN options : options[k].code = code}
           c == CHOOSE k \in found : \A l \in found : k <= l
<1>1. DOMAIN options = 1 .. Len(options) /\ Len(options) \in Nat
  BY LenProperties
<1>2. n \in found
  OBVIOUS
<1>3. \A l \in found : l \in Nat /\ n <= l
  <2> TAKE l \in found
  <2>1. l \in 1 .. Len(options) /\ n \in 1 .. Len(options) /\ options[l].code = code
    BY <1>1
  <2>2. l \notin 1 .. n - 1
    BY <2>1
  <2> QED
    BY <1>1, <2>1, <2>2
<1>4. \E k \in found : \A l \in found : k <= l
  BY Zenon, <1>2, <1>3
<1>5. c \in found /\ \A l \in found : c <= l
  BY Zenon, <1>4
<1>6. c <= n /\ n <= c /\ c \in Nat /\ n \in Nat
  BY Zenon, <1>2, <1>3, <1>5
<1> HIDE DEF c
<1>7. c = n
  BY <1>6
<1>8. getDHCPv6Option(options, code) = IF found = {} THEN <<>> ELSE <<options[c]>>
  BY Zenon DEF getDHCPv6Option, c
<1>9. found # {}
  BY Zenon, <1>2
<1> QED
  BY Zenon, <1>7, <1>8, <1>9

\* ... and nothing if there is none.
LEMMA NoneFound ==
  ASSUME NEW options, NEW code, ~Has(options, code)
  PROVE  getDHCPv6Option(options, code) = <<>>
<1>1. {k \in DOMAIN options : options[k].code = code} = {}
  BY Zenon DEF Has
<1> QED
  BY Zenon, <1>1 DEF getDHCPv6Option

\* The first status decides.
LEMMA StatusRead ==
  ASSUME NEW options \in Seq(AnyOption), NEW ok \in BOOLEAN, Reports(options, ok)
  PROVE  (/\ getDHCPv6Option(options, OptStatusCode) # <<>>
          /\ ~Succeeded(getDHCPv6Option(options, OptStatusCode)[1])) <=> ~ok
<1> DEFINE status == getDHCPv6Option(options, OptStatusCode)
<1>1. CASE ok /\ ~Has(options, OptStatusCode)
  BY Zenon, <1>1, NoneFound
<1>2. CASE \E k \in DOMAIN options :
             /\ options[k].code = OptStatusCode
             /\ \A l \in 1 .. k - 1 : options[l].code # OptStatusCode
             /\ ok = Succeeded(options[k])
  <2> PICK k \in DOMAIN options :
             /\ options[k].code = OptStatusCode
             /\ \A l \in 1 .. k - 1 : options[l].code # OptStatusCode
             /\ ok = Succeeded(options[k])
    BY <1>2
  <2>1. status = <<options[k]>>
    BY FirstFound
  <2>2. status # <<>> /\ status[1] = options[k]
    BY <2>1
  <2> QED
    BY Zenon, <2>2
<1> QED
  BY Zenon, <1>1, <1>2 DEF Reports

\* The parts of a message.
LEMMA MessageParts ==
  ASSUME NEW j, j.outer \in Around, NEW d \in Seq(Byte)
  PROVE  LET B == Len(j.outer.before)
             A == Len(j.outer.after)
             M == IF j.has = "nothing" THEN 0 ELSE 1
         IN  /\ B \in Nat /\ A \in Nat
             /\ Message(j, d) \in Seq(AnyOption)
             /\ Len(Message(j, d)) = B + M + A
             /\ \A p \in 1 .. B : Message(j, d)[p] = j.outer.before[p]
             /\ M = 1 => Message(j, d)[B + 1] = [code |-> OptIANA, data |-> d]
             /\ \A p \in 1 .. A : Message(j, d)[B + M + p] = j.outer.after[p]
<1> DEFINE b == j.outer.before
           a == j.outer.after
           i == [code |-> OptIANA, data |-> d]
           mid == IF j.has = "nothing" THEN <<>> ELSE <<i>>
           M == IF j.has = "nothing" THEN 0 ELSE 1
           x == b \o mid
           y == x \o a
<1>1. Message(j, d) = y
  BY Zenon DEF Message
<1>2. b \in Seq(AnyOption) /\ a \in Seq(AnyOption)
  <2>1. b \in Seq(Option) /\ a \in Seq(Option)
    BY DEF Around
  <2>2. Option \subseteq AnyOption
    BY Zenon DEF Option, AnyOption
  <2> QED
    BY <2>1, <2>2, SeqMonotonic
<1>3. mid \in Seq(AnyOption) /\ Len(mid) = M /\ (M = 1 => mid[1] = i) /\ M \in 0 .. 1
  <2>1. i \in AnyOption
    BY DEF AnyOption, OptIANA, Uint16
  <2> HIDE DEF i
  <2> QED
    BY <2>1
<1>4. Len(b) \in Nat /\ Len(a) \in Nat
  BY <1>2, LenProperties
<1> HIDE DEF b, a, i, mid, M
<1>5. /\ x \in Seq(AnyOption) /\ Len(x) = Len(b) + Len(mid)
      /\ \A p \in 1 .. Len(b) : x[p] = b[p]
      /\ \A p \in 1 .. Len(mid) : x[Len(b) + p] = mid[p]
  <2>1. b \in Seq(AnyOption)
    BY <1>2
  <2>2. mid \in Seq(AnyOption)
    BY <1>3
  <2> QED
    BY <2>1, <2>2, Joined
<1> HIDE DEF x
<1>6. /\ y \in Seq(AnyOption) /\ Len(y) = Len(x) + Len(a)
      /\ \A p \in 1 .. Len(x) : y[p] = x[p]
      /\ \A p \in 1 .. Len(a) : y[Len(x) + p] = a[p]
  <2>1. x \in Seq(AnyOption)
    BY <1>5
  <2>2. a \in Seq(AnyOption)
    BY <1>2
  <2> QED
    BY <2>1, <2>2, Joined
<1> HIDE DEF y
<1>7. Len(x) = Len(b) + M
  BY <1>3, <1>5
<1>8. \A p \in 1 .. Len(b) : y[p] = b[p]
  BY <1>3, <1>4, <1>5, <1>6, <1>7
<1>9. M = 1 => y[Len(b) + 1] = i
  BY <1>3, <1>4, <1>5, <1>6, <1>7
<1>10. \A p \in 1 .. Len(a) : y[Len(b) + M + p] = a[p]
  BY <1>6, <1>7
<1>11. Len(y) = Len(b) + M + Len(a)
  BY <1>6, <1>7
<1> QED
  BY Zenon, <1>1, <1>4, <1>6, <1>8, <1>9, <1>10, <1>11 DEF a, b, i, M

\* The bytes of the IA_NA make no difference for codes and status.
LEMMA SameStatus ==
  ASSUME NEW j, j.outer \in Around, NEW d \in Seq(Byte), NEW ok \in BOOLEAN,
         Reports(Message(j, <<>>), ok)
  PROVE  Reports(Message(j, d), ok)
<1> DEFINE B == Len(j.outer.before)
           A == Len(j.outer.after)
           M == IF j.has = "nothing" THEN 0 ELSE 1
           m == Message(j, d)
           n == Message(j, <<>>)
<1>1. B \in Nat /\ A \in Nat /\ M \in 0 .. 1
  BY MessageParts
<1>2. <<>> \in Seq(Byte)
  OBVIOUS
<1>3. /\ m \in Seq(AnyOption) /\ Len(m) = B + M + A
      /\ \A p \in 1 .. B : m[p] = j.outer.before[p]
      /\ M = 1 => m[B + 1] = [code |-> OptIANA, data |-> d]
      /\ \A p \in 1 .. A : m[B + M + p] = j.outer.after[p]
  BY Zenon, MessageParts
<1>4. /\ n \in Seq(AnyOption) /\ Len(n) = B + M + A
      /\ \A p \in 1 .. B : n[p] = j.outer.before[p]
      /\ M = 1 => n[B + 1] = [code |-> OptIANA, data |-> <<>>]
      /\ \A p \in 1 .. A : n[B + M + p] = j.outer.after[p]
  BY Zenon, <1>2, MessageParts
<1>5. DOMAIN m = 1 .. B + M + A /\ DOMAIN n = 1 .. B + M + A
  BY Zenon, <1>3, <1>4, LenProperties
<1> HIDE DEF A, B, M, m, n
<1>6. \A k \in 1 .. B + M + A :
        /\ m[k].code = n[k].code
        /\ n[k].code = OptStatusCode => m[k] = n[k]
  <2> TAKE k \in 1 .. B + M + A
  <2>1. CASE k <= B
    <3>1. k \in 1 .. B
      BY <1>1, <2>1
    <3>2. m[k] = n[k]
      BY Zenon, <1>3, <1>4, <3>1
    <3> QED
      BY <3>2
  <2>2. CASE M = 1 /\ k = B + 1
    <3>1. m[k].code = OptIANA /\ n[k].code = OptIANA
      BY <1>3, <1>4, <2>2
    <3> QED
      BY <3>1 DEF OptIANA, OptStatusCode
  <2>3. CASE k > B + M
    <3> DEFINE p == k - (B + M)
    <3>1. p \in 1 .. A /\ B + M + p = k
      BY <1>1, <2>3
    <3> HIDE DEF p
    <3>2. m[k] = n[k]
      BY Zenon, <1>3, <1>4, <3>1
    <3> QED
      BY <3>2
  <2> QED
    BY <1>1, <2>1, <2>2, <2>3
<1>7. Reports(n, ok)
  BY DEF n
<1>8. CASE ok /\ ~Has(n, OptStatusCode)
  BY Zenon, <1>5, <1>6, <1>8 DEF Has, Reports, m
<1>9. CASE \E k \in DOMAIN n :
             /\ n[k].code = OptStatusCode
             /\ \A l \in 1 .. k - 1 : n[l].code # OptStatusCode
             /\ ok = Succeeded(n[k])
  <2> PICK k \in DOMAIN n : /\ n[k].code = OptStatusCode
                            /\ \A l \in 1 .. k - 1 : n[l].code # OptStatusCode
                            /\ ok = Succeeded(n[k])
    BY <1>9
  <2>1. k \in DOMAIN m /\ k \in 1 .. B + M + A
    BY <1>5
  <2>2. m[k] = n[k]
    BY Zenon, <1>6, <2>1
  <2>3. \A l \in 1 .. k - 1 : m[l].code # OptStatusCode
    <3> TAKE l \in 1 .. k - 1
    <3>1. l \in 1 .. B + M + A
      BY <1>1, <2>1
    <3> QED
      BY Zenon, <1>6, <3>1
  <2> QED
    BY Zenon, <2>1, <2>2, <2>3 DEF Reports, m
<1> QED
  BY Zenon, <1>7, <1>8, <1>9 DEF Reports

\* The first IA_NA of an answer is the one that was encoded.
LEMMA AssociationFound ==
  ASSUME NEW j, AnswerOf(j), NEW d \in Seq(Byte)
  PROVE  getDHCPv6Option(Message(j, d), OptIANA)
           = IF j.has = "nothing" THEN <<>> ELSE <<[code |-> OptIANA, data |-> d]>>
<1> DEFINE b == j.outer.before
           a == j.outer.after
           B == Len(b)
           A == Len(a)
           M == IF j.has = "nothing" THEN 0 ELSE 1
           m == Message(j, d)
<1>1. j.outer \in Around /\ ~Has(b, OptIANA) /\ (j.has = "nothing" => ~Has(a, OptIANA))
  BY Zenon DEF AnswerOf
<1>2. /\ m \in Seq(AnyOption) /\ Len(m) = B + M + A /\ B \in Nat /\ A \in Nat
      /\ \A p \in 1 .. B : m[p] = b[p]
      /\ M = 1 => m[B + 1] = [code |-> OptIANA, data |-> d]
      /\ \A p \in 1 .. A : m[B + M + p] = a[p]
  BY Zenon, <1>1, MessageParts
<1>3. DOMAIN b = 1 .. B /\ DOMAIN a = 1 .. A
  BY <1>1, LenProperties DEF Around
<1>4. DOMAIN m = 1 .. B + M + A
  BY <1>2, LenProperties
<1>5. \A p \in 1 .. B : m[p].code # OptIANA
  BY Zenon, <1>1, <1>2, <1>3 DEF Has
<1>6. CASE j.has = "nothing"
  <2>1. M = 0 /\ \A p \in 1 .. A : a[p].code # OptIANA
    BY Zenon, <1>1, <1>3, <1>6 DEF Has
  <2> HIDE DEF a, b, A, B, M, m
  <2>2. ~Has(m, OptIANA)
    <3> SUFFICES ASSUME NEW k \in 1 .. B + M + A
                 PROVE  m[k].code # OptIANA
      BY Zenon, <1>4 DEF Has
    <3>1. CASE k <= B
      <4>1. k \in 1 .. B
        BY <1>2, <3>1
      <4> QED
        BY Zenon, <1>5, <4>1
    <3>2. CASE k > B
      <4> DEFINE p == k - (B + M)
      <4>1. p \in 1 .. A /\ B + M + p = k
        BY <1>2, <2>1, <3>2
      <4> HIDE DEF p
      <4> QED
        BY Zenon, <1>2, <2>1, <4>1
    <3> QED
      BY <1>2, <3>1, <3>2
  <2> QED
    BY Zenon, <1>6, <2>2, NoneFound DEF m
<1>7. CASE j.has # "nothing"
  <2>1. M = 1
    BY Zenon, <1>7
  <2> HIDE DEF a, b, A, B, M, m
  <2>2. B + 1 \in DOMAIN m /\ (B + 1) - 1 = B
    <3>1. B \in Nat /\ A \in Nat
      BY Zenon, <1>2
    <3>2. B + 1 \in 1 .. B + M + A /\ (B + 1) - 1 = B
      BY <2>1, <3>1
    <3> QED
      BY Zenon, <1>4, <3>2
  <2>3. m[B + 1] = [code |-> OptIANA, data |-> d]
    BY Zenon, <1>2, <2>1
  <2>4. m[B + 1].code = OptIANA
    BY <2>3
  <2>5. m \in Seq(AnyOption) /\ \A l \in 1 .. (B + 1) - 1 : m[l].code # OptIANA
    BY Zenon, <1>2, <1>5, <2>2
  <2>6. getDHCPv6Option(m, OptIANA) = <<m[B + 1]>>
    BY <2>2, <2>4, <2>5, FirstFound
  <2> QED
    BY Zenon, <1>7, <2>3, <2>6 DEF m
<1> QED
  BY <1>6, <1>7

\* The status and the IA_NA of an answer are looked at.
LEMMA Checked ==
  ASSUME Checking, CheckAnswer
  PROVE  Ended' \/ Reading'
<1> DEFINE m == Message(job, data)
           status == getDHCPv6Option(m, OptStatusCode)
           iana == getDHCPv6Option(m, OptIANA)
           bad == (status # <<>> /\ ~Succeeded(status[1])) \/ iana = <<>>
<1>1. /\ Filled(Len(job.options)) /\ JobOK /\ data \in Seq(Byte) /\ job.kind = "answer"
  BY DEF Checking, Filled
<1>2. /\ job' = job /\ cut' = cut
      /\ IF bad THEN phase' = "reset" /\ UNCHANGED <<data, offset, out>>
         ELSE IF job.m.type = "offer"
         THEN phase' = "forward" /\ data' = iana[1].data /\ UNCHANGED <<offset, out>>
         ELSE DecodeHead(iana[1].data, IANAHead, "read", "reset")
  BY Zenon DEF CheckAnswer
<1>3. AnswerOf(job)
  BY Zenon, <1>1 DEF JobOK
<1>4. /\ job.m \in Answer /\ job.outer \in Around /\ Len(job.head) = IANAHead
      /\ job.has \in {"address", "association", "nothing"}
  BY Zenon, <1>3 DEF AnswerOf
<1>5. PICK ok \in BOOLEAN : Reports(Message(job, <<>>), ok)
                            /\ job.m.ok = (ok /\ job.has \in Needed(job.m))
  BY Zenon, <1>3 DEF AnswerOf
<1>6. m \in Seq(AnyOption) /\ Reports(m, ok)
  <2>1. job.outer \in Around /\ data \in Seq(Byte)
    BY <1>1, <1>4
  <2>2. m \in Seq(AnyOption)
    BY Zenon, <2>1, MessageParts
  <2>3. Reports(Message(job, <<>>), ok)
    BY Zenon, <1>5
  <2>4. Reports(m, ok)
    BY Zenon, <2>1, <2>3, SameStatus
  <2> QED
    BY Zenon, <2>2, <2>4
<1>7. (status # <<>> /\ ~Succeeded(status[1])) <=> ~ok
  BY Zenon, <1>6, StatusRead
<1>8. iana = IF job.has = "nothing" THEN <<>> ELSE <<[code |-> OptIANA, data |-> data]>>
  BY Zenon, <1>1, <1>3, AssociationFound
<1>9. job.m.type \in {"offer", "ack"} /\ job.m.ok \in BOOLEAN
  BY <1>4 DEF Answer
<1>10. bad <=> ~ok \/ job.has = "nothing"
  <2>1. iana = <<>> <=> job.has = "nothing"
    <3>1. <<[code |-> OptIANA, data |-> data]>> # <<>>
      OBVIOUS
    <3> QED
      BY Zenon, <1>8, <3>1
  <2> QED
    BY Zenon, <1>7, <2>1
<1> HIDE DEF bad, status
<1>11. CASE bad
  <2>1. phase' = "reset"
    BY Zenon, <1>2, <1>11
  <2>2. ~job.m.ok
    <3>1. job.has = "nothing" => job.has \notin Needed(job.m)
      BY DEF Needed
    <3> QED
      BY Zenon, <1>5, <1>10, <1>11, <3>1
  <2>3. Promised'
    BY Zenon, <1>2, <2>1, <2>2 DEF Promised, OptionsRoundTrip, FirstAddressTaken, NameInBounds
  <2> QED
    BY <2>1, <2>3 DEF Ended
<1>12. CASE ~bad
  <2>1. ok /\ job.has # "nothing" /\ (job.m.ok <=> job.has \in Needed(job.m))
    BY Zenon, <1>5, <1>9, <1>10, <1>12
  <2>2. iana[1].data = data
    <3>1. iana = <<[code |-> OptIANA, data |-> data]>>
      BY Zenon, <1>8, <2>1
    <3> HIDE DEF iana
    <3> QED
      BY <3>1
  <2>3. CASE job.m.type = "offer"
    <3>1. phase' = "forward"
      BY Zenon, <1>2, <1>12, <2>3
    <3>2. job.m.ok
      BY Zenon, <1>4, <2>1, <2>3 DEF Needed
    <3>3. Promised'
      BY Zenon, <1>2, <2>3, <3>1, <3>2
         DEF Promised, OptionsRoundTrip, FirstAddressTaken, NameInBounds
    <3> QED
      BY <3>1, <3>3 DEF Ended
  <2>4. CASE job.m.type # "offer"
    <3>1. DecodeHead(data, Len(job.head), "read", "reset")
      BY Zenon, <1>2, <1>4, <1>12, <2>2, <2>4
    <3>2. job.m.type = "ack" /\ job.m.ok = (job.has = "address")
      <4>1. job.m.type = "ack"
        BY Zenon, <1>9, <2>4
      <4>2. job.has \in Needed(job.m) <=> job.has = "address"
        BY Zenon, <2>4 DEF Needed
      <4> QED
        BY Zenon, <1>9, <2>1, <4>1, <4>2
    <3>3. Accepted'
      BY Zenon, <1>2, <2>1, <3>2 DEF Accepted
    <3> QED
      BY Zenon, <1>1, <1>2, <3>1, <3>3, BeginsReading
  <2> QED
    BY <2>3, <2>4
<1> QED
  BY <1>11, <1>12

\* The first address of the association is taken, if there is one.
LEMMA Picked ==
  ASSUME Picking, PickAddress
  PROVE  Ended' \/ Taking'
<1> DEFINE address == getDHCPv6Option(out, OptIAAddr)
<1>1. /\ job.kind = "answer" /\ JobOK /\ Accepted /\ out = job.options
  BY Zenon DEF Picking
<1>2. /\ job' = job
      /\ IF address = <<>> THEN phase' = "reset" /\ UNCHANGED <<data, offset, out>>
         ELSE DecodeHead(address[1].data, IAAddrHead, "inner", "reset")
  BY Zenon DEF PickAddress
<1>3. AnswerOf(job) /\ job.options \in Seq(Option)
  BY Zenon, <1>1 DEF JobOK, OptionsOf
<1>4. job.m \in Answer /\ AddressFirst(job)
  BY Zenon, <1>3 DEF AnswerOf
<1>5. job.m.type = "ack" /\ job.m.ok = (job.has = "address") /\ job.m.addr \in Lease
  BY <1>1, <1>4 DEF Accepted, Answer
<1>6. out \in Seq(AnyOption)
  <2>1. Option \subseteq AnyOption
    BY Zenon DEF Option, AnyOption
  <2> QED
    BY <1>1, <1>3, <2>1, SeqMonotonic
<1>7. CASE job.has = "address"
  <2> PICK n \in DOMAIN job.options :
         /\ job.options[n] = IAAddr(job.m.addr)
         /\ \A l \in 1 .. n - 1 : job.options[l].code # OptIAAddr
    BY Zenon, <1>4, <1>7 DEF AddressFirst
  <2> DEFINE b == [k \in 1 .. IAAddrHead |-> Octet[job.m.addr]]
  <2>1. out[n] = [code |-> OptIAAddr, data |-> b]
    BY Zenon, <1>1 DEF IAAddr
  <2>2. n \in DOMAIN out /\ \A l \in 1 .. n - 1 : out[l].code # OptIAAddr
    BY Zenon, <1>1
  <2>3. Len(b) = IAAddrHead
    <3>1. Octet[job.m.addr] \in Byte
      BY <1>5, OptionsAssumption
    <3>2. b \in [1 .. IAAddrHead -> Byte]
      BY <3>1
    <3>3. IAAddrHead \in Nat
      BY DEF IAAddrHead
    <3> HIDE DEF b
    <3> QED
      BY <3>2, <3>3, LenProperties
  <2> HIDE DEF b
  <2>4. out[n].code = OptIAAddr /\ out[n].data = b
    BY <2>1
  <2>5. address = <<out[n]>>
    BY Zenon, <1>6, <2>2, <2>4, FirstFound
  <2> HIDE DEF address
  <2>6. address # <<>> /\ address[1].data = b
    BY <2>4, <2>5
  <2>7. ~(Len(b) < IAAddrHead)
    BY <2>3 DEF IAAddrHead
  <2>8. phase' = "inner" /\ data' = b /\ offset' = IAAddrHead
    BY Zenon, <1>2, <2>6, <2>7 DEF DecodeHead
  <2> QED
    BY Zenon, <1>2, <1>5, <1>7, <2>8 DEF Taking, b
<1>8. CASE job.has # "address"
  <2>1. ~Has(job.options, OptIAAddr)
    BY Zenon, <1>4, <1>8 DEF AddressFirst
  <2>2. address = <<>>
    BY Zenon, <1>1, <2>1, NoneFound
  <2>3. phase' = "reset" /\ ~job.m.ok
    BY Zenon, <1>2, <1>5, <1>8, <2>2
  <2>4. Promised'
    BY Zenon, <1>2, <2>3 DEF Promised, OptionsRoundTrip, FirstAddressTaken, NameInBounds
  <2> QED
    BY <2>3, <2>4 DEF Ended
<1> QED
  BY <1>7, <1>8

\* An IA Address without options is decoded at once.
LEMMA Taken ==
  ASSUME Taking, ReadOption \/ ReadEnd
  PROVE  Ended'
<1> DEFINE a == Octet[job.m.addr]
<1>1. /\ job.m.type = "ack" /\ job.m.ok /\ offset = IAAddrHead /\ phase = "inner"
      /\ data = [k \in 1 .. IAAddrHead |-> a] /\ a \in Byte
  BY OptionsAssumption DEF Taking
<1> HIDE DEF a
<1>2. data \in Seq(Byte) /\ Len(data) = IAAddrHead
  <2>1. data \in [1 .. IAAddrHead -> Byte]
    BY <1>1
  <2>2. IAAddrHead \in Nat
    BY DEF IAAddrHead
  <2> QED
    BY <2>1, <2>2, LenProperties
<1>3. ~(offset < Len(data))
  BY <1>1, <1>2 DEF IAAddrHead
<1>4. phase' = "taken" /\ job' = job /\ data' = data
  BY Zenon, <1>1, <1>3 DEF ReadOption, ReadEnd
<1>5. SubSeq(data, 1, 16) = [k \in 1 .. 16 |-> a]
  <2> DEFINE t == [k \in 1 .. 16 |-> a]
  <2>1. t \in [1 .. 16 -> Byte]
    BY <1>1
  <2>2. t \in Seq(Byte) /\ Len(t) = 16
    BY <2>1
  <2>3. \A p \in 1 .. Len(t) : data[p] = t[p]
    <3> TAKE p \in 1 .. Len(t)
    <3>1. p \in 1 .. 16 /\ p \in 1 .. IAAddrHead
      BY <2>2 DEF IAAddrHead
    <3> QED
      BY Zenon, <1>1, <3>1
  <2> HIDE DEF t
  <2>4. SubSeq(data, 1, Len(t)) = t
    BY Zenon, <1>2, <2>2, <2>3, PrefixOf
  <2> QED
    BY Zenon, <2>2, <2>4 DEF t
<1>6. Promised'
  BY Zenon, <1>1, <1>4, <1>5 DEF Promised, OptionsRoundTrip, FirstAddressTaken, NameInBounds, a
<1> QED
  BY <1>4, <1>6 DEF Ended

-----------------------------------------------------------------------------
(* The domain name *)

\* The length of a label fits a byte.
LEMMA LabelAt ==
  ASSUME NEW labels \in Seq(Label), NEW k \in 1 .. Len(labels)
  PROVE  /\ labels[k] \in Seq(Byte) /\ Len(labels[k]) \in Byte
         /\ Len(labels[k]) \in Nat /\ Len(labels[k]) < 256
<1>1. labels[k] \in Label
  BY ElementOfSeq
<1>2. labels[k] \in Seq(Byte) /\ Len(labels[k]) \in Byte
  BY Zenon, <1>1 DEF Label
<1> QED
  BY <1>2 DEF Byte

\* One more label behind its length.
LEMMA SpelledOne ==
  ASSUME Spelling, SpellLabel
  PROVE  Spelling'
<1> DEFINE n == Len(cut)
           label == job.labels[n]
           l == Len(label)
           b == Append(data, l)
           x == Len(data) + 1 + l
<1>1. /\ Spelled /\ cut[n] = Len(data) /\ phase = "spell"
  BY Zenon DEF Spelling
<1>2. /\ job.kind = "name" /\ job.labels \in Seq(Label)
      /\ cut \in Seq(Nat) /\ n \in 1 .. Len(job.labels) + 1
      /\ data \in Seq(Byte) /\ cut[1] = 1
      /\ \A k \in 1 .. n : cut[k] <= Len(data)
      /\ \A k \in 1 .. n - 1 : SpelledAt(k)
  BY Zenon, <1>1 DEF Spelled
<1>3. Len(data) \in Nat /\ Len(job.labels) \in Nat
  BY <1>2, LenProperties
<1>4. n <= Len(job.labels) /\ n \in 1 .. Len(job.labels) /\ n \in 1 .. n /\ n \in Nat /\ n >= 1
  BY <1>2, <1>3 DEF SpellLabel
<1>5. job.labels \in Seq(Label)
  BY <1>2
<1>6. label \in Seq(Byte) /\ l \in Byte /\ l \in Nat /\ l < 256
  BY Zenon, <1>4, <1>5, LabelAt
<1> HIDE DEF l
<1>7. l % 256 = l
  BY <1>6
<1>8. /\ phase' = "spell" /\ job' = job
      /\ data' = b \o label /\ cut' = Append(cut, x)
  BY Zenon, <1>1, <1>2, <1>7 DEF SpellLabel, l
<1>11. x \in Nat
  BY <1>3, <1>6
<1> HIDE DEF label, x
<1>12. /\ cut' \in Seq(Nat) /\ Len(cut') = n + 1
       /\ \A k \in 1 .. n : cut'[k] = cut[k]
       /\ cut'[n + 1] = x
  BY <1>2, <1>4, <1>8, <1>11, AppendProperties
<1>14. /\ b \in Seq(Byte) /\ Len(b) = Len(data) + 1
       /\ \A p \in 1 .. Len(data) : b[p] = data[p]
       /\ b[Len(data) + 1] = l
  BY <1>2, <1>3, <1>6, AppendProperties
<1> HIDE DEF b
<1>15. /\ data' \in Seq(Byte) /\ Len(data') = Len(b) + l
       /\ \A p \in 1 .. Len(b) : data'[p] = b[p]
  <2>1. b \in Seq(Byte)
    BY <1>14
  <2>2. label \in Seq(Byte)
    BY <1>6
  <2>3. data' = b \o label
    BY <1>8
  <2> QED
    BY <2>1, <2>2, <2>3, Joined DEF l
<1>16. /\ Len(data') = x
       /\ \A p \in 1 .. Len(data) : data'[p] = data[p]
       /\ data'[Len(data) + 1] = l
  BY <1>3, <1>6, <1>14, <1>15 DEF x
<1>17. \A k \in 1 .. Len(cut') : cut'[k] <= Len(data')
  <2> SUFFICES ASSUME NEW k \in 1 .. n + 1
               PROVE  cut'[k] <= Len(data')
    BY <1>12
  <2>1. CASE k = n + 1
    BY <1>11, <1>12, <1>16, <2>1
  <2>2. CASE k # n + 1
    <3>1. k \in 1 .. n
      BY <1>4, <2>2
    <3>2. cut[k] \in Nat /\ cut[k] <= Len(data)
      BY Zenon, <1>2, <3>1, ElementOfSeq
    <3>3. Len(data) <= x
      BY <1>3, <1>6 DEF x
    <3> QED
      BY <1>3, <1>11, <1>12, <1>16, <3>1, <3>2, <3>3
  <2> QED
    BY <2>1, <2>2
<1>18. \A k \in 1 .. Len(cut') - 1 : SpelledAt(k)'
  <2> TAKE k \in 1 .. Len(cut') - 1
  <2> DEFINE Goal == /\ cut'[k + 1] = cut[k] + 1 + Len(job.labels[k])
                     /\ data'[cut[k] + 1] = Len(job.labels[k])
  <2>0. k \in 1 .. n
    BY <1>4, <1>12
  <2>1. ASSUME k = n PROVE Goal
    BY Zenon, <1>1, <1>12, <1>16, <2>1 DEF x, l, label
  <2>2. ASSUME k # n PROVE Goal
    <3>1. k \in 1 .. n - 1 /\ k + 1 \in 1 .. n
      BY <1>4, <2>0, <2>2
    <3> DEFINE w == job.labels[k]
               c == cut[k]
    <3>2. cut[k + 1] = c + 1 + Len(w) /\ data[c + 1] = Len(w)
      BY Zenon, <1>2, <3>1 DEF SpelledAt
    <3>3. cut[k + 1] <= Len(data) /\ c \in Nat
      BY Zenon, <1>2, <2>0, <3>1, ElementOfSeq
    <3>4. Len(w) \in Nat
      <4>1. k \in 1 .. Len(job.labels)
        BY <1>3, <1>4, <3>1
      <4> QED
        BY Zenon, <1>5, <4>1, LabelAt
    <3>5. cut'[k + 1] = cut[k + 1]
      BY Zenon, <1>12, <3>1
    <3> HIDE DEF w, c
    <3>6. c + 1 \in 1 .. Len(data)
      BY <1>3, <3>2, <3>3, <3>4
    <3> QED
      BY Zenon, <1>16, <3>2, <3>5, <3>6 DEF w, c
  <2>3. Goal
    BY Zenon, <2>1, <2>2
  <2>4. cut'[k] = cut[k] /\ job' = job
    BY Zenon, <1>8, <1>12, <2>0
  <2> QED
    BY Zenon, <2>3, <2>4 DEF SpelledAt
<1>19. cut'[1] = 1 /\ cut'[Len(cut')] = Len(data') /\ Len(cut') \in 1 .. Len(job'.labels) + 1
  BY <1>2, <1>3, <1>4, <1>8, <1>12, <1>16
<1>20. Spelled'
  BY Zenon, <1>2, <1>8, <1>12, <1>15, <1>17, <1>18, <1>19 DEF Spelled
<1> QED
  BY Zenon, <1>8, <1>19, <1>20 DEF Spelling

\* The name ends with a zero; decoding it begins with the first label.
LEMMA SpelledAll ==
  ASSUME Spelling, SpellEnd
  PROVE  Parsing'
<1> DEFINE n == Len(cut)
           b == Append(data, 0)
<1>1. Spelled /\ cut[n] = Len(data)
  BY Zenon DEF Spelling
<1>2. /\ job.kind = "name" /\ job.labels \in Seq(Label)
      /\ cut \in Seq(Nat) /\ n \in 1 .. Len(job.labels) + 1
      /\ data \in Seq(Byte) /\ cut[1] = 1
      /\ \A k \in 1 .. n : cut[k] <= Len(data)
      /\ \A k \in 1 .. n - 1 : SpelledAt(k)
  BY Zenon, <1>1 DEF Spelled
<1>3. /\ n > Len(job.labels) /\ job' = job /\ cut' = cut
      /\ DecodeHead(b, 2, "parse", "error")
  BY Zenon DEF SpellEnd
<1>4. Len(data) \in Nat /\ Len(job.labels) \in Nat
  BY <1>2, LenProperties
<1>5. n = Len(job.labels) + 1 /\ 1 \in 1 .. n /\ n \in 1 .. n
  BY <1>2, <1>3, <1>4
<1>6. /\ b \in Seq(Byte) /\ Len(b) = Len(data) + 1
      /\ \A p \in 1 .. Len(data) : b[p] = data[p]
      /\ b[Len(data) + 1] = 0
  <2>1. 0 \in Byte
    BY DEF Byte
  <2> QED
    BY <1>2, <1>4, <2>1, AppendProperties
<1> HIDE DEF b
<1>7. 1 <= Len(data)
  BY <1>2, <1>5
<1>8. ~(Len(b) < 2) /\ 2 \in 1 .. Len(b)
  BY <1>4, <1>6, <1>7
<1>9. phase' = "parse" /\ data' = b /\ offset' = 2 /\ out' = <<>>
  BY Zenon, <1>3, <1>8 DEF DecodeHead
<1>10. \A k \in 1 .. n : cut'[k] <= Len(data')
  <2> TAKE k \in 1 .. n
  <2>1. cut[k] \in Nat /\ cut[k] <= Len(data)
    BY Zenon, <1>2, ElementOfSeq
  <2> QED
    BY <1>3, <1>4, <1>6, <1>9, <2>1
<1>11. \A k \in 1 .. n - 1 : data'[cut[k] + 1] = Len(job.labels[k])
  <2> TAKE k \in 1 .. n - 1
  <2> DEFINE w == job.labels[k]
             c == cut[k]
  <2>1. k + 1 \in 1 .. n /\ k \in 1 .. n /\ k \in 1 .. Len(job.labels)
    BY <1>4, <1>5
  <2>2. cut[k + 1] = c + 1 + Len(w) /\ data[c + 1] = Len(w)
    BY Zenon, <1>2 DEF SpelledAt
  <2>3. cut[k + 1] <= Len(data) /\ c \in Nat
    BY Zenon, <1>2, <2>1, ElementOfSeq
  <2>4. Len(w) \in Nat
    BY Zenon, <1>2, <2>1, LabelAt
  <2> HIDE DEF w, c
  <2>5. c + 1 \in 1 .. Len(data)
    BY <1>4, <2>2, <2>3, <2>4
  <2> QED
    BY Zenon, <1>6, <1>9, <2>2, <2>5 DEF w, c
<1>12. Spelled'
  BY Zenon, <1>2, <1>3, <1>6, <1>9, <1>10, <1>11 DEF Spelled, SpelledAt
<1>13. AtLabel'
  <2>1. Len(data') = cut'[Len(cut')] + 1 /\ data'[Len(data')] = 0
    BY <1>1, <1>3, <1>6, <1>9
  <2>2. \A k \in 1 .. Len(cut') : cut'[k] <= cut'[Len(cut')]
    BY Zenon, <1>1, <1>2, <1>3
  <2>3. 1 \in 1 .. Len(cut') /\ offset' = cut'[1] + 1
    BY <1>2, <1>3, <1>5, <1>9
  <2> QED
    BY Zenon, <1>3, <1>5, <1>12, <2>1, <2>2, <2>3 DEF AtLabel
<1>14. data' \in Seq(Byte) /\ offset' \in 1 .. Len(data')
  BY <1>6, <1>8, <1>9
<1> QED
  BY Zenon, <1>2, <1>3, <1>9, <1>13, <1>14 DEF Parsing

\* At a label the decoder finds its length, and the label fits; behind the last
\* one it finds zero.
LEMMA LabelFound ==
  ASSUME AtLabel
  PROVE  \/ data[offset] = 0
         \/ \E k \in 1 .. Len(job.labels) :
              /\ offset = cut[k] + 1 /\ data[offset] = Len(job.labels[k])
              /\ Fits(data, offset, data[offset])
<1>1. /\ job.labels \in Seq(Label) /\ cut \in Seq(Nat) /\ data \in Seq(Byte)
      /\ Len(cut) = Len(job.labels) + 1
      /\ \A k \in 1 .. Len(cut) - 1 : SpelledAt(k)
      /\ Len(data) = cut[Len(cut)] + 1 /\ data[Len(data)] = 0
      /\ \A k \in 1 .. Len(cut) : cut[k] <= cut[Len(cut)]
  BY Zenon DEF AtLabel, Spelled
<1>2. PICK k \in 1 .. Len(cut) : offset = cut[k] + 1
  BY Zenon DEF AtLabel
<1>3. Len(job.labels) \in Nat /\ Len(data) \in Nat
  BY <1>1, LenProperties
<1>4. CASE k = Len(cut)
  BY Zenon, <1>1, <1>2, <1>4
<1>5. CASE k # Len(cut)
  <2> DEFINE l == Len(job.labels[k])
             c == cut[k]
  <2>1. k \in 1 .. Len(job.labels) /\ k \in 1 .. Len(cut) - 1 /\ k + 1 \in 1 .. Len(cut)
    <3> DEFINE n == Len(job.labels)
               N == Len(cut)
    <3>1. n \in Nat /\ N = n + 1 /\ k \in 1 .. N /\ k # N
      BY Zenon, <1>1, <1>3, <1>5
    <3> HIDE DEF n, N
    <3>2. k \in 1 .. n /\ k \in 1 .. N - 1 /\ k + 1 \in 1 .. N
      BY <3>1
    <3> QED
      BY <3>2 DEF n, N
  <2>2. l \in Nat
    <3>1. job.labels \in Seq(Label)
      BY Zenon, <1>1
    <3> QED
      BY <2>1, <3>1, LabelAt
  <2>3. cut[k + 1] = c + 1 + l /\ data[c + 1] = l
    BY Zenon, <1>1, <2>1 DEF SpelledAt
  <2>4. c \in Nat
    BY Zenon, <1>1, ElementOfSeq
  <2>5. cut[Len(cut)] \in Nat /\ cut[k + 1] <= cut[Len(cut)]
    <3>1. Len(cut) \in 1 .. Len(cut)
      BY <1>1, <1>3
    <3> QED
      BY Zenon, <1>1, <2>1, <3>1, ElementOfSeq
  <2>6. offset = c + 1
    BY Zenon, <1>2
  <2> HIDE DEF l, c
  <2>7. c + 1 + l + 1 <= Len(data)
    BY <1>1, <2>2, <2>3, <2>4, <2>5
  <2>8. Fits(data, offset, l)
    BY <1>3, <2>2, <2>4, <2>6, <2>7 DEF Fits
  <2>9. data[offset] = l
    BY Zenon, <2>3, <2>6
  <2> QED
    BY Zenon, <1>2, <2>1, <2>8, <2>9 DEF l
<1> QED
  BY <1>4, <1>5

\* One more label is decoded, or the name ends.
LEMMA Parsed ==
  ASSUME Parsing, ParseLabel
  PROVE  Parsing' \/ Ended'
<1> DEFINE l == data[offset]
<1>1. /\ job.kind \in {"name", "received"} /\ data \in Seq(Byte) /\ phase = "parse"
      /\ offset \in 1 .. Len(data) /\ (job.kind = "name" => AtLabel)
  BY Zenon DEF Parsing
<1>2. /\ job' = job /\ data' = data /\ cut' = cut
      /\ IF offset > Len(data) THEN phase' = "past" /\ UNCHANGED <<offset, out>>
         ELSE IF l = 0 THEN phase' = "done" /\ UNCHANGED <<offset, out>>
         ELSE IF ~Fits(data, offset, l) THEN phase' = "error" /\ UNCHANGED <<offset, out>>
         ELSE /\ out' = out \o SubSeq(data, offset + 1, offset + l)
              /\ offset' = offset + l + 1
              /\ UNCHANGED phase
  BY Zenon DEF ParseLabel
<1>3. Len(data) \in Nat /\ ~(offset > Len(data))
  BY <1>1, LenProperties
<1>4. l \in Nat
  <2>1. l \in Byte
    BY <1>1, ElementOfSeq
  <2> QED
    BY <2>1 DEF Byte
<1> HIDE DEF l
<1>5. CASE l = 0
  <2>1. phase' = "done" /\ out' = out
    BY Zenon, <1>2, <1>3, <1>5
  <2>2. Promised'
    BY Zenon, <1>1, <1>2, <2>1
       DEF Promised, OptionsRoundTrip, FirstAddressTaken, NameInBounds
  <2> QED
    BY <2>1, <2>2 DEF Ended
<1>6. CASE l # 0 /\ ~Fits(data, offset, l)
  <2>1. phase' = "error"
    BY Zenon, <1>2, <1>3, <1>6
  <2>2. job.kind # "name"
    BY Zenon, <1>1, <1>6, LabelFound DEF l
  <2>3. Promised'
    BY Zenon, <1>1, <1>2, <2>1, <2>2
       DEF Promised, OptionsRoundTrip, FirstAddressTaken, NameInBounds
  <2> QED
    BY <2>1, <2>3 DEF Ended
<1>7. CASE l # 0 /\ Fits(data, offset, l)
  <2>1. phase' = "parse" /\ offset' = offset + l + 1
    BY Zenon, <1>1, <1>2, <1>3, <1>7
  <2>2. offset' \in 1 .. Len(data')
    BY <1>1, <1>2, <1>3, <1>4, <1>7, <2>1 DEF Fits
  <2>3. ASSUME job.kind = "name"
        PROVE  AtLabel'
    <3>1. AtLabel
      BY <1>1, <2>3
    <3>2. PICK k \in 1 .. Len(job.labels) :
            offset = cut[k] + 1 /\ l = Len(job.labels[k])
      BY Zenon, <1>7, <3>1, LabelFound DEF l
    <3>3. /\ Len(cut) = Len(job.labels) + 1 /\ job.labels \in Seq(Label)
          /\ cut \in Seq(Nat) /\ \A i \in 1 .. Len(cut) - 1 : SpelledAt(i)
      BY Zenon, <3>1 DEF AtLabel, Spelled
    <3>4. Len(job.labels) \in Nat
      BY <3>3, LenProperties
    <3>5. k \in 1 .. Len(cut) - 1 /\ k + 1 \in 1 .. Len(cut) /\ k \in 1 .. Len(cut)
      BY <3>3, <3>4
    <3>6. cut[k + 1] = cut[k] + 1 + l
      BY Zenon, <3>2, <3>3, <3>5 DEF SpelledAt
    <3>7. cut[k] \in Nat
      BY Zenon, <3>3, <3>5, ElementOfSeq
    <3>8. offset' = cut[k + 1] + 1
      <4> DEFINE c == cut[k]
      <4>1. offset' = c + 1 + l + 1 /\ cut[k + 1] = c + 1 + l /\ c \in Nat
        BY Zenon, <2>1, <3>2, <3>6, <3>7
      <4> HIDE DEF c
      <4> QED
        BY Zenon, <4>1
    <3>10. Spelled'
      <4>1. Spelled
        BY Zenon, <3>1 DEF AtLabel
      <4> QED
        BY Zenon, <1>2, <4>1 DEF Spelled, SpelledAt
    <3> QED
      BY Zenon, <1>2, <3>1, <3>5, <3>8, <3>10 DEF AtLabel
  <2> QED
    BY Zenon, <1>1, <1>2, <2>1, <2>2, <2>3 DEF Parsing
<1> QED
  BY <1>5, <1>6, <1>7

-----------------------------------------------------------------------------
(* The beginnings *)

\* An address as an option.
LEMMA AddressOption ==
  ASSUME NEW a \in Lease
  PROVE  IAAddr(a) \in Option /\ <<IAAddr(a)>> \in Seq(Option)
<1> DEFINE n == IAAddrHead
           d == [k \in 1 .. n |-> Octet[a]]
<1>1. n \in Uint16 /\ n \in Nat
  BY DEF IAAddrHead, Uint16
<1>2. Octet[a] \in Byte
  BY OptionsAssumption
<1> HIDE DEF n
<1>3. d \in Seq(Byte) /\ Len(d) = n
  BY <1>1, <1>2
<1>4. OptIAAddr \in Uint16
  BY DEF OptIAAddr, Uint16
<1>5. IAAddr(a) = [code |-> OptIAAddr, data |-> d]
  BY DEF IAAddr, n
<1> HIDE DEF d
<1>6. IAAddr(a) \in [code : Uint16, data : Seq(Byte)] /\ IAAddr(a).data = d
  BY <1>3, <1>4, <1>5
<1>7. IAAddr(a) \in Option
  BY Zenon, <1>1, <1>3, <1>6 DEF Option
<1> QED
  BY <1>7

\* OptionsLen begins with the length of the head.
LEMMA FirstCut ==
  ASSUME OptionsOf(job'), cut' = <<Len(job'.head)>>
  PROVE  Cuts'
<1> DEFINE h == Len(job'.head)
           n == Len(job'.options)
<1>1. h \in Nat /\ n \in Nat
  <2>1. job'.head \in Seq(Byte) /\ job'.options \in Seq(Option)
    BY Zenon DEF OptionsOf
  <2> QED
    BY <2>1, LenProperties
<1>2. cut' = <<h>>
  OBVIOUS
<1> HIDE DEF h, n
<1>3. cut' \in Seq(Nat) /\ Len(cut') = 1 /\ cut'[1] = h
  BY <1>1, <1>2
<1>4. Len(cut') \in 1 .. n + 1
  BY <1>1, <1>3
<1>5. \A k \in 1 .. Len(cut') - 1 :
        cut'[k + 1] = cut'[k] + Len(job'.options[k].data) + 4
  <2>1. \A k \in 1 .. Len(cut') - 1 : FALSE
    BY <1>3
  <2> QED
    BY Zenon, <2>1
<1>6. \A k, l \in 1 .. Len(cut') : k <= l => cut'[k] <= cut'[l]
  BY <1>1, <1>3
<1> QED
  BY Zenon, <1>3, <1>4, <1>5, <1>6 DEF Cuts, h, n

\* The client's association is options.
LEMMA RequestBegins ==
  ASSUME NEW m \in ClientMessage, NEW head \in Heads, NEW around \in Inner,
         StartRequest(m, head, around)
  PROVE  Measuring'
<1> DEFINE b == around.before
           a == around.after
           s == Association(m)
<1>1. head \in Seq(Byte) /\ b \in Seq(Option) /\ a \in Seq(Option)
  BY OptionsAssumption DEF Around
<1>2. s \in Seq(Option)
  <2>1. CASE m = Discover
    BY <2>1 DEF Discover, Association
  <2>2. CASE m # Discover
    <3>1. PICK x \in Lease : m = Request(x)
      BY Zenon, <2>2 DEF ClientMessage
    <3>2. m.type # "discover" /\ m.addr = x
      BY <3>1 DEF Request
    <3>3. s = <<IAAddr(x)>>
      BY Zenon, <3>2 DEF Association
    <3> QED
      BY Zenon, <3>3, AddressOption
  <2> QED
    BY <2>1, <2>2
<1>3. /\ phase' = "measure" /\ cut' = <<Len(head)>>
      /\ job' = [kind |-> "request", head |-> head, options |-> b \o s \o a]
  BY Zenon DEF StartRequest
<1> HIDE DEF a, b, s
<1>4. b \o s \in Seq(Option)
  BY <1>1, <1>2
<1> DEFINE e == b \o s \o a
<1>5. e \in Seq(Option)
  BY <1>1, <1>4
<1> HIDE DEF e
<1>6. job'.kind = "request" /\ job'.head = head /\ job'.options = e
  BY <1>3 DEF e
<1>7. OptionsOf(job')
  BY Zenon, <1>1, <1>5, <1>6 DEF OptionsOf
<1>8. Cuts'
  BY Zenon, <1>3, <1>6, <1>7, FirstCut
<1>9. JobOK'
  <2>1. job'.kind # "answer"
    BY <1>6
  <2> QED
    BY Zenon, <1>6, <1>7, <2>1 DEF JobOK, OptionsOf
<1> QED
  BY Zenon, <1>3, <1>8, <1>9 DEF Measuring

\* The address put between other options is the first one.
LEMMA PutFirst ==
  ASSUME NEW b \in Seq(Option), NEW c \in Seq(Option), NEW a \in Lease,
         ~Has(b, OptIAAddr)
  PROVE  /\ b \o <<IAAddr(a)>> \o c \in Seq(Option)
         /\ \E n \in DOMAIN (b \o <<IAAddr(a)>> \o c) :
              /\ (b \o <<IAAddr(a)>> \o c)[n] = IAAddr(a)
              /\ \A l \in 1 .. n - 1 : (b \o <<IAAddr(a)>> \o c)[l].code # OptIAAddr
<1> DEFINE x == IAAddr(a)
           t == <<x>>
           e == b \o t
           f == e \o c
           n == Len(b) + 1
<1>1. x \in Option /\ t \in Seq(Option)
  BY Zenon, AddressOption
<1> HIDE DEF x
<1>2. Len(t) = 1 /\ t[1] = x
  OBVIOUS
<1>3. Len(b) \in Nat /\ Len(c) \in Nat /\ DOMAIN b = 1 .. Len(b)
  BY LenProperties
<1> HIDE DEF t
<1>4. /\ e \in Seq(Option) /\ Len(e) = Len(b) + Len(t)
      /\ \A p \in 1 .. Len(b) : e[p] = b[p]
      /\ \A p \in 1 .. Len(t) : e[Len(b) + p] = t[p]
  BY <1>1, Joined
<1> HIDE DEF e
<1>5. /\ f \in Seq(Option) /\ Len(f) = Len(e) + Len(c)
      /\ \A p \in 1 .. Len(e) : f[p] = e[p]
  <2>1. e \in Seq(Option) /\ c \in Seq(Option)
    BY <1>4
  <2> QED
    BY <2>1, Joined
<1>6. DOMAIN f = 1 .. Len(f)
  BY <1>5, LenProperties
<1> HIDE DEF f
<1>7. n \in 1 .. Len(e) /\ n \in DOMAIN f /\ 1 \in 1 .. Len(t)
  BY <1>2, <1>3, <1>4, <1>5, <1>6
<1>8. f[n] = x
  BY Zenon, <1>2, <1>4, <1>5, <1>7
<1>9. \A l \in 1 .. n - 1 : f[l].code # OptIAAddr
  <2> TAKE l \in 1 .. n - 1
  <2>1. l \in 1 .. Len(b) /\ l \in 1 .. Len(e)
    BY <1>2, <1>3, <1>4
  <2>2. f[l] = b[l]
    BY Zenon, <1>4, <1>5, <2>1
  <2> QED
    BY Zenon, <1>3, <2>1, <2>2 DEF Has
<1>10. f \in Seq(Option) /\ \E k \in DOMAIN f : f[k] = x /\ \A l \in 1 .. k - 1 : f[l].code # OptIAAddr
  BY Zenon, <1>5, <1>7, <1>8, <1>9
<1> QED
  BY Zenon, <1>10 DEF f, e, t, x

\* What StartAnswer asks of the answer and the options around it.
LEMMA AnswerBegins ==
  ASSUME NEW m \in Answer, NEW head \in Heads, NEW outer \in Outer, NEW inner \in Inner,
         NEW has \in {"address", "association", "nothing"}, NEW ok \in BOOLEAN,
         StartAnswer(m, head, outer, inner, has, ok)
  PROVE  Measuring'
<1> DEFINE b == inner.before
           c == inner.after
           e == IF has = "address" THEN b \o <<IAAddr(m.addr)>> \o c ELSE b
<1>1. /\ head \in Seq(Byte) /\ b \in Seq(Option) /\ c \in Seq(Option)
      /\ outer \in Around /\ m.addr \in Lease
  BY OptionsAssumption DEF Around, Answer
<1>2. /\ phase' = "measure" /\ cut' = <<Len(head)>> /\ Len(head) = IANAHead
      /\ ~Has(outer.before, OptIANA) /\ ~Has(b, OptIAAddr)
      /\ has = "nothing" => ~Has(outer.after, OptIANA)
      /\ Reports(Message(job', <<>>), ok) /\ m.ok = (ok /\ has \in Needed(m))
      /\ job' = [kind |-> "answer", m |-> m, head |-> head, outer |-> outer, has |-> has,
                 options |-> e]
  BY Zenon DEF StartAnswer
<1> HIDE DEF b, c
<1>3. e \in Seq(Option)
  BY Zenon, <1>1, <1>2, PutFirst
<1>4. IF has = "address"
      THEN \E n \in DOMAIN e : /\ e[n] = IAAddr(m.addr)
                               /\ \A l \in 1 .. n - 1 : e[l].code # OptIAAddr
      ELSE ~Has(e, OptIAAddr)
  BY Zenon, <1>1, <1>2, PutFirst
<1> HIDE DEF e
<1>6. /\ job'.kind = "answer" /\ job'.m = m /\ job'.head = head /\ job'.outer = outer
      /\ job'.has = has /\ job'.options = e
  BY <1>2
<1>7. OptionsOf(job')
  BY Zenon, <1>1, <1>3, <1>6 DEF OptionsOf
<1>8. Cuts'
  BY Zenon, <1>2, <1>6, <1>7, FirstCut
<1>9. AnswerOf(job')
  <2>1. AddressFirst(job')
    BY Zenon, <1>4, <1>6 DEF AddressFirst
  <2>2. \E o \in BOOLEAN :
          Reports(Message(job', <<>>), o) /\ m.ok = (o /\ has \in Needed(m))
    BY Zenon, <1>2
  <2> QED
    BY Zenon, <1>1, <1>2, <1>6, <2>1, <2>2 DEF AnswerOf
<1>10. JobOK'
  BY Zenon, <1>6, <1>7, <1>9 DEF JobOK
<1> QED
  BY Zenon, <1>2, <1>8, <1>10 DEF Measuring

\* Before the first label.
LEMMA NameBegins ==
  ASSUME NEW labels \in HostName, StartName(labels)
  PROVE  Spelling'
<1>1. labels \in Seq(Label)
  BY Zenon, OptionsAssumption
<1>2. /\ phase' = "spell" /\ data' = <<0>> /\ cut' = <<1>>
      /\ job' = [kind |-> "name", labels |-> labels]
  BY Zenon DEF StartName
<1>3. job'.kind = "name" /\ job'.labels = labels
  BY <1>2
<1>4. Len(labels) \in Nat
  BY <1>1, LenProperties
<1>5. data' \in Seq(Byte) /\ Len(data') = 1
  <2>1. 0 \in Byte
    BY DEF Byte
  <2> QED
    BY <1>2, <2>1
<1>6. /\ cut' \in Seq(Nat) /\ Len(cut') = 1 /\ cut'[1] = 1
      /\ Len(cut') \in 1 .. Len(labels) + 1
  BY <1>2, <1>4
<1>8. /\ \A k \in 1 .. Len(cut') : cut'[k] <= Len(data')
      /\ \A k \in 1 .. Len(cut') - 1 : FALSE
      /\ cut'[Len(cut')] = Len(data')
  BY <1>5, <1>6
<1> QED
  BY Zenon, <1>1, <1>2, <1>3, <1>5, <1>6, <1>8 DEF Spelling, Spelled

\* Data of at least two bytes is parsed; less is refused.
LEMMA ReceivedBegins ==
  ASSUME NEW bytes \in Received, StartReceived(bytes)
  PROVE  Parsing' \/ Ended'
<1>1. bytes \in Seq(Byte)
  BY Zenon, OptionsAssumption
<1>2. /\ phase' = IF Len(bytes) < 2 THEN "error" ELSE "parse"
      /\ data' = bytes /\ offset' = 2 /\ job' = [kind |-> "received"]
  BY Zenon DEF StartReceived, DecodeHead
<1>3. job'.kind = "received"
  BY <1>2
<1>4. Len(bytes) \in Nat
  BY <1>1, LenProperties
<1>5. CASE Len(bytes) < 2
  <2>1. phase' = "error"
    BY <1>2, <1>5
  <2>2. Promised'
    BY <1>3, <2>1 DEF Promised, OptionsRoundTrip, FirstAddressTaken, NameInBounds
  <2> QED
    BY <2>1, <2>2 DEF Ended
<1>6. CASE ~(Len(bytes) < 2)
  <2>1. phase' = "parse" /\ offset' \in 1 .. Len(data')
    BY <1>2, <1>4, <1>6
  <2>2. job'.kind # "name"
    BY <1>3
  <2> QED
    BY Zenon, <1>1, <1>2, <1>3, <2>1, <2>2 DEF Parsing
<1> QED
  BY <1>5, <1>6

-----------------------------------------------------------------------------
(* The invariant *)

\* The case of the invariant is the one of the loop that runs.
LEMMA InLoop ==
  ASSUME CodecInv
  PROVE  /\ phase = "measure" => Measuring
         /\ phase = "write" => Writing
         /\ phase = "check" => Checking
         /\ phase = "read" => Reading
         /\ phase = "pick" => Picking
         /\ phase = "inner" => Taking
         /\ phase = "spell" => Spelling
         /\ phase = "parse" => Parsing
         /\ phase # "past"
         /\ phase \in {"done", "taken", "forward", "reset", "error"} => Ended
<1>1. /\ Measuring => phase = "measure"
      /\ Writing => phase = "write"
      /\ Checking => phase = "check"
      /\ Reading => phase = "read"
      /\ Picking => phase = "pick"
      /\ Taking => phase = "inner"
      /\ Spelling => phase = "spell"
      /\ Parsing => phase = "parse"
      /\ Ended => phase \in {"done", "taken", "forward", "reset", "error"}
  BY DEF Measuring, Writing, Checking, Reading, Picking, Taking, Spelling, Parsing, Ended
<1> QED
  BY <1>1 DEF CodecInv

\* A function that begins is in its first loop, or failed.
LEMMA StartKeeps ==
  ASSUME ClientTypeOK, Start
  PROVE  CodecInv'
<1>1. toServer \subseteq ClientMessage /\ toClient \subseteq Answer
  BY Zenon DEF ClientTypeOK
<1>2. ASSUME NEW m \in toServer, NEW head \in Heads, NEW around \in Inner,
             StartRequest(m, head, around)
      PROVE  CodecInv'
  BY Zenon, <1>1, <1>2, RequestBegins DEF CodecInv
<1>3. ASSUME NEW labels \in HostName, StartName(labels)
      PROVE  CodecInv'
  BY Zenon, <1>3, NameBegins DEF CodecInv
<1>4. ASSUME NEW m \in toClient, NEW head \in Heads, NEW outer \in Outer,
             NEW inner \in Inner, NEW ok \in BOOLEAN,
             NEW has \in {"address", "association", "nothing"},
             StartAnswer(m, head, outer, inner, has, ok)
      PROVE  CodecInv'
  BY Zenon, <1>1, <1>4, AnswerBegins DEF CodecInv
<1>5. ASSUME NEW bytes \in Received, StartReceived(bytes)
      PROVE  CodecInv'
  BY Zenon, <1>5, ReceivedBegins DEF CodecInv
<1> QED
  BY Zenon, <1>2, <1>3, <1>4, <1>5 DEF Start

\* An iteration keeps the invariant of its loop or leaves it for the next one.
LEMMA CodecKeeps ==
  ASSUME CodecInv, CodecStep
  PROVE  CodecInv'
<1>1. CASE MeasureOption
  <2>1. Measuring
    BY Zenon, <1>1, InLoop DEF MeasureOption
  <2> QED
    BY Zenon, <1>1, <2>1, Measured DEF CodecInv
<1>2. CASE Allocate
  <2>1. Measuring
    BY Zenon, <1>2, InLoop DEF Allocate
  <2> QED
    BY Zenon, <1>2, <2>1, Allocated DEF CodecInv
<1>3. CASE WriteOption
  <2>1. Writing
    BY Zenon, <1>3, InLoop DEF WriteOption
  <2> QED
    BY Zenon, <1>3, <2>1, Wrote DEF CodecInv
<1>4. CASE Encoded
  <2>1. Writing
    BY Zenon, <1>4, InLoop DEF Encoded
  <2> QED
    BY Zenon, <1>4, <2>1, EncoderEnds DEF CodecInv
<1>5. CASE ReadOption
  <2>1. Reading \/ Taking
    BY Zenon, <1>5, InLoop DEF ReadOption
  <2> QED
    BY Zenon, <1>5, <2>1, ReadOne, Taken DEF CodecInv
<1>6. CASE ReadEnd
  <2>1. Reading \/ Taking
    BY Zenon, <1>6, InLoop DEF ReadEnd
  <2> QED
    BY Zenon, <1>6, <2>1, ReadAll, Taken DEF CodecInv
<1>7. CASE CheckAnswer
  <2>1. Checking
    BY Zenon, <1>7, InLoop DEF CheckAnswer
  <2> QED
    BY Zenon, <1>7, <2>1, Checked DEF CodecInv
<1>8. CASE PickAddress
  <2>1. Picking
    BY Zenon, <1>8, InLoop DEF PickAddress
  <2> QED
    BY Zenon, <1>8, <2>1, Picked DEF CodecInv
<1>9. CASE SpellLabel
  <2>1. Spelling
    BY Zenon, <1>9, InLoop DEF SpellLabel
  <2> QED
    BY Zenon, <1>9, <2>1, SpelledOne DEF CodecInv
<1>10. CASE SpellEnd
  <2>1. Spelling
    BY Zenon, <1>10, InLoop DEF SpellEnd
  <2> QED
    BY Zenon, <1>10, <2>1, SpelledAll DEF CodecInv
<1>11. CASE ParseLabel
  <2>1. Parsing
    BY Zenon, <1>11, InLoop DEF ParseLabel
  <2> QED
    BY Zenon, <1>11, <2>1, Parsed DEF CodecInv
<1>12. CASE Return
  BY Zenon, <1>12 DEF Return, CodecInv
<1> QED
  BY Zenon, <1>1, <1>2, <1>3, <1>4, <1>5, <1>6, <1>7, <1>8, <1>9, <1>10, <1>11, <1>12
     DEF CodecStep

\* The invariant only speaks of the variables of the codec.
LEMMA CodecStill ==
  ASSUME CodecInv, UNCHANGED codec
  PROVE  CodecInv'
<1>1. /\ phase' = phase /\ job' = job /\ data' = data /\ offset' = offset
      /\ turn' = turn /\ cut' = cut /\ out' = out
  BY Zenon DEF codec
<1>2. /\ Measuring' = Measuring /\ Writing' = Writing /\ Checking' = Checking
  BY Zenon, <1>1
     DEF Measuring, Writing, Checking, Filled, Holds, JobOK, Cuts
<1>3. /\ Reading' = Reading /\ Picking' = Picking /\ Taking' = Taking
  BY Zenon, <1>1
     DEF Reading, Picking, Taking, Filled, Holds, JobOK, Cuts, Accepted
<1>4. /\ Spelling' = Spelling /\ Parsing' = Parsing
  BY Zenon, <1>1 DEF Spelling, Parsing, AtLabel, Spelled, SpelledAt
<1>5. Ended' = Ended
  BY Zenon, <1>1
     DEF Ended, Promised, OptionsRoundTrip, FirstAddressTaken, NameInBounds
<1> QED
  BY Zenon, <1>1, <1>2, <1>3, <1>4, <1>5 DEF CodecInv

\* Each step, of the client or of the codec.
LEMMA OptionsStep ==
  ClientTypeOK /\ CodecInv /\ [OptionsNext]_<<vars, codec>> => ClientTypeOK' /\ CodecInv'
<1> SUFFICES ASSUME ClientTypeOK, CodecInv, [OptionsNext]_<<vars, codec>>
             PROVE  ClientTypeOK' /\ CodecInv'
  OBVIOUS
<1>1. CASE Next /\ UNCHANGED codec
  BY Zenon, <1>1, ClientStep, CodecStill
<1>2. CASE (Start \/ CodecStep) /\ UNCHANGED vars
  BY Zenon, <1>2, ClientStep, StartKeeps, CodecKeeps
<1>3. CASE UNCHANGED <<vars, codec>>
  BY Zenon, <1>3, ClientStep, CodecStill
<1> QED
  BY <1>1, <1>2, <1>3 DEF OptionsNext

\* A loop that ended kept its promise, and the others have not ended.
LEMMA CodecPromises == CodecInv => OptionsRoundTrip /\ FirstAddressTaken /\ NameInBounds
<1> SUFFICES ASSUME CodecInv PROVE Promised
  BY DEF Promised
<1>1. CASE phase \in {"done", "taken", "forward", "reset", "error"}
  BY Zenon, <1>1, InLoop DEF Ended
<1>2. CASE phase \notin {"done", "taken", "forward", "reset", "error"}
  BY Zenon, <1>2, InLoop DEF Promised, OptionsRoundTrip, FirstAddressTaken, NameInBounds
<1> QED
  BY <1>1, <1>2

\* No function runs in the beginning.
LEMMA CodecInit == Init /\ Init0 => ClientTypeOK /\ CodecInv
BY Zenon, ClientInit DEF Init0, CodecInv

\* The inductive invariant: one case per loop of Encode, DecodeFromBytes and the
\* handlers, and nothing ever reads or writes past the bytes.
LEMMA CodecAlways == OptionsSpec => []CodecInv
<1>1. OptionsSpec => [](ClientTypeOK /\ CodecInv)
  BY CodecInit, OptionsStep, PTL DEF OptionsSpec
<1> QED
  BY <1>1, PTL

\* OptionsRoundTrip: DecodeFromBytes of IA_NA and IA Address gives back the head
\* and the options, of any number and length, that Encode wrote, and neither of
\* them leaves the buffer that OptionsLen measured.
THEOREM DecodesWhatIsEncoded == OptionsSpec => []OptionsRoundTrip
BY CodecAlways, CodecPromises, PTL

\* FirstAddressTaken: handleDHCPv6Reply takes the first address of the first IA_NA
\* of an answer, for all options around them, and starts over exactly when the
\* server reports failure or leaves out what is needed.
THEOREM ReplyGivesFirstAddress == OptionsSpec => []FirstAddressTaken
BY CodecAlways, CodecPromises, PTL

\* NameInBounds: the decoder of the domain name stays inside whatever data it is
\* given, of any length, and refuses no host name that the client encodes.
THEOREM NameStaysInside == OptionsSpec => []NameInBounds
BY CodecAlways, CodecPromises, PTL
=============================================================================
