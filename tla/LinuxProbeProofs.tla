--------------------------- MODULE LinuxProbeProofs --------------------------
(***************************************************************************)
(* Theorems about the two Linux probes that ask and then read, for every   *)
(* mask period, buffer, FIFO, number of polls and count the dongle's own   *)
(* may begin with: first LibusbProbe, then HandshakeProbe.                 *)
(***************************************************************************)
EXTENDS LibusbProbe, HandshakeProbe, MaskLemmas

(***************************************************************************)
(* Output.                                                                 *)
(***************************************************************************)

Bytes == [slot : Nat, as : {"raw", "clear", "garbled"}]

\* Clear exactly if the dongle's count began at 0.
Right(bytes) == \A j \in DOMAIN bytes : bytes[j].as = "clear" <=> before = 0

Stream(bytes, lo, hi) == DataSlots(bytes, lo, hi) /\ Right(bytes)

\* No slots, no bytes.
LEMMA StreamEmpty ==
  ASSUME NEW lo \in Nat
  PROVE  Stream(<<>>, lo, lo)
<1>1. DOMAIN <<>> = {}
  OBVIOUS
<1> QED
  BY <1>1, NoData DEF Stream, Right

\* A slot without data adds nothing.
LEMMA StreamSkip ==
  ASSUME NEW bytes, NEW lo \in Nat, NEW hi \in Nat, lo <= hi,
         Stream(bytes, lo, hi), (hi + 1) % Modulus = 0
  PROVE  Stream(bytes, lo, hi + 1)
  BY SkipSlot DEF Stream

\* A slot with data adds its byte at the end.
LEMMA StreamAppend ==
  ASSUME NEW bytes \in Seq(Bytes), NEW lo \in Nat, NEW hi \in Nat, lo <= hi,
         Stream(bytes, lo, hi), (hi + 1) % Modulus # 0,
         NEW byte \in Bytes, byte.slot = hi + 1, byte.as = "clear" <=> before = 0
  PROVE  Stream(Append(bytes, byte), lo, hi + 1)
<1>1. DataSlots(Append(bytes, byte), lo, hi + 1)
  BY AppendSlot DEF Stream
<1>2. Right(Append(bytes, byte))
  <2> DEFINE more == Append(bytes, byte)
             n == Len(bytes)
  <2>1. /\ n \in Nat /\ DOMAIN bytes = 1 .. n /\ DOMAIN more = 1 .. (n + 1)
        /\ more[n + 1] = byte /\ \A j \in 1 .. n : more[j] = bytes[j]
    BY AppendProperties, LenProperties
  <2> HIDE DEF more, n
  <2> SUFFICES ASSUME NEW j \in 1 .. (n + 1)
               PROVE  more[j].as = "clear" <=> before = 0
    BY <2>1 DEF Right, more
  <2>2. CASE j = n + 1
    BY <2>1, <2>2
  <2>3. CASE j \in 1 .. n
    BY <2>1, <2>3 DEF Stream, Right
  <2> QED
    BY <2>1, <2>2, <2>3
<1> QED
  BY <1>1, <1>2 DEF Stream

\* What follows in the stream follows in the output.
LEMMA StreamConcat ==
  ASSUME NEW s \in Seq(Bytes), NEW t \in Seq(Bytes),
         NEW lo \in Nat, NEW mid \in Nat, NEW hi \in Nat, lo <= mid, mid <= hi,
         Stream(s, lo, mid), Stream(t, mid, hi)
  PROVE  Stream(s \o t, lo, hi)
<1>1. DataSlots(s \o t, lo, hi)
  BY ConcatSlots DEF Stream
<1>2. Right(s \o t)
  <2> DEFINE all == s \o t
             m == Len(s)
             n == Len(t)
  <2>1. /\ m \in Nat /\ n \in Nat /\ DOMAIN s = 1 .. m /\ DOMAIN t = 1 .. n
        /\ DOMAIN all = 1 .. (m + n)
        /\ \A j \in 1 .. (m + n) : all[j] = IF j <= m THEN s[j] ELSE t[j - m]
    BY ConcatProperties, LenProperties
  <2> HIDE DEF all, m, n
  <2>2. ASSUME NEW j \in 1 .. (m + n)
        PROVE  \/ j \in 1 .. m /\ all[j] = s[j]
               \/ j - m \in 1 .. n /\ all[j] = t[j - m]
    BY <2>1
  <2>3. ASSUME NEW j \in 1 .. (m + n) PROVE all[j].as = "clear" <=> before = 0
    <3>1. CASE j \in 1 .. m /\ all[j] = s[j]
      BY <2>1, <3>1 DEF Stream, Right
    <3>2. CASE j - m \in 1 .. n /\ all[j] = t[j - m]
      BY <2>1, <3>2 DEF Stream, Right
    <3> QED
      BY <2>2, <3>1, <3>2
  <2>4. Right(all)
    BY <2>1, <2>3 DEF Right
  <2> QED
    BY <2>4 DEF all
<1> QED
  BY <1>1, <1>2 DEF Stream

\* Storing a byte right behind those decoded adds it to them.
LEMMA PlaceAppends ==
  ASSUME NEW buf \in Seq(Bytes), NEW o \in Nat, o < Len(buf), NEW byte \in Bytes
  PROVE  /\ SubSeq(buf, 1, o) \in Seq(Bytes)
         /\ SubSeq([buf EXCEPT ![o + 1] = byte], 1, o + 1) = Append(SubSeq(buf, 1, o), byte)
<1> DEFINE new == [buf EXCEPT ![o + 1] = byte]
           l == SubSeq(new, 1, o + 1)
           r == Append(SubSeq(buf, 1, o), byte)
<1>1. Len(buf) \in Nat /\ o + 1 \in 1 .. Len(buf)
  BY LenProperties
<1>2. /\ new \in Seq(Bytes) /\ Len(new) = Len(buf)
      /\ \A j \in 1 .. Len(buf) : new[j] = IF j = o + 1 THEN byte ELSE buf[j]
  BY <1>1, ExceptSeq
<1> HIDE DEF new
<1>3. /\ \A j \in 1 .. o : j \in 1 .. Len(buf) /\ buf[j] \in Bytes
      /\ \A j \in 1 .. (o + 1) : j \in 1 .. Len(buf) /\ new[j] \in Bytes
  BY <1>1, <1>2, ElementOfSeq
<1>4. /\ l \in Seq(Bytes) /\ Len(l) = o + 1
      /\ \A j \in 1 .. (o + 1) : l[j] = new[j]
  BY <1>3, SubSeqProperties
<1>5. /\ SubSeq(buf, 1, o) \in Seq(Bytes) /\ Len(SubSeq(buf, 1, o)) = o
      /\ \A j \in 1 .. o : SubSeq(buf, 1, o)[j] = buf[j]
  BY <1>3, SubSeqProperties
<1>6. /\ r \in Seq(Bytes) /\ Len(r) = o + 1 /\ r[o + 1] = byte
      /\ \A j \in 1 .. o : r[j] = buf[j]
  BY <1>5, AppendProperties
<1> HIDE DEF l, r
<1>7. \A j \in 1 .. Len(l) : l[j] = r[j]
  BY <1>2, <1>3, <1>4, <1>6
<1>8. l = r
  BY <1>4, <1>6, <1>7, SeqEqual
<1> QED
  BY <1>5, <1>8 DEF l, r, new

(***************************************************************************)
(* The inductive invariant.                                                *)
(***************************************************************************)

Resources == {"ctx", "handle", "interface", "rxbuf"}

TypeOK ==
  /\ before \in 0 .. (Modulus - 1) /\ emitted \in Nat /\ taken \in Nat /\ taken <= emitted
  /\ pc \in {"init", "open", "claim", "speed", "malloc", "poll", "decode", "release", "closed"}
  /\ held \in SUBSET Resources /\ status \in {0, 1} /\ i \in Nat
  /\ rx_state \in 0 .. (Modulus - 1) /\ rxbuf \in Seq(Bytes) /\ k \in Nat /\ out \in Nat
  /\ decoded \in Seq(Bytes) /\ failures \in Nat

\* What the lists of main may still have to release, with what is then held:
\* each list names all that is held, in an order in which nothing is left
\* without what it rests on.
Releasing ==
  {<<NotInitialised, {}>>, <<NotOpened, {"ctx"}>>, <<NotClaimed, {"ctx", "handle"}>>,
   <<<<"interface", "handle", "ctx">>, {"ctx", "handle", "interface"}>>,
   <<Cleanup, {"ctx", "handle", "interface"}>>, <<Cleanup, Resources>>}

\* What each call has taken is held until main leaves, and the list it leaves
\* by is the right one.
HeldHere ==
  /\ pc = "init" => held = {}
  /\ pc = "open" => held = {"ctx"}
  /\ pc = "claim" => held = {"ctx", "handle"}
  /\ pc \in {"speed", "malloc"} => held = {"ctx", "handle", "interface"}
  /\ pc \in {"poll", "decode"} => held = Resources
  /\ IF pc = "release" THEN <<todo, held>> \in Releasing ELSE todo = <<>>
  /\ pc = "closed" => held = {}

\* The first call that fails is the last one made.
FailureEnds ==
  /\ status = 0 <=> failures = 0
  /\ failures # 0 => pc \in {"release", "closed"}
  /\ pc \in {"release", "closed"} /\ failures = 0 => i = Polls

\* Slots whose chunk is done, and slots the mask has counted.
Done == IF pc = "decode" THEN taken - Len(rxbuf) ELSE taken
Counted == IF pc = "decode" THEN Done + k ELSE Done

\* Behind what is decoded and before what is to be read, the buffer is free.
BufferAt ==
  pc = "decode" =>
    /\ Len(rxbuf) <= taken /\ Len(rxbuf) <= RxLength /\ k <= Len(rxbuf) /\ out <= k
    /\ \A j \in (k + 1) .. Len(rxbuf) : rxbuf[j] = [slot |-> Done + j, as |-> "raw"]
    /\ Stream(SubSeq(rxbuf, 1, out), Done, Counted)

InStep ==
  /\ rx_state = Counted % Modulus
  /\ Stream(decoded, 0, Done)
  /\ BufferAt

\* Of what was decoded, the ends of long chunks are not printed.
TailsLeftOut == cut \subseteq 1 .. Len(decoded) /\ TailsOnly(cut, RxLength)

IInv == TypeOK /\ HeldHere /\ FailureEnds /\ InStep /\ TailsLeftOut

\* Nothing is held when the program begins.
LEMMA InitIInv == Init => IInv
<1> SUFFICES ASSUME Init PROVE IInv
  OBVIOUS
<1>1. TypeOK
  BY ProbeAssumption, PollsAssumption, ModulusAssumption DEF Init, TypeOK
<1>2. HeldHere /\ FailureEnds /\ TailsLeftOut
  BY NothingCut DEF Init, HeldHere, FailureEnds, TailsLeftOut
<1>3. Done = 0 /\ Counted = 0 /\ pc # "decode"
  BY DEF Init, Done, Counted
<1>4. 0 % Modulus = 0 /\ Stream(<<>>, 0, 0)
  BY ProbeAssumption, PollsAssumption, ModulusAssumption, ModSmall, StreamEmpty
<1> QED
  BY <1>1, <1>2, <1>3, <1>4 DEF Init, IInv, InStep, BufferAt

\* The bytes a poll hands over are slots the dongle has filled.
LEMMA Received ==
  ASSUME TypeOK, PollData
  PROVE  \E n \in Nat :
           /\ n > 0 /\ n <= RxLength /\ taken' = taken + n /\ taken + n <= emitted
           /\ rxbuf' \in Seq(Bytes) /\ Len(rxbuf') = n
           /\ \A j \in 1 .. n : rxbuf'[j] = [slot |-> taken + j, as |-> "raw"]
<1>1. PICK n \in 1 .. Least(Pending, RxLength) :
        /\ rxbuf' = [j \in 1 .. n |-> [slot |-> taken + j, as |-> "raw"]]
        /\ taken' = taken + n
  BY DEF PollData
<1>2. taken \in Nat /\ emitted \in Nat /\ RxLength \in Nat
  BY ProbeAssumption, PollsAssumption, ModulusAssumption DEF TypeOK
<1>3. n \in Nat /\ n > 0 /\ n <= RxLength /\ taken + n <= emitted
  BY <1>1, <1>2 DEF Least, Pending
<1>4. \A j \in 1 .. n : [slot |-> taken + j, as |-> "raw"] \in Bytes
  BY <1>2, <1>3 DEF Bytes
<1>5. rxbuf' \in Seq(Bytes) /\ Len(rxbuf') = n
  BY <1>1, <1>3, <1>4
<1> QED
  BY <1>1, <1>3, <1>5

\* Decoding makes a byte of a byte.
LEMMA UnmaskedType ==
  ASSUME NEW byte \in Bytes, NEW mask
  PROVE  Unmasked(byte, mask) \in Bytes
  BY DEF Unmasked, Bytes

\* No step leaves the types.
LEMMA StepTypeOK == TypeOK /\ InStep /\ [Next]_vars => TypeOK'
<1> SUFFICES ASSUME TypeOK, InStep, [Next]_vars PROVE TypeOK'
  OBVIOUS
<1>1. CASE Emit
  BY <1>1 DEF Emit, decoder, TypeOK
<1>2. CASE Setup
  <2>1. UNCHANGED <<before, emitted, taken, i, rx_state, rxbuf, k, out, decoded>>
    BY <1>2 DEF Setup, dongle, decoder
  <2>2. held' \in SUBSET Resources
    <3>1. held \in SUBSET Resources
      BY DEF TypeOK
    <3>2. {{"ctx"}, {"handle"}, {"interface"}, {}, {"rxbuf"}} \subseteq SUBSET Resources
      BY DEF Resources
    <3>3. \/ held' = held
          \/ \E r \in {{"ctx"}, {"handle"}, {"interface"}, {}, {"rxbuf"}} : held' = held \cup r
      BY <1>2 DEF Setup, LibusbInit, OpenDevice, ClaimInterface, SetSpeed, Malloc, Call
    <3> QED
      BY <3>1, <3>2, <3>3
  <2>4. status' \in {0, 1}
    BY <1>2 DEF Setup, LibusbInit, OpenDevice, ClaimInterface, SetSpeed, Malloc, Call, Leave, NoMemory, TypeOK
  <2>5. failures' \in Nat
    BY <1>2 DEF Setup, LibusbInit, OpenDevice, ClaimInterface, SetSpeed, Malloc, Call, TypeOK
  <2>3. pc' \in {"open", "claim", "speed", "malloc", "poll", "release"}
    BY <1>2 DEF Setup, LibusbInit, OpenDevice, ClaimInterface, SetSpeed, Malloc, Call, Leave
  <2> QED
    BY <2>1, <2>2, <2>3, <2>4, <2>5 DEF TypeOK
<1>3. CASE PollError \/ PollIdle \/ PollsOver
  <2>1. UNCHANGED <<before, emitted, taken, held, rx_state, rxbuf, k, out, decoded>>
    BY <1>3 DEF PollError, PollIdle, PollsOver, dongle, decoder
  <2>2. pc' \in {"poll", "release"} /\ status' \in {0, 1}
    BY <1>3 DEF PollError, PollIdle, PollsOver, Leave, TypeOK
  <2>3. i' \in Nat /\ failures' \in Nat
    <3>1. i \in Nat /\ failures \in Nat
      BY DEF TypeOK
    <3>2. i' \in {i, i + 1} /\ failures' \in {failures, failures + 1}
      BY <1>3 DEF PollError, PollIdle, PollsOver
    <3> QED
      BY <3>1, <3>2
  <2> QED
    BY <2>1, <2>2, <2>3 DEF TypeOK
<1>4. CASE PollData
  <2>1. /\ taken' \in Nat /\ taken' <= emitted /\ rxbuf' \in Seq(Bytes)
    BY <1>4, Received DEF TypeOK
  <2>2. /\ pc' = "decode" /\ k' = 0 /\ out' = 0
        /\ UNCHANGED <<before, emitted, held, status, i, rx_state, decoded, failures>>
    BY <1>4 DEF PollData
  <2> QED
    BY <2>1, <2>2 DEF TypeOK
<1>5. CASE DecodeByte
  <2> DEFINE mask == (rx_state + 1) % Modulus
  <2>0. rx_state + 1 \in Int
    BY ProbeAssumption, PollsAssumption, ModulusAssumption DEF TypeOK
  <2>1. mask \in 0 .. (Modulus - 1)
    BY <2>0, DivMod
  <2>2. k + 1 \in 1 .. Len(rxbuf) /\ out + 1 \in 1 .. Len(rxbuf)
    BY <1>5 DEF DecodeByte, InStep, BufferAt, TypeOK
  <2>3. Unmasked(rxbuf[k + 1], mask) \in Bytes
    BY <2>2, ElementOfSeq, UnmaskedType DEF TypeOK
  <2> HIDE DEF mask
  <2>4. [rxbuf EXCEPT ![out + 1] = Unmasked(rxbuf[k + 1], mask)] \in Seq(Bytes)
    BY <2>2, <2>3, ExceptSeq DEF TypeOK
  <2>7. rxbuf' = rxbuf \/ rxbuf' = [rxbuf EXCEPT ![out + 1] = Unmasked(rxbuf[k + 1], mask)]
    BY <1>5 DEF DecodeByte, Place, mask
  <2>8. (out' = out \/ out' = out + 1) /\ rx_state' = mask /\ k' = k + 1
    BY <1>5 DEF DecodeByte, mask
  <2>5. rxbuf' \in Seq(Bytes) /\ out' \in Nat /\ rx_state' = mask /\ k' \in Nat
    BY <2>4, <2>7, <2>8 DEF TypeOK
  <2>6. UNCHANGED <<before, emitted, taken, pc, held, status, i, decoded, failures>>
    BY <1>5 DEF DecodeByte, dongle
  <2> QED
    BY <2>1, <2>5, <2>6 DEF TypeOK
<1>6. CASE ShowChunk
  <2>1. SubSeq(rxbuf, 1, out) \in Seq(Bytes)
    <3>1. out \in Nat /\ out <= Len(rxbuf)
      BY <1>6 DEF ShowChunk, InStep, BufferAt, TypeOK
    <3>2. \A j \in 1 .. out : rxbuf[j] \in Bytes
      BY <3>1, ElementOfSeq DEF TypeOK
    <3> QED
      BY <3>1, <3>2, SubSeqProperties
  <2>2. decoded' \in Seq(Bytes)
    BY <1>6, <2>1, ConcatProperties DEF ShowChunk, ShowDecoded, TypeOK
  <2>3. /\ pc' = "poll" /\ i' = i + 1
        /\ UNCHANGED <<before, emitted, taken, held, status, rx_state, rxbuf, k, out, failures>>
    BY <1>6 DEF ShowChunk, dongle, decoder
  <2> QED
    BY <2>2, <2>3 DEF TypeOK
<1>7. CASE Release \/ Exit
  <2>1. /\ UNCHANGED <<before, emitted, taken, status, i, rx_state, rxbuf, k, out, decoded, failures>>
        /\ pc' \in {pc, "closed"} /\ held' \in SUBSET held
    BY <1>7 DEF Release, Exit, dongle, decoder
  <2> QED
    BY <2>1 DEF TypeOK
<1>8. CASE UNCHANGED vars
  BY <1>8 DEF vars, TypeOK
<1> QED
  BY <1>1, <1>2, <1>3, <1>4, <1>5, <1>6, <1>7, <1>8 DEF Next, Program

\* A release takes from its list what is to go first, and leaves another list
\* of those that are right for what is held.
LEMMA ReleaseStep ==
  ASSUME Release, <<todo, held>> \in Releasing
  PROVE  <<todo', held'>> \in Releasing
<1>1. todo # <<>> /\ held' = held \ {Head(todo)} /\ todo' = Tail(todo)
  BY DEF Release
<1>2. CASE todo = NotOpened /\ held = {"ctx"}
  <2>1. todo' = NotInitialised /\ held' = {}
    BY <1>1, <1>2 DEF NotOpened, NotInitialised
  <2> QED
    BY <2>1 DEF Releasing
<1>3. CASE todo = NotClaimed /\ held = {"ctx", "handle"}
  <2>1. todo' = NotOpened /\ held' = {"ctx"}
    BY <1>1, <1>3 DEF NotOpened, NotClaimed
  <2> QED
    BY <2>1 DEF Releasing
<1>4. CASE todo = <<"interface", "handle", "ctx">> /\ held = {"ctx", "handle", "interface"}
  <2>1. todo' = NotClaimed /\ held' = {"ctx", "handle"}
    BY <1>1, <1>4 DEF NotClaimed
  <2> QED
    BY <2>1 DEF Releasing
<1>5. CASE todo = Cleanup /\ held \in {{"ctx", "handle", "interface"}, Resources}
  <2>1. todo' = <<"interface", "handle", "ctx">> /\ Head(todo) = "rxbuf"
    BY <1>1, <1>5 DEF Cleanup
  <2>2. held' = {"ctx", "handle", "interface"}
    BY <1>1, <1>5, <2>1 DEF Resources
  <2> QED
    BY <2>1, <2>2 DEF Releasing
<1>6. todo # NotInitialised
  BY <1>1 DEF NotInitialised
<1> QED
  BY <1>2, <1>3, <1>4, <1>5, <1>6 DEF Releasing

\* The calls that take something, and the request, either go on or leave by
\* the list of their place.
LEMMA SetupStep ==
  ASSUME Setup
  PROVE  \/ /\ failures' = failures + 1 /\ status' = 1 /\ pc' = "release" /\ held' = held
            /\ \/ pc = "init" /\ todo' = NotInitialised
               \/ pc = "open" /\ todo' = NotOpened
               \/ pc = "claim" /\ todo' = NotClaimed
               \/ pc \in {"speed", "malloc"} /\ todo' = Cleanup
         \/ /\ UNCHANGED <<todo, status, failures>>
            /\ \/ pc = "init" /\ pc' = "open" /\ held' = held \cup {"ctx"}
               \/ pc = "open" /\ pc' = "claim" /\ held' = held \cup {"handle"}
               \/ pc = "claim" /\ pc' = "speed" /\ held' = held \cup {"interface"}
               \/ pc = "speed" /\ pc' = "malloc" /\ held' = held \cup {}
               \/ pc = "malloc" /\ pc' = "poll" /\ held' = held \cup {"rxbuf"}
<1>1. CASE LibusbInit
  BY <1>1 DEF LibusbInit, Call, Leave
<1>2. CASE OpenDevice
  BY <1>2 DEF OpenDevice, Call, Leave
<1>3. CASE ClaimInterface
  BY <1>3 DEF ClaimInterface, Call, Leave
<1>4. CASE SetSpeed
  BY <1>4 DEF SetSpeed, Call, Leave
<1>5. CASE Malloc
  BY <1>5 DEF Malloc, Leave, NoMemory
<1> QED
  BY <1>1, <1>2, <1>3, <1>4, <1>5 DEF Setup

\* What is held, and what is to be released, follow from where main is.
LEMMA StepHeld == TypeOK /\ HeldHere /\ [Next]_vars => HeldHere'
<1> SUFFICES ASSUME TypeOK, HeldHere, [Next]_vars PROVE HeldHere'
  OBVIOUS
<1>1. CASE Emit \/ PollIdle \/ DecodeByte \/ UNCHANGED vars
  <2>1. pc' = pc /\ held' = held /\ todo' = todo
    BY <1>1 DEF Emit, PollIdle, DecodeByte, vars
  <2> QED
    BY <2>1 DEF HeldHere
<1>2. CASE Setup
  <2>1. CASE pc' = "release"
    <3>1. held' = held /\ \/ pc = "init" /\ todo' = NotInitialised
                          \/ pc = "open" /\ todo' = NotOpened
                          \/ pc = "claim" /\ todo' = NotClaimed
                          \/ pc \in {"speed", "malloc"} /\ todo' = Cleanup
      BY <1>2, <2>1, SetupStep
    <3>2. <<todo', held'>> \in Releasing
      BY <3>1 DEF HeldHere, Releasing
    <3> QED
      BY <2>1, <3>2 DEF HeldHere
  <2>2. CASE pc' # "release"
    BY <1>2, <2>2, SetupStep DEF HeldHere, Resources
  <2> QED
    BY <2>1, <2>2
<1>3. CASE PollError \/ PollsOver
  <2>1. pc = "poll" /\ pc' = "release" /\ held' = held /\ todo' = Cleanup
    BY <1>3 DEF PollError, PollsOver, Leave
  <2>2. <<todo', held'>> \in Releasing
    BY <2>1 DEF HeldHere, Releasing
  <2> QED
    BY <2>1, <2>2 DEF HeldHere
<1>4. CASE PollData \/ ShowChunk
  BY <1>4 DEF PollData, ShowChunk, HeldHere
<1>5. CASE Release
  <2>1. pc = "release" /\ pc' = "release"
    BY <1>5 DEF Release
  <2>2. <<todo', held'>> \in Releasing
    BY <1>5, <2>1, ReleaseStep DEF HeldHere
  <2> QED
    BY <2>1, <2>2 DEF HeldHere
<1>6. CASE Exit
  <2>1. pc = "release" /\ pc' = "closed" /\ todo = <<>> /\ UNCHANGED <<todo, held>>
    BY <1>6 DEF Exit
  <2>2. held = {}
    BY <2>1 DEF HeldHere, Releasing, NotInitialised, NotOpened, NotClaimed, Cleanup
  <2> QED
    BY <2>1, <2>2 DEF HeldHere
<1> QED
  BY <1>1, <1>2, <1>3, <1>4, <1>5, <1>6 DEF Next, Program

\* The first call that fails is the last but for the releases.
LEMMA StepFailureEnds == TypeOK /\ FailureEnds /\ [Next]_vars => FailureEnds'
<1> SUFFICES ASSUME TypeOK, FailureEnds, [Next]_vars PROVE FailureEnds'
  OBVIOUS
<1>0. failures \in Nat /\ Polls \in Nat /\ i \in Nat
  BY ProbeAssumption, PollsAssumption, ModulusAssumption DEF TypeOK
<1>1. CASE Emit \/ DecodeByte \/ UNCHANGED vars
  BY <1>1 DEF Emit, DecodeByte, vars, FailureEnds
<1>2. CASE Setup
  <2>1. i' = i
    BY <1>2 DEF Setup
  <2> QED
    BY <1>0, <1>2, <2>1, SetupStep DEF FailureEnds
<1>3. CASE PollError
  BY <1>0, <1>3 DEF PollError, Leave, FailureEnds
<1>4. CASE PollIdle \/ PollData \/ ShowChunk
  BY <1>4 DEF PollIdle, PollData, ShowChunk, FailureEnds
<1>5. CASE PollsOver
  BY <1>5 DEF PollsOver, Leave, FailureEnds
<1>6. CASE Release \/ Exit
  BY <1>6 DEF Release, Exit, FailureEnds
<1> QED
  BY <1>1, <1>2, <1>3, <1>4, <1>5, <1>6 DEF Next, Program

\* Steps that leave the session where it is.
LEMMA SameSession ==
  ASSUME InStep, UNCHANGED <<before, taken, rx_state, rxbuf, k, out, decoded>>,
         pc = "decode" <=> pc' = "decode"
  PROVE  InStep'
<1>1. Done' = Done /\ Counted' = Counted
  BY DEF Done, Counted
<1> QED
  BY <1>1 DEF InStep, BufferAt, Stream, DataSlots, Right

\* One turn of the decoder.
LEMMA DecodeInStep ==
  ASSUME TypeOK, InStep, DecodeByte
  PROVE  InStep'
<1> DEFINE mask == (rx_state + 1) % Modulus
           slot == Counted + 1
           byte == Unmasked(rxbuf[k + 1], mask)
           n == Len(rxbuf)
<1>1. /\ pc = "decode" /\ pc' = "decode" /\ k < n /\ k' = k + 1 /\ rx_state' = mask
      /\ UNCHANGED <<before, taken, decoded>>
  BY DEF DecodeByte, dongle
<1>2. /\ n \in Nat /\ n <= taken /\ k \in Nat /\ out \in Nat /\ out <= k /\ taken \in Nat
      /\ rxbuf \in Seq(Bytes) /\ before \in 0 .. (Modulus - 1)
  BY <1>1 DEF TypeOK, InStep, BufferAt
<1>3. /\ Done = taken - n /\ Counted = Done + k
      /\ Done \in Nat /\ Counted \in Nat /\ Done <= Counted /\ slot \in Nat
  BY <1>1, <1>2 DEF Done, Counted
<1>4. rxbuf[k + 1] = [slot |-> slot, as |-> "raw"]
  <2>1. k + 1 \in (k + 1) .. Len(rxbuf)
    BY <1>1, <1>2
  <2>2. Done + (k + 1) = slot
    BY <1>2, <1>3
  <2> QED
    BY <1>1, <2>1, <2>2 DEF InStep, BufferAt
<1>5. mask = slot % Modulus
  <2>1. rx_state = Counted % Modulus
    BY DEF InStep
  <2> QED
    BY <1>3, <2>1, ModPlus
<1> HIDE DEF mask, slot, n
<1>6. byte \in Bytes /\ byte.slot = slot /\ (byte.as = "clear" <=> before = 0)
  <2>1. byte = [slot |-> slot, as |-> IF mask = (before + slot) % Modulus THEN "clear" ELSE "garbled"]
    BY <1>4 DEF Unmasked
  <2>2. slot \in Int /\ slot + before = before + slot
    BY <1>2, <1>3, ProbeAssumption, PollsAssumption, ModulusAssumption
  <2>3. mask = (before + slot) % Modulus <=> before = 0
    BY <1>2, <1>5, <2>2, LevelIff
  <2>4. byte \in Bytes /\ byte.slot = slot
    BY <1>3, <2>1 DEF Bytes
  <2>5. byte.as = IF mask = (before + slot) % Modulus THEN "clear" ELSE "garbled"
    BY <2>1
  <2> QED
    BY <2>3, <2>4, <2>5
<1> HIDE DEF byte
<1>7. rxbuf' = (IF mask = 0 THEN rxbuf ELSE [rxbuf EXCEPT ![out + 1] = byte])
      /\ out' = (IF mask = 0 THEN out ELSE out + 1)
  BY DEF DecodeByte, Place, mask, byte
<1>8. Stream(SubSeq(rxbuf, 1, out), Done, Counted) /\ Stream(decoded, 0, Done)
  BY <1>1 DEF InStep, BufferAt
<1>9. SubSeq(rxbuf, 1, out) \in Seq(Bytes) /\ out + 1 \in 1 .. n
      /\ SubSeq([rxbuf EXCEPT ![out + 1] = byte], 1, out + 1) = Append(SubSeq(rxbuf, 1, out), byte)
  BY <1>1, <1>2, <1>6, PlaceAppends DEF n
<1>10. Stream(SubSeq(rxbuf', 1, out'), Done, slot)
  <2>1. CASE mask = 0
    BY <1>3, <1>5, <1>7, <1>8, <2>1, StreamSkip DEF slot
  <2>2. CASE mask # 0
    BY <1>3, <1>5, <1>6, <1>7, <1>8, <1>9, <2>2, StreamAppend DEF slot
  <2> QED
    BY <2>1, <2>2
<1>11. /\ Len(rxbuf') = n /\ out' <= k + 1
       /\ \A j \in (k + 2) .. n : rxbuf'[j] = rxbuf[j]
  <2>1. CASE mask = 0
    BY <1>2, <1>7, <2>1 DEF n
  <2>2. CASE mask # 0
    <3>1. /\ Len([rxbuf EXCEPT ![out + 1] = byte]) = n
          /\ \A j \in 1 .. n : [rxbuf EXCEPT ![out + 1] = byte][j] = IF j = out + 1 THEN byte ELSE rxbuf[j]
      BY <1>2, <1>6, <1>9, ExceptSeq DEF n
    <3>2. \A j \in (k + 2) .. n : j \in 1 .. n /\ j # out + 1
      BY <1>2
    <3> QED
      BY <1>2, <1>7, <2>2, <3>1, <3>2
  <2> QED
    BY <2>1, <2>2
<1>12. Done' = Done /\ Counted' = slot
  BY <1>1, <1>2, <1>3, <1>11 DEF Done, Counted, n, slot
<1>13. \A j \in (k' + 1) .. Len(rxbuf') : rxbuf'[j] = [slot |-> Done + j, as |-> "raw"]
  <2>1. \A j \in (k + 1) .. n : rxbuf[j] = [slot |-> Done + j, as |-> "raw"]
    BY <1>1 DEF InStep, BufferAt, n
  <2>2. (k' + 1) .. Len(rxbuf') = (k + 2) .. n /\ \A j \in (k + 2) .. n : j \in (k + 1) .. n
    BY <1>1, <1>2, <1>11
  <2> QED
    BY <1>11, <2>1, <2>2
<1>14. BufferAt'
  <2>1. Len(rxbuf') <= taken' /\ Len(rxbuf') <= RxLength /\ k' <= Len(rxbuf') /\ out' <= k'
    BY <1>1, <1>2, <1>11 DEF n, InStep, BufferAt
  <2>2. Stream(SubSeq(rxbuf, 1, out), Done, Counted)'
    BY <1>1, <1>10, <1>12 DEF Stream, DataSlots, Right
  <2> QED
    BY <1>12, <1>13, <2>1, <2>2 DEF BufferAt
<1>15. Stream(decoded, 0, Done)'
  BY <1>1, <1>8, <1>12 DEF Stream, DataSlots, Right
<1> QED
  BY <1>1, <1>5, <1>12, <1>14, <1>15 DEF InStep

\* The decoder stays in step with the slots taken.
LEMMA StepInStep == TypeOK /\ InStep /\ [Next]_vars => InStep'
<1> SUFFICES ASSUME TypeOK, InStep, [Next]_vars PROVE InStep'
  OBVIOUS
<1>1. CASE Emit \/ PollError \/ PollIdle \/ PollsOver \/ Release \/ Exit \/ UNCHANGED vars
  <2>1. UNCHANGED <<before, taken, rx_state, rxbuf, k, out, decoded>>
    BY <1>1 DEF Emit, PollError, PollIdle, PollsOver, Release, Exit, Leave, dongle, decoder, vars
  <2>2. pc = "decode" <=> pc' = "decode"
    BY <1>1 DEF Emit, PollError, PollIdle, PollsOver, Release, Exit, Leave, vars
  <2> QED
    BY <2>1, <2>2, SameSession
<1>2. CASE Setup
  <2>1. UNCHANGED <<before, taken, rx_state, rxbuf, k, out, decoded>>
    BY <1>2 DEF Setup, dongle, decoder
  <2>2. pc # "decode" /\ pc' # "decode"
    BY <1>2, SetupStep
  <2> QED
    BY <2>1, <2>2, SameSession
<1>3. CASE PollData
  <2>1. /\ pc = "poll" /\ pc' = "decode" /\ k' = 0 /\ out' = 0
        /\ UNCHANGED <<before, rx_state, decoded>>
    BY <1>3 DEF PollData
  <2>2. PICK n \in Nat :
           /\ n <= RxLength /\ taken' = taken + n /\ rxbuf' \in Seq(Bytes) /\ Len(rxbuf') = n
           /\ \A j \in 1 .. n : rxbuf'[j] = [slot |-> taken + j, as |-> "raw"]
    BY <1>3, Received
  <2>3. taken \in Nat
    BY DEF TypeOK
  <2>4. Done = taken /\ Counted = taken /\ Done' = taken /\ Counted' = taken
    BY <2>1, <2>2, <2>3 DEF Done, Counted
  <2>5. SubSeq(rxbuf', 1, out') = <<>>
    BY <2>1, SubSeqEmpty
  <2>6. Stream(SubSeq(rxbuf, 1, out), Done, Counted)'
    BY <2>1, <2>3, <2>4, <2>5, StreamEmpty DEF Stream, DataSlots, Right
  <2>7. BufferAt'
    BY <2>1, <2>2, <2>3, <2>4, <2>6 DEF BufferAt
  <2>8. Stream(decoded, 0, Done)'
    BY <2>1, <2>4 DEF InStep, Stream, DataSlots, Right
  <2> QED
    BY <2>1, <2>4, <2>7, <2>8 DEF InStep
<1>4. CASE DecodeByte
  BY <1>4, DecodeInStep
<1>5. CASE ShowChunk
  <2> DEFINE chunk == SubSeq(rxbuf, 1, out)
  <2>1. /\ pc = "decode" /\ pc' = "poll" /\ k = Len(rxbuf) /\ decoded' = decoded \o chunk
        /\ UNCHANGED <<before, taken, rx_state>>
    BY <1>5 DEF ShowChunk, ShowDecoded, dongle, decoder
  <2>2. /\ taken \in Nat /\ k \in Nat /\ k <= taken /\ out \in Nat /\ out <= Len(rxbuf)
        /\ decoded \in Seq(Bytes) /\ rxbuf \in Seq(Bytes)
    BY <2>1 DEF TypeOK, InStep, BufferAt
  <2>3. Done \in Nat /\ Done <= taken /\ Counted = taken
        /\ Done' = taken /\ Counted' = taken
    BY <2>1, <2>2 DEF Done, Counted
  <2>4. chunk \in Seq(Bytes)
    <3>1. \A j \in 1 .. out : rxbuf[j] \in Bytes
      BY <2>2, ElementOfSeq
    <3> QED
      BY <2>2, <3>1, SubSeqProperties
  <2>5. Stream(decoded, 0, Done) /\ Stream(chunk, Done, taken)
    BY <2>1, <2>3 DEF InStep, BufferAt
  <2> HIDE DEF chunk
  <2>6. Stream(decoded \o chunk, 0, taken)
    BY <2>2, <2>3, <2>4, <2>5, StreamConcat
  <2>7. Stream(decoded, 0, Done)'
    BY <2>1, <2>3, <2>6 DEF Stream, DataSlots, Right
  <2> QED
    BY <2>1, <2>3, <2>7 DEF InStep, BufferAt
<1> QED
  BY <1>1, <1>2, <1>3, <1>4, <1>5 DEF Next, Program

\* A chunk is no longer than a poll's buffer, so that it leaves out a tail only.
LEMMA StepTailsLeftOut == TypeOK /\ InStep /\ TailsLeftOut /\ [Next]_vars => TailsLeftOut'
<1> SUFFICES ASSUME TypeOK, InStep, TailsLeftOut, [Next]_vars PROVE TailsLeftOut'
  OBVIOUS
<1>1. CASE ShowChunk
  <2> DEFINE chunk == SubSeq(rxbuf, 1, out)
  <2>1. /\ decoded' = decoded \o chunk
        /\ cut' = cut \cup LeftOut(Len(decoded), chunk)
    BY <1>1 DEF ShowChunk, ShowDecoded
  <2>2. chunk \in Seq(Bytes) /\ Len(chunk) \in 0 .. RxLength /\ RxLength \in Nat
    <3>1. /\ out \in Nat /\ out <= Len(rxbuf) /\ Len(rxbuf) <= RxLength /\ rxbuf \in Seq(Bytes)
          /\ RxLength \in Nat
      BY <1>1, ProbeAssumption DEF ShowChunk, InStep, BufferAt, TypeOK
    <3>2. \A j \in 1 .. out : rxbuf[j] \in Bytes
      BY <3>1, ElementOfSeq
    <3> QED
      BY <3>1, <3>2, SubSeqProperties
  <2> HIDE DEF chunk
  <2>3. Len(decoded) \in Nat /\ Len(decoded \o chunk) = Len(decoded) + Len(chunk)
    BY <2>2, ConcatProperties, LenProperties DEF TypeOK
  <2>4. /\ cut \cup LeftOut(Len(decoded), chunk) \subseteq 1 .. (Len(decoded) + Len(chunk))
        /\ TailsOnly(cut \cup LeftOut(Len(decoded), chunk), RxLength)
    BY <2>2, <2>3, TailsGrow DEF TailsLeftOut
  <2> QED
    BY <2>1, <2>3, <2>4 DEF TailsLeftOut, TailsOnly
<1>2. ASSUME UNCHANGED <<decoded, cut>> PROVE TailsLeftOut'
  BY <1>2 DEF TailsLeftOut, TailsOnly
<1>3. CASE Emit \/ Setup \/ PollError \/ PollIdle \/ PollData \/ DecodeByte \/ PollsOver
           \/ Release \/ Exit \/ UNCHANGED vars
  BY <1>2, <1>3 DEF Emit, Setup, PollError, PollIdle, PollData, DecodeByte, PollsOver,
                    Release, Exit, vars
<1> QED
  BY <1>1, <1>3 DEF Next, Program

\* What is held, what failed and what was decoded, at every point.
THEOREM InductiveInvariant == Spec => []IInv
<1>1. Init => IInv
  BY InitIInv
<1>2. IInv /\ [Next]_vars => IInv'
  BY StepTypeOK, StepHeld, StepFailureEnds, StepInStep, StepTailsLeftOut DEF IInv
<1> QED
  BY <1>1, <1>2, PTL DEF Spec

(***************************************************************************)
(* The theorems.                                                           *)
(***************************************************************************)

\* Whatever fails, no claim outlives its handle and no handle its context, every
\* call is made with all it needs, and the list main leaves by releases all that
\* is held and nothing else but a buffer that may not be there.
THEOREM HeldOrdered == Spec => []HeldInOrder
<1>1. IInv => HeldInOrder
  <2> SUFFICES ASSUME IInv PROVE HeldInOrder
    OBVIOUS
  <2>1. pc \in {"init", "open", "claim", "speed", "malloc", "poll", "decode", "release", "closed"}
        /\ HeldHere
    BY DEF IInv, TypeOK
  <2>2. held \in {{}, {"ctx"}, {"ctx", "handle"}, {"ctx", "handle", "interface"}, Resources}
    BY <2>1 DEF HeldHere, Releasing
  <2>3. todo # <<>> => Head(todo) \in held \cup {"rxbuf"}
    <3>1. ASSUME todo # <<>> PROVE <<todo, held>> \in Releasing
      BY <2>1, <3>1 DEF HeldHere
    <3> QED
      BY <3>1 DEF Releasing, NotInitialised, NotOpened, NotClaimed, Cleanup, Resources
  <2> QED
    BY <2>1, <2>2, <2>3 DEF HeldInOrder, HeldHere, Resources
<1> QED
  BY <1>1, InductiveInvariant, PTL

\* The exit status says that all went well exactly when no call failed, and
\* then every poll was made.
THEOREM ExitStatusTells == Spec => []ExitTellsAll
<1>1. IInv => ExitTellsAll
  BY DEF IInv, FailureEnds, ExitTellsAll
<1> QED
  BY <1>1, InductiveInvariant, PTL

\* What is decoded is the data of every slot received, in order, and clear
\* exactly when the dongle began its count with the program; what is not printed
\* of it is the ends of long chunks.
THEOREM DecodesTheStream == Spec => []DecodedIsStream
<1>1. IInv => DecodedIsStream
  BY DEF IInv, InStep, TypeOK, TailsLeftOut, Stream, Right, Done, DecodedIsStream
<1> QED
  BY <1>1, InductiveInvariant, PTL

(***************************************************************************)
(* The handshake probe.                                                    *)
(* The mask counts every slot of a session, and answers come behind their  *)
(* questions; what is decoded of a chunk is found by induction on its      *)
(* bytes.                                                                  *)
(***************************************************************************)

\* A byte decoded.
Sessions == [slot : Nat, step : 0 .. Steps, ok : BOOLEAN]

SessionTyped ==
  /\ before \in 0 .. (Modulus - 1) /\ slots \in Seq(0 .. Steps)
  /\ taken \in 0 .. Len(slots)
  /\ pc \in {"open", "send", "poll", "closed"}
  /\ step \in 0 .. Steps /\ rx_state \in 0 .. (Modulus - 1)
  /\ decoded \in Seq(Sessions) /\ cut \subseteq 1 .. Len(decoded) /\ lost \in Nat

\* The dongle answers only what it got, and it got no step yet to come.
NoAnswerAhead ==
  /\ pc = "open" => step = 0
  /\ pc = "send" => step \in 1 .. Steps
  /\ delivered \subseteq 1 .. step
  /\ \A n \in 1 .. Len(slots) : slots[n] <= step

\* What is decoded came in before.
DecodedCameIn ==
  \A j \in DOMAIN decoded :
    decoded[j].slot \in 1 .. taken /\ slots[decoded[j].slot] <= decoded[j].step

\* While no poll failed, the mask counted every slot.
InSession ==
  lost = 0 =>
    /\ rx_state = taken % Modulus
    /\ DataSlots(decoded, 0, taken)
    /\ \A j \in DOMAIN decoded : decoded[j].ok <=> before = 0

SessionInv ==
  SessionTyped /\ NoAnswerAhead /\ DecodedCameIn /\ InSession /\ TailsOnly(cut, RawSize)

\* Nothing has come in when the program begins.
LEMMA SessionInit ==
  ASSUME HandshakeInit PROVE SessionInv
<1>1. /\ slots = <<>> /\ before \in 0 .. (Modulus - 1) /\ taken = 0 /\ delivered = {}
      /\ pc = "open" /\ step = 0 /\ rx_state = 0 /\ decoded = <<>> /\ cut = {} /\ lost = 0
  BY DEF HandshakeInit
<1>2. Len(slots) = 0 /\ slots \in Seq(0 .. Steps) /\ decoded \in Seq(Sessions)
  BY <1>1, EmptySeq
<1>3. DOMAIN decoded = {}
  BY <1>1
<1>4. SessionTyped
  <2>1. 0 \in 0 .. (Modulus - 1) /\ 0 \in 0 .. 0
    BY ModulusAssumption
  <2>2. step \in 0 .. Steps
    BY <1>1, HandshakeAssumption
  <2> QED
    BY <1>1, <1>2, <2>1, <2>2 DEF SessionTyped
<1>5. NoAnswerAhead
  BY <1>1, <1>2 DEF NoAnswerAhead
<1>6. DecodedCameIn
  BY <1>3 DEF DecodedCameIn
<1>7. InSession
  <2>1. 0 % Modulus = 0
    BY ModulusAssumption, ModSmall
  <2> QED
    BY <1>1, <1>3, <2>1, NoData DEF InSession
<1>8. TailsOnly(cut, RawSize)
  BY <1>1, NothingCut
<1> QED
  BY <1>4, <1>5, <1>6, <1>7, <1>8 DEF SessionInv

(***************************************************************************)
(* Decoding a chunk.                                                       *)
(***************************************************************************)

\* What the decoder has put out after n bytes of a chunk decoded under label.
Decodes(dec, n, label) ==
  dec = [c \in 0 .. n |->
           IF c = 0 THEN <<>>
           ELSE IF MaskAfter(c) = 0 THEN dec[c - 1]
           ELSE Append(dec[c - 1], Byte(c, label))]

\* There is such a function, however long the chunk.
LEMMA DecodesExists ==
  ASSUME NEW label, NEW m \in Nat
  PROVE  \E dec : Decodes(dec, m, label)
<1> DEFINE S == {n \in Nat : \E dec : Decodes(dec, n, label)}
<1>1. 0 \in S
  <2>1. Decodes([c \in 0 .. 0 |-> <<>>], 0, label)
    BY DEF Decodes
  <2> QED
    BY <2>1
<1>2. ASSUME NEW n \in Nat, n \in S PROVE n + 1 \in S
  <2>1. PICK g : Decodes(g, n, label)
    BY <1>2
  <2> DEFINE Next1(c, before1) ==
               IF c = 0 THEN <<>>
               ELSE IF MaskAfter(c) = 0 THEN before1
               ELSE Append(before1, Byte(c, label))
             dec == [c \in 0 .. (n + 1) |-> IF c <= n THEN g[c] ELSE Next1(c, g[c - 1])]
  <2>2. ASSUME NEW c \in 0 .. (n + 1) PROVE dec[c] = Next1(c, dec[c - 1])
    <3>1. CASE c <= n
      <4>1. c \in 0 .. n /\ dec[c] = g[c]
        BY <3>1
      <4>2. g[c] = Next1(c, g[c - 1])
        <5> HIDE DEF dec
        <5> QED
          BY <2>1, <4>1 DEF Decodes
      <4>3. c # 0 => c - 1 \in 0 .. (n + 1) /\ c - 1 <= n
        BY <3>1
      <4>4. c # 0 => dec[c - 1] = g[c - 1]
        BY <4>3
      <4> QED
        BY <4>1, <4>2, <4>4
    <3>2. CASE c = n + 1
      <4>1. ~(c <= n) /\ c - 1 \in 0 .. (n + 1) /\ c - 1 <= n
        BY <3>2
      <4>2. dec[c - 1] = g[c - 1] /\ dec[c] = Next1(c, g[c - 1])
        BY <4>1
      <4> QED
        BY <4>2
    <3> QED
      BY <3>1, <3>2
  <2>3. dec = [c \in 0 .. (n + 1) |-> dec[c]]
    OBVIOUS
  <2> HIDE DEF dec
  <2>4. Decodes(dec, n + 1, label)
    BY <2>2, <2>3 DEF Decodes
  <2> QED
    BY <2>4
<1> HIDE DEF S
<1>3. m \in S
  BY <1>1, <1>2, Induction
<1> QED
  BY <1>3 DEF S

\* The first c bytes of a chunk, decoded: whatever the mask, they are of this
\* chunk and carry its label; with a mask that counted all slots they are those
\* that carry data, and right if the dongle's count began at 0.
Part(bytes, c, label) ==
  /\ bytes \in Seq(Sessions) /\ Len(bytes) <= c
  /\ \A j \in DOMAIN bytes :
       bytes[j].slot \in (taken + 1) .. (taken + c) /\ bytes[j].step = label
  /\ rx_state = taken % Modulus =>
       /\ DataSlots(bytes, taken, taken + c)
       /\ \A j \in DOMAIN bytes : bytes[j].ok <=> before = 0

\* Of no bytes, nothing is decoded.
LEMMA PartNone ==
  ASSUME SessionTyped, NEW label
  PROVE  Part(<<>>, 0, label)
<1>1. DOMAIN <<>> = {} /\ <<>> \in Seq(Sessions) /\ Len(<<>>) = 0
  BY EmptySeq
<1>2. taken \in Nat /\ taken + 0 = taken
  BY LenProperties DEF SessionTyped
<1>3. DataSlots(<<>>, taken, taken)
  BY <1>2, NoData
<1> QED
  BY <1>1, <1>2, <1>3 DEF Part

\* The mask on a slot is the host's own count of it, and the dongle's if the
\* dongle's count began at 0.
LEMMA MaskOfSlot ==
  ASSUME SessionTyped, rx_state = taken % Modulus, NEW c \in Nat
  PROVE  /\ MaskAfter(c) = (taken + c) % Modulus
         /\ MaskAfter(c) = DongleMask(taken + c) <=> before = 0
<1>1. taken \in Nat /\ before \in 0 .. (Modulus - 1)
  BY LenProperties DEF SessionTyped
<1>2. MaskAfter(c) = (taken + c) % Modulus
  BY <1>1, ModPlus DEF MaskAfter
<1> DEFINE s == taken + c
<1>3. s \in Int /\ before + s = s + before
  BY <1>1, ModulusAssumption
<1> HIDE DEF s
<1>4. s % Modulus = (before + s) % Modulus <=> before = 0
  BY <1>1, <1>3, LevelIff
<1> QED
  BY <1>2, <1>4 DEF DongleMask, s

\* One byte more, which carries data or does not.
LEMMA PartMore ==
  ASSUME SessionTyped, NEW label \in 0 .. Steps, NEW c \in Nat, NEW bytes, Part(bytes, c, label)
  PROVE  Part(IF MaskAfter(c + 1) = 0 THEN bytes
              ELSE Append(bytes, Byte(c + 1, label)), c + 1, label)
<1> DEFINE byte == Byte(c + 1, label)
           mask == MaskAfter(c + 1)
           ok == mask = DongleMask(taken + (c + 1))
<1>1. taken \in Nat /\ taken + c + 1 = taken + (c + 1) /\ taken <= taken + c
  BY LenProperties DEF SessionTyped
<1>2. byte = [slot |-> taken + (c + 1), step |-> label, ok |-> ok]
  BY DEF Byte
<1>3. ok \in BOOLEAN
  OBVIOUS
<1>4. rx_state = taken % Modulus =>
        mask = (taken + c + 1) % Modulus /\ (ok <=> before = 0)
  BY <1>1, MaskOfSlot
<1> HIDE DEF ok, mask, byte
<1>5. byte \in Sessions /\ byte.slot = taken + (c + 1) /\ byte.step = label /\ byte.ok = ok
  BY <1>1, <1>2, <1>3 DEF Sessions
<1>6. CASE mask = 0
  <2>1. rx_state = taken % Modulus => DataSlots(bytes, taken, taken + c + 1)
    <3> DEFINE hi == taken + c
    <3> SUFFICES ASSUME rx_state = taken % Modulus PROVE DataSlots(bytes, taken, hi + 1)
      OBVIOUS
    <3>1. hi \in Nat /\ taken <= hi /\ (hi + 1) % Modulus = 0 /\ DataSlots(bytes, taken, hi)
      BY <1>1, <1>4, <1>6 DEF Part
    <3> HIDE DEF hi
    <3> QED
      BY <1>1, <3>1, SkipSlot
  <2>2. \A j \in DOMAIN bytes : bytes[j].slot \in (taken + 1) .. (taken + (c + 1))
    BY <1>1 DEF Part
  <2>3. Part(bytes, c + 1, label)
    <3>1. Len(bytes) <= c + 1
      BY LenProperties DEF Part
    <3> QED
      BY <1>1, <2>1, <2>2, <3>1 DEF Part
  <2> QED
    BY <1>6, <2>3 DEF mask
<1>7. CASE mask # 0
  <2> DEFINE more == Append(bytes, byte)
             n == Len(bytes)
  <2>1. /\ n \in Nat /\ DOMAIN bytes = 1 .. n /\ DOMAIN more = 1 .. (n + 1)
        /\ more \in Seq(Sessions) /\ Len(more) = n + 1 /\ n <= c
        /\ more[n + 1] = byte /\ \A j \in 1 .. n : more[j] = bytes[j]
    BY <1>5, AppendProperties, LenProperties DEF Part
  <2>2. rx_state = taken % Modulus => DataSlots(more, taken, taken + c + 1)
    <3> DEFINE hi == taken + c
    <3> SUFFICES ASSUME rx_state = taken % Modulus PROVE DataSlots(more, taken, hi + 1)
      OBVIOUS
    <3>1. /\ hi \in Nat /\ taken <= hi /\ (hi + 1) % Modulus # 0
          /\ DataSlots(bytes, taken, hi) /\ byte.slot = hi + 1 /\ bytes \in Seq(Sessions)
      BY <1>1, <1>4, <1>5, <1>7 DEF Part
    <3> HIDE DEF hi
    <3> QED
      BY <1>1, <1>5, <3>1, AppendSlot
  <2> HIDE DEF more, n
  <2>3. ASSUME NEW j \in 1 .. (n + 1)
        PROVE  /\ more[j].slot \in (taken + 1) .. (taken + (c + 1)) /\ more[j].step = label
               /\ rx_state = taken % Modulus => (more[j].ok <=> before = 0)
    <3>1. CASE j = n + 1
      <4>1. taken + (c + 1) \in (taken + 1) .. (taken + (c + 1))
        BY <1>1
      <4> QED
        BY <1>4, <1>5, <2>1, <3>1, <4>1
    <3>2. CASE j # n + 1
      <4>1. j \in 1 .. n /\ more[j] = bytes[j]
        BY <2>1, <3>2
      <4>2. bytes[j].slot \in (taken + 1) .. (taken + c)
        BY <2>1, <4>1 DEF Part
      <4>3. bytes[j].slot \in (taken + 1) .. (taken + (c + 1))
        BY <1>1, <4>2
      <4> QED
        BY <2>1, <4>1, <4>3 DEF Part
    <3> QED
      BY <3>1, <3>2
  <2>4. Part(more, c + 1, label)
    BY <1>1, <2>1, <2>2, <2>3 DEF Part
  <2> QED
    BY <1>7, <2>4 DEF mask, more, byte
<1> QED
  BY <1>6, <1>7

\* What is decoded of a chunk, whatever its length.
LEMMA DecodePart ==
  ASSUME SessionTyped, NEW label \in 0 .. Steps, NEW n \in Nat
  PROVE  Part(Decode(n, label), n, label)
<1> DEFINE dec == CHOOSE dec : Decodes(dec, n, label)
           S == {c \in Nat : c <= n => Part(dec[c], c, label)}
<1>1. Decodes(dec, n, label)
  BY DecodesExists
<1>2. Decode(n, label) = dec[n]
  BY DEF Decode, Decodes
<1> HIDE DEF dec
<1>3. 0 \in S
  <2>1. dec[0] = <<>>
    BY <1>1 DEF Decodes
  <2> QED
    BY <2>1, PartNone
<1>4. ASSUME NEW c \in Nat, c \in S PROVE c + 1 \in S
  <2> SUFFICES ASSUME c + 1 <= n PROVE Part(dec[c + 1], c + 1, label)
    OBVIOUS
  <2>1. c + 1 \in 0 .. n /\ c + 1 # 0 /\ (c + 1) - 1 = c /\ c <= n
    OBVIOUS
  <2>2. dec[c + 1] = IF MaskAfter(c + 1) = 0 THEN dec[c]
                     ELSE Append(dec[c], Byte(c + 1, label))
    BY <1>1, <2>1 DEF Decodes
  <2>3. Part(dec[c], c, label)
    BY <1>4, <2>1
  <2> QED
    BY <2>2, <2>3, PartMore
<1> HIDE DEF S
<1>5. n \in S
  BY <1>3, <1>4, Induction
<1> QED
  BY <1>2, <1>5 DEF S

(***************************************************************************)
(* The steps.                                                              *)
(***************************************************************************)

\* A byte comes in at the end: nothing that came before moves.
LEMMA AnswerStep ==
  ASSUME SessionInv, Answer
  PROVE  SessionInv'
<1>1. PICK origin \in delivered \cup {0} : slots' = Append(slots, origin)
  BY DEF Answer
<1>2. /\ UNCHANGED <<before, taken, delivered, pc, step, rx_state, decoded, cut, lost>>
  BY DEF Answer
<1> DEFINE n == Len(slots)
<1>3. origin \in 0 .. Steps /\ origin <= step
  BY HandshakeAssumption DEF SessionInv, SessionTyped, NoAnswerAhead
<1>4. /\ n \in Nat /\ slots' \in Seq(0 .. Steps) /\ Len(slots') = n + 1
      /\ slots'[n + 1] = origin /\ \A j \in 1 .. n : slots'[j] = slots[j]
  BY <1>1, <1>3, AppendProperties, LenProperties DEF SessionInv, SessionTyped
<1> HIDE DEF n
<1>5. taken \in 0 .. n /\ \A j \in 1 .. n : slots[j] <= step
  BY DEF n, SessionInv, SessionTyped, NoAnswerAhead
<1>6. SessionTyped'
  BY <1>2, <1>4, <1>5 DEF SessionInv, SessionTyped
<1>7. NoAnswerAhead'
  <2>1. ASSUME NEW j \in 1 .. (n + 1) PROVE slots'[j] <= step
    <3>1. CASE j = n + 1
      BY <1>3, <1>4, <3>1
    <3>2. CASE j # n + 1
      <4>1. j \in 1 .. n
        BY <1>4, <3>2
      <4> QED
        BY <1>4, <1>5, <4>1
    <3> QED
      BY <3>1, <3>2
  <2> QED
    BY <1>2, <1>4, <2>1 DEF SessionInv, NoAnswerAhead
<1>8. DecodedCameIn'
  <2>1. \A j \in 1 .. taken : slots'[j] = slots[j]
    BY <1>4, <1>5
  <2> QED
    BY <1>2, <2>1 DEF SessionInv, DecodedCameIn
<1>9. InSession'
  BY <1>2 DEF SessionInv, InSession, DataSlots, InSlotOrder, SlotsOf, DataBetween
<1>10. TailsOnly(cut, RawSize)'
  BY <1>2 DEF SessionInv, TailsOnly
<1> QED
  BY <1>6, <1>7, <1>8, <1>9, <1>10 DEF SessionInv

\* The program goes on to its first or its next step.
LEMMA OpenOrEndStep ==
  ASSUME SessionInv, Open \/ EndStep
  PROVE  SessionInv'
<1>1. UNCHANGED <<slots, before, taken, delivered, rx_state, decoded, cut, lost>>
  BY DEF Open, EndStep, dongleSide
<1>2. /\ pc' \in {"send", "closed"} /\ step' \in 0 .. Steps /\ step <= step'
      /\ pc' = "send" => step' \in 1 .. Steps
  <2>1. step \in 0 .. Steps /\ Steps \in Nat \ {0}
    BY HandshakeAssumption DEF SessionInv, SessionTyped
  <2>2. CASE Open
    <3>1. pc = "open" /\ step' \in {1, step} /\ pc' \in {"send", "closed"}
          /\ (pc' = "send" => step' = 1)
      BY <2>2 DEF Open
    <3>2. step = 0
      BY <3>1 DEF SessionInv, NoAnswerAhead
    <3> QED
      BY <2>1, <3>1, <3>2
  <2>3. CASE EndStep
    BY <2>1, <2>3 DEF EndStep
  <2> QED
    BY <2>2, <2>3
<1>3. SessionTyped'
  BY <1>1, <1>2 DEF SessionInv, SessionTyped
<1>4. NoAnswerAhead'
  <2>1. step \in Nat /\ step' \in Nat /\ step <= step'
    BY <1>2 DEF SessionInv, SessionTyped
  <2>2. 1 .. step \subseteq 1 .. step'
    BY <2>1
  <2>3. \A j \in 1 .. Len(slots) : slots[j] <= step'
    <3>1. \A j \in 1 .. Len(slots) : slots[j] \in Nat
      BY ElementOfSeq, HandshakeAssumption DEF SessionInv, SessionTyped
    <3> QED
      BY <2>1, <3>1 DEF SessionInv, NoAnswerAhead
  <2> QED
    BY <1>1, <1>2, <2>2, <2>3 DEF SessionInv, NoAnswerAhead
<1>5. DecodedCameIn' /\ InSession'
  BY <1>1 DEF SessionInv, DecodedCameIn, InSession, DataSlots, InSlotOrder, SlotsOf, DataBetween
<1>6. TailsOnly(cut, RawSize)'
  BY <1>1 DEF SessionInv, TailsOnly
<1> QED
  BY <1>3, <1>4, <1>5, <1>6 DEF SessionInv

\* A step is sent, and only from then on may it be answered.
LEMMA SendStep ==
  ASSUME SessionInv, Send
  PROVE  SessionInv'
<1>1. /\ UNCHANGED <<slots, before, taken, step, decoded, cut, lost>>
      /\ pc = "send" /\ pc' = "poll" /\ rx_state' = rx_state
      /\ delivered' \in {delivered, delivered \cup {step}}
  BY DEF Send, AfterFailure, MaskForStep
<1>2. SessionTyped'
  BY <1>1 DEF SessionInv, SessionTyped
<1>3. NoAnswerAhead'
  <2>1. step \in 1 .. step /\ delivered \subseteq 1 .. step
    BY <1>1 DEF SessionInv, NoAnswerAhead
  <2>2. delivered' \subseteq 1 .. step
    BY <1>1, <2>1
  <2> QED
    BY <1>1, <2>2 DEF SessionInv, NoAnswerAhead
<1>4. DecodedCameIn' /\ InSession'
  BY <1>1 DEF SessionInv, DecodedCameIn, InSession, DataSlots, InSlotOrder, SlotsOf, DataBetween
<1>5. TailsOnly(cut, RawSize)'
  BY <1>1 DEF SessionInv, TailsOnly
<1> QED
  BY <1>2, <1>3, <1>4, <1>5 DEF SessionInv

\* A poll takes some of what the dongle holds.
LEMMA Takes ==
  ASSUME SessionInv, NEW lo \in Nat, NEW n \in lo .. Least(Unread, RawSize),
         RawSize \in Nat
  PROVE  n \in Nat /\ taken \in Nat /\ taken + n \in 0 .. Len(slots)
<1> DEFINE len == Len(slots)
<1>1. len \in Nat /\ taken \in 0 .. len
  BY LenProperties DEF SessionInv, SessionTyped
<1>2. n \in Nat /\ n <= len - taken
  BY <1>1 DEF Least, Unread
<1> HIDE DEF len
<1>3. taken + n \in 0 .. len
  BY <1>1, <1>2
<1> QED
  BY <1>1, <1>2, <1>3 DEF len

\* A poll that fails takes slots with it, and the mask knows nothing of them.
LEMMA PollErrorStep ==
  ASSUME SessionInv, StepPollError
  PROVE  SessionInv'
<1>1. PICK n \in 0 .. Least(Unread, RawSize) :
        taken' = taken + n /\ lost' = lost + n
  BY DEF StepPollError
<1>2. UNCHANGED <<slots, before, delivered, pc, step, rx_state, decoded, cut>>
  BY DEF StepPollError
<1>3. n \in Nat /\ taken \in Nat /\ taken' \in 0 .. Len(slots) /\ taken <= taken'
  <2>1. n \in Nat /\ taken \in Nat /\ taken + n \in 0 .. Len(slots)
    BY <1>1, Takes, HandshakeAssumption
  <2> QED
    BY <1>1, <2>1
<1>4. lost \in Nat /\ lost' \in Nat /\ (lost' = 0 => lost = 0 /\ taken' = taken)
  BY <1>1, <1>3 DEF SessionInv, SessionTyped
<1>5. SessionTyped' /\ NoAnswerAhead'
  BY <1>2, <1>3, <1>4 DEF SessionInv, SessionTyped, NoAnswerAhead
<1>6. DecodedCameIn'
  BY <1>2, <1>3 DEF SessionInv, DecodedCameIn
<1>7. InSession'
  BY <1>2, <1>4 DEF SessionInv, InSession, DataSlots, InSlotOrder, SlotsOf, DataBetween
<1>8. TailsOnly(cut, RawSize)'
  BY <1>2 DEF SessionInv, TailsOnly
<1> QED
  BY <1>5, <1>6, <1>7, <1>8 DEF SessionInv

\* A poll with data: the chunk is decoded behind those before.
LEMMA PollDataStep ==
  ASSUME SessionInv, StepPollData
  PROVE  SessionInv'
<1>1. PICK n \in 1 .. Least(Unread, RawSize) :
        /\ taken' = taken + n /\ rx_state' = MaskAfter(n)
        /\ decoded' = decoded \o Decode(n, step)
        /\ cut' = cut \cup LeftOut(Len(decoded), Decode(n, step))
  BY DEF StepPollData, Label, ShowDecoded
<1>2. UNCHANGED <<slots, before, delivered, pc, step, lost>>
  BY DEF StepPollData
<1>3. n \in Nat /\ taken \in Nat /\ taken + n \in 0 .. Len(slots)
  BY <1>1, Takes, HandshakeAssumption
<1> DEFINE bytes == Decode(n, step)
           m == Len(decoded)
           l == Len(bytes)
<1>4. Part(bytes, n, step)
  BY <1>3, DecodePart DEF SessionInv, SessionTyped
<1>5. /\ decoded \in Seq(Sessions) /\ bytes \in Seq(Sessions) /\ m \in Nat /\ l \in Nat
      /\ DOMAIN decoded = 1 .. m /\ DOMAIN bytes = 1 .. l
  BY <1>4, LenProperties DEF Part, SessionInv, SessionTyped
<1>6. /\ decoded' \in Seq(Sessions) /\ DOMAIN decoded' = 1 .. (m + l)
      /\ \A j \in 1 .. (m + l) : decoded'[j] = IF j <= m THEN decoded[j] ELSE bytes[j - m]
  BY <1>1, <1>5, ConcatProperties, LenProperties
<1> HIDE DEF m, l, bytes
<1>7. ASSUME NEW j \in DOMAIN decoded'
      PROVE  \/ j \in DOMAIN decoded /\ decoded'[j] = decoded[j]
             \/ j - m \in DOMAIN bytes /\ decoded'[j] = bytes[j - m]
  BY <1>5, <1>6
<1>8. rx_state' \in 0 .. (Modulus - 1)
  <2>1. rx_state + n \in Int
    BY <1>3, ModulusAssumption DEF SessionInv, SessionTyped
  <2> QED
    BY <1>1, <2>1, DivMod DEF MaskAfter
<1>9. cut' \subseteq 1 .. Len(decoded') /\ TailsOnly(cut, RawSize)'
  <2>1. l \in 0 .. RawSize /\ RawSize \in Nat /\ l = Len(bytes) /\ m = Len(decoded)
    <3>1. n \in Nat /\ n <= RawSize /\ RawSize \in Nat
      BY <1>1, <1>3, LenProperties, HandshakeAssumption DEF Least, Unread, SessionInv, SessionTyped
    <3> QED
      BY <1>4, <1>5, <3>1 DEF Part, l, m
  <2>2. Len(decoded') = m + l
    BY <1>1, <1>5, <2>1, ConcatProperties DEF bytes
  <2>3. /\ cut \cup LeftOut(m, bytes) \subseteq 1 .. (m + l)
        /\ TailsOnly(cut \cup LeftOut(m, bytes), RawSize)
    BY <1>5, <2>1, TailsGrow DEF SessionInv, SessionTyped
  <2>4. cut' = cut \cup LeftOut(m, bytes)
    BY <1>1, <2>1 DEF bytes
  <2> QED
    BY <2>2, <2>3, <2>4 DEF TailsOnly
<1>10. SessionTyped'
  BY <1>1, <1>2, <1>3, <1>6, <1>8, <1>9 DEF SessionInv, SessionTyped
<1>11. NoAnswerAhead'
  BY <1>2 DEF SessionInv, NoAnswerAhead
<1>12. DecodedCameIn'
  <2>1. ASSUME NEW j \in DOMAIN bytes
        PROVE  bytes[j].slot \in 1 .. (taken + n) /\ slots[bytes[j].slot] <= bytes[j].step
    <3>1. bytes[j].slot \in (taken + 1) .. (taken + n) /\ bytes[j].step = step
      BY <1>4 DEF Part
    <3>2. bytes[j].slot \in 1 .. (taken + n) /\ bytes[j].slot \in 1 .. Len(slots)
      BY <1>3, <3>1
    <3> QED
      BY <3>1, <3>2 DEF SessionInv, NoAnswerAhead
  <2>2. ASSUME NEW j \in DOMAIN decoded
        PROVE  decoded[j].slot \in 1 .. (taken + n) /\ slots[decoded[j].slot] <= decoded[j].step
    BY <1>3 DEF SessionInv, DecodedCameIn
  <2> QED
    BY <1>1, <1>2, <1>7, <2>1, <2>2 DEF DecodedCameIn
<1>13. InSession'
  <2> SUFFICES ASSUME lost = 0
               PROVE  /\ rx_state' = taken' % Modulus
                      /\ DataSlots(decoded, 0, taken)'
                      /\ \A j \in DOMAIN decoded' : decoded'[j].ok <=> before = 0
    BY <1>2 DEF InSession
  <2>1. /\ rx_state = taken % Modulus /\ DataSlots(decoded, 0, taken)
        /\ \A j \in DOMAIN decoded : decoded[j].ok <=> before = 0
    BY DEF SessionInv, InSession
  <2>2. /\ DataSlots(bytes, taken, taken + n)
        /\ \A j \in DOMAIN bytes : bytes[j].ok <=> before = 0
    BY <1>4, <2>1 DEF Part
  <2>3. rx_state' = taken' % Modulus
    BY <1>1, <1>3, <2>1, MaskOfSlot DEF SessionInv
  <2>4. DataSlots(decoded, 0, taken)'
    <3> DEFINE hi == taken + n
    <3>1. hi \in Nat /\ 0 <= taken /\ taken <= hi /\ DataSlots(bytes, taken, hi)
      BY <1>3, <2>2
    <3> HIDE DEF hi
    <3>2. DataSlots(decoded \o bytes, 0, hi)
      BY <1>3, <1>5, <2>1, <3>1, ConcatSlots
    <3>3. decoded' = decoded \o bytes /\ taken' = hi
      BY <1>1 DEF bytes, hi
    <3> QED
      BY <3>2, <3>3 DEF DataSlots, InSlotOrder, SlotsOf, DataBetween
  <2> QED
    BY <1>7, <2>1, <2>2, <2>3, <2>4
<1> QED
  BY <1>10, <1>11, <1>12, <1>13, <1>9 DEF SessionInv

\* No step breaks the invariant.
LEMMA SessionStep ==
  ASSUME SessionInv, [HandshakeNext]_handshakevars
  PROVE  SessionInv'
<1>1. ASSUME UNCHANGED <<slots, before, taken, delivered, pc, step, rx_state, decoded, cut, lost>>
      PROVE  SessionInv'
  <2>1. SessionTyped' /\ NoAnswerAhead' /\ DecodedCameIn'
    BY <1>1 DEF SessionInv, SessionTyped, NoAnswerAhead, DecodedCameIn
  <2>2. InSession'
    BY <1>1 DEF SessionInv, InSession, DataSlots, InSlotOrder, SlotsOf, DataBetween
  <2>3. TailsOnly(cut, RawSize)'
    BY <1>1 DEF SessionInv, TailsOnly
  <2> QED
    BY <2>1, <2>2, <2>3 DEF SessionInv
<1>2. CASE StepPollIdle
  BY <1>1, <1>2 DEF StepPollIdle, dongleSide
<1>3. CASE UNCHANGED handshakevars
  BY <1>1, <1>3 DEF handshakevars
<1> QED
  BY <1>2, <1>3, AnswerStep, OpenOrEndStep, SendStep, PollErrorStep, PollDataStep
     DEF HandshakeNext, Handshake

\* The mask counts every slot of a session, and answers come behind their
\* questions.
THEOREM SessionInvariant == HandshakeSpec => []SessionInv
<1>1. HandshakeInit => SessionInv
  BY SessionInit
<1>2. SessionInv /\ [HandshakeNext]_handshakevars => SessionInv'
  BY SessionStep
<1> QED
  BY <1>1, <1>2, PTL DEF HandshakeSpec

\* However late an answer is, it is decoded under the step it answers or under
\* a later one, and what is printed of it is printed there.
THEOREM NothingEarly == HandshakeSpec => []NotBeforeItsStep
<1>1. SessionInv => NotBeforeItsStep
  BY DEF SessionInv, DecodedCameIn, NotBeforeItsStep
<1> QED
  BY <1>1, SessionInvariant, PTL

\* All the steps are one session of the decoder: with no poll failed, what it
\* decodes is all that came, in order, and right if both counts began at 0; what
\* is not printed of it is the ends of long chunks.
THEOREM StepsAreOneSession == HandshakeSpec => []OneSession
<1>1. SessionInv => OneSession
  BY DEF SessionInv, InSession, OneSession
<1> QED
  BY <1>1, SessionInvariant, PTL
=============================================================================
