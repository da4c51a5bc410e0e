------------------------------ MODULE ScanProofs -----------------------------
(***************************************************************************)
(* Theorems about the programs that try one thing after another and look   *)
(* what the dongle answers.  CaseList first, for every repeat count, poll  *)
(* size and number of bytes, whenever they arrive and whichever transfers  *)
(* fail; then ArmScan, for every number of polls after a sequence and      *)
(* every moment SIGINT, light and errors may come in.                      *)
(***************************************************************************)
EXTENDS CaseList, ArmScan, SequenceTheorems, TLAPS

(***************************************************************************)
(* The table.                                                              *)
(***************************************************************************)

Fills == {"9600", "FF", "00", "AA", "55", "ramp", "none", "patternA", "patternB"}
Names == Fills \X Nat \X Nat \X Nat
Cases == [name : Names, fill : Fills, len : Nat, wValue : Nat, wIndex : Nat]

WellNamed(c) == c.name = <<c.fill, c.len, c.wValue, c.wIndex>>

Good == {c \in Cases : WellNamed(c)}

\* The cases others are copied from.
Bases(built) ==
  /\ 1 <= Len(built) => built[1] = Named("9600", 8, 512, 0)
  /\ 3 <= Len(built) => built[3] = Named("FF", 1, 1, 0)
  /\ 5 <= Len(built) => built[5] = Named("FF", 16, 16, 0)
  /\ 10 <= Len(built) => built[10] = Named("none", 0, 0, 0)

\* A case written out field by field is what its name says.
LEMMA NamedGood ==
  ASSUME NEW f \in Fills, NEW l \in Nat, NEW v \in Nat, NEW x \in Nat
  PROVE  Named(f, l, v, x) \in Good
<1>1. Named(f, l, v, x) = [name |-> <<f, l, v, x>>, fill |-> f, len |-> l, wValue |-> v, wIndex |-> x]
  BY DEF Named, Name, Case
<1>2. <<f, l, v, x>> \in Names
  BY DEF Names
<1> HIDE DEF Names
<1>3. Named(f, l, v, x) \in Cases
  BY <1>1, <1>2 DEF Cases
<1> QED
  BY <1>1, <1>3 DEF Good, WellNamed

\* Setting a field of a case.
LEMMA SetField ==
  ASSUME NEW n, NEW f, NEW l, NEW v, NEW x, NEW c, NEW new,
         c = [name |-> n, fill |-> f, len |-> l, wValue |-> v, wIndex |-> x]
  PROVE  /\ [c EXCEPT !.name = new] = [name |-> new, fill |-> f, len |-> l, wValue |-> v, wIndex |-> x]
         /\ [c EXCEPT !.fill = new] = [name |-> n, fill |-> new, len |-> l, wValue |-> v, wIndex |-> x]
         /\ [c EXCEPT !.wValue = new] = [name |-> n, fill |-> f, len |-> l, wValue |-> new, wIndex |-> x]
         /\ [c EXCEPT !.wIndex = new] = [name |-> n, fill |-> f, len |-> l, wValue |-> v, wIndex |-> new]
  OBVIOUS

\* A copy with one field set and the name to match is the case of that name.
LEMMA CopyNamed ==
  ASSUME NEW f, NEW l, NEW v, NEW x, NEW n
  PROVE  /\ WithFill(Named(f, l, v, x), Name(n, l, v, x), n) = Named(n, l, v, x)
         /\ WithValue(Named(f, l, v, x), Name(f, l, n, x), n) = Named(f, l, n, x)
         /\ WithIndex(Named(f, l, v, x), Name(f, l, v, n), n) = Named(f, l, v, n)
<1>1. ASSUME NEW a, NEW b, NEW c, NEW d, NEW e
      PROVE  Case(a, b, c, d, e) = [name |-> a, fill |-> b, len |-> c, wValue |-> d, wIndex |-> e]
  BY DEF Case
<1>2. ASSUME NEW a
      PROVE  Renamed(Named(f, l, v, x), a) = Case(a, f, l, v, x)
  BY <1>1, SetField DEF Renamed, Named
<1>3. WithFill(Named(f, l, v, x), Name(n, l, v, x), n) = Named(n, l, v, x)
  BY <1>1, <1>2, SetField DEF WithFill, Named
<1>4. WithValue(Named(f, l, v, x), Name(f, l, n, x), n) = Named(f, l, n, x)
  <2> DEFINE c == Renamed(Named(f, l, v, x), Name(f, l, n, x))
  <2>1. c = [name |-> Name(f, l, n, x), fill |-> f, len |-> l, wValue |-> v, wIndex |-> x]
    BY <1>1, <1>2
  <2> HIDE DEF c
  <2>2. [c EXCEPT !.wValue = n]
          = [name |-> Name(f, l, n, x), fill |-> f, len |-> l, wValue |-> n, wIndex |-> x]
    BY <2>1, SMT
  <2> QED
    BY <1>1, <2>2 DEF WithValue, Named, c
<1>5. WithIndex(Named(f, l, v, x), Name(f, l, v, n), n) = Named(f, l, v, n)
  BY <1>1, <1>2, SetField DEF WithIndex, Named
<1> QED
  BY <1>3, <1>4, <1>5

\* Every case of either table is what its name says, and every copy is made of
\* a case that is there and is the one meant.
LEMMA LedCaseGood ==
  ASSUME NEW built \in Seq(Good), Bases(built), Len(built) < 12
  PROVE  /\ LedCase(Len(built) + 1, built) \in Good
         /\ Bases(Append(built, LedCase(Len(built) + 1, built)))
<1> DEFINE k == Len(built) + 1
           case == LedCase(k, built)
<1>1. k \in 1 .. 12 /\ Len(built) \in Nat
  BY LenProperties
<1>2. {"9600", "FF", "00", "AA", "55", "ramp", "none"} \subseteq Fills
  BY DEF Fills
<1> HIDE DEF k
<1>3. /\ k = 1 => case = Named("9600", 8, 512, 0)
      /\ k = 2 => case = Named("9600", 8, 0, 0)
      /\ k = 3 => case = Named("FF", 1, 1, 0)
      /\ k = 4 => case = Named("00", 1, 1, 0)
      /\ k = 5 => case = Named("FF", 16, 16, 0)
      /\ k = 6 => case = Named("00", 16, 16, 0)
      /\ k = 7 => case = Named("AA", 16, 16, 0)
      /\ k = 8 => case = Named("55", 16, 16, 0)
      /\ k = 9 => case = Named("ramp", 32, 32, 0)
      /\ k = 10 => case = Named("none", 0, 0, 0)
      /\ k = 11 => case = Named("none", 0, 512, 0)
      /\ k = 12 => case = Named("9600", 8, 512, 1)
  <2>1. /\ k > 1 => built[1] = Named("9600", 8, 512, 0)
        /\ k > 3 => built[3] = Named("FF", 1, 1, 0)
        /\ k > 5 => built[5] = Named("FF", 16, 16, 0)
        /\ k > 10 => built[10] = Named("none", 0, 0, 0)
    BY <1>1 DEF Bases, k
  <2>2. CASE k \in {1, 3, 5, 9, 10}
    BY <2>2 DEF LedCase
  <2>3. CASE k \in {2, 4, 6}
    BY <2>1, <2>3, CopyNamed DEF LedCase
  <2>4. CASE k \in {7, 8}
    BY <2>1, <2>4, CopyNamed DEF LedCase
  <2>5. CASE k \in {11, 12}
    BY <2>1, <2>5, CopyNamed DEF LedCase
  <2> QED
    BY <1>1, <2>2, <2>3, <2>4, <2>5
<1> HIDE DEF case
<1>4. case \in Good
  <2>1. CASE k \in {1, 2, 3, 4, 5, 6}
    BY <1>2, <1>3, <2>1, NamedGood
  <2>2. CASE k \in {7, 8, 9, 10, 11, 12}
    BY <1>2, <1>3, <2>2, NamedGood
  <2> QED
    BY <1>1, <2>1, <2>2
<1>5. Bases(Append(built, case))
  <2>1. /\ Len(Append(built, case)) = k /\ Append(built, case)[k] = case
        /\ \A j \in 1 .. Len(built) : Append(built, case)[j] = built[j]
    BY <1>4, AppendProperties DEF k
  <2> DEFINE longer == Append(built, case)
  <2> HIDE DEF longer
  <2>2. /\ Len(longer) = k /\ k = Len(built) + 1 /\ longer[k] = case
        /\ \A j \in 1 .. Len(built) : longer[j] = built[j]
    BY <2>1 DEF longer, k
  <2>3. \A j \in {1, 3, 5, 10} : j <= Len(longer) => j = k \/ j \in 1 .. Len(built)
    BY <1>1, <2>2
  <2>4. \A j \in {1, 3, 5, 10} : j <= Len(longer) => longer[j] = IF j = k THEN case ELSE built[j]
    BY <1>1, <2>2, <2>3
  <2>5. Bases(longer)
    BY <1>3, <2>2, <2>3, <2>4 DEF Bases
  <2> QED
    BY <2>5 DEF longer
<1> QED
  BY <1>4, <1>5 DEF case, k

LEMMA TxCaseGood ==
  ASSUME NEW k \in 1 .. 6
  PROVE  TxCase(k) \in Good
<1>1. {"9600", "00", "ramp", "patternA", "patternB"} \subseteq Fills
  BY DEF Fills
<1>2. /\ TxCase(1) = Named("9600", 8, 0, 0) /\ TxCase(2) = Named("9600", 8, 512, 0)
      /\ TxCase(3) = Named("00", 8, 512, 0) /\ TxCase(4) = Named("patternA", 16, 16, 0)
      /\ TxCase(5) = Named("patternB", 16, 16, 0) /\ TxCase(6) = Named("ramp", 32, 32, 0)
  BY DEF TxCase
<1>3. /\ TxCase(1) \in Good /\ TxCase(2) \in Good /\ TxCase(3) \in Good
      /\ TxCase(4) \in Good /\ TxCase(5) \in Good /\ TxCase(6) \in Good
  BY <1>1, <1>2, NamedGood
<1> QED
  BY <1>3

(***************************************************************************)
(* The inductive invariant.                                                *)
(***************************************************************************)

TypeOK ==
  /\ tool \in {"led", "tx"} /\ pc \in {"build", "send", "poll", "pause", "exit"}
  /\ at \in Nat /\ sent \in Nat /\ arrived \in Nat /\ polls \in Nat /\ oldest \in Nat
  /\ fifo \in Seq(Nat)
  /\ result \in {"none", "data", "empty", "failed"}

\* The table under construction, or whole; the case under way is one of it.
Built ==
  /\ cases \in Seq(Good) /\ Len(cases) <= CaseCount
  /\ tool = "led" => Bases(cases)
  /\ pc = "build" => at = 0
  /\ pc \in {"send", "poll", "pause"} => Len(cases) = CaseCount /\ at <= CaseCount
  /\ pc = "send" => at > 0
  /\ out = <<>> \/ WellNamed(out)

Rising(bytes) == \A j, k \in 1 .. Len(bytes) : j < k => bytes[j] <= bytes[k]

\* What waits in the dongle came in case by case, none of it before the last
\* poll that came back empty or before what was printed last; if the last poll
\* came back empty, it was made in the case under way or in the one before.
Waiting ==
  /\ Rising(fifo)
  /\ \A k \in 1 .. Len(fifo) : oldest <= fifo[k] /\ fifo[k] <= at
  /\ oldest <= at
  /\ result = "empty" => IF pc = "pause" THEN oldest = at ELSE at <= oldest + 1
  /\ pc = "build" => result = "none"

IInv == TypeOK /\ Built /\ Waiting /\ ShownIsRecent

LEMMA Counts == CaseCount \in {6, 12}
  BY DEF CaseCount

\* No case is built when the program begins.
LEMMA InitIInv == Init => IInv
<1> SUFFICES ASSUME Init PROVE IInv
  OBVIOUS
<1>1. TypeOK
  BY DEF Init, TypeOK
<1>2. Built
  <2>1. cases \in Seq(Good) /\ Len(cases) = 0
    BY EmptySeq DEF Init
  <2> QED
    BY <2>1, Counts DEF Init, Built, Bases
<1>3. Waiting /\ ShownIsRecent
  BY DEF Init, Waiting, Rising, ShownIsRecent
<1> QED
  BY <1>1, <1>2, <1>3 DEF IInv

(***************************************************************************)
(* The first and the rest of what waits.                                   *)
(***************************************************************************)

\* Part of a sequence of bytes is one.
LEMMA PartOf ==
  ASSUME NEW bytes \in Seq(Nat), NEW a \in Nat, NEW b \in Nat, a > 0, b <= Len(bytes)
  PROVE  /\ SubSeq(bytes, a, b) \in Seq(Nat)
         /\ Len(SubSeq(bytes, a, b)) = IF a <= b THEN b - a + 1 ELSE 0
         /\ \A k \in 1 .. Len(SubSeq(bytes, a, b)) :
              /\ a + k - 1 \in 1 .. Len(bytes) /\ SubSeq(bytes, a, b)[k] = bytes[a + k - 1]
         /\ Rising(bytes) => Rising(SubSeq(bytes, a, b))
<1> DEFINE part == SubSeq(bytes, a, b)
<1>1. \A k \in a .. b : bytes[k] \in Nat
  BY LenProperties, ElementOfSeq
<1>2. /\ part \in Seq(Nat) /\ Len(part) = (IF a <= b THEN b - a + 1 ELSE 0)
      /\ \A k \in 1 .. b - a + 1 : part[k] = bytes[a + k - 1]
  BY <1>1, SubSeqProperties
<1>3. Len(bytes) \in Nat
  BY LenProperties
<1> HIDE DEF part
<1>4. ASSUME NEW k \in 1 .. Len(part)
      PROVE  a + k - 1 \in 1 .. Len(bytes) /\ part[k] = bytes[a + k - 1]
  <2>1. a <= b /\ k \in 1 .. b - a + 1
    BY <1>2
  <2>2. a + k - 1 \in 1 .. Len(bytes)
    BY <1>3, <2>1
  <2> QED
    BY <1>2, <2>1, <2>2
<1>5. ASSUME Rising(bytes), NEW j \in 1 .. Len(part), NEW k \in 1 .. Len(part), j < k
      PROVE  part[j] <= part[k]
  <2>1. /\ a + j - 1 \in 1 .. Len(bytes) /\ part[j] = bytes[a + j - 1]
        /\ a + k - 1 \in 1 .. Len(bytes) /\ part[k] = bytes[a + k - 1]
    BY <1>4
  <2>2. a + j - 1 < a + k - 1
    BY <1>2, <1>5, LenProperties
  <2> QED
    BY <1>5, <2>1, <2>2 DEF Rising
<1> QED
  BY <1>2, <1>4, <1>5 DEF Rising, part

\* A byte that arrives is behind all that wait, and from the case under way.
LEMMA ArriveWaiting ==
  ASSUME TypeOK, Waiting, Arrive
  PROVE  Waiting'
<1> DEFINE n == Len(fifo)
<1>1. /\ fifo \in Seq(Nat) /\ at \in Nat /\ oldest \in Nat
      /\ fifo' = Append(fifo, at) /\ UNCHANGED <<pc, at, oldest, result>>
  BY DEF TypeOK, Arrive, seen
<1>2. /\ n \in Nat /\ Len(fifo') = n + 1 /\ fifo'[n + 1] = at
      /\ \A k \in 1 .. n : fifo'[k] = fifo[k] /\ fifo[k] \in Nat
  BY <1>1, LenProperties, AppendProperties, ElementOfSeq
<1>3. /\ \A k \in 1 .. n : oldest <= fifo[k] /\ fifo[k] <= at
      /\ oldest <= at /\ \A j, k \in 1 .. n : j < k => fifo[j] <= fifo[k]
  BY DEF Waiting, Rising
<1> HIDE DEF n
<1>4. ASSUME NEW k \in 1 .. (n + 1)
      PROVE  oldest <= fifo'[k] /\ fifo'[k] <= at
  BY <1>1, <1>2, <1>3, <1>4
<1>5. ASSUME NEW j \in 1 .. (n + 1), NEW k \in 1 .. (n + 1), j < k
      PROVE  fifo'[j] <= fifo'[k]
  <2>1. j \in 1 .. n
    BY <1>2, <1>5
  <2>2. CASE k = n + 1
    BY <1>2, <1>3, <2>1, <2>2
  <2>3. CASE k \in 1 .. n
    BY <1>2, <1>3, <1>5, <2>1, <2>3
  <2> QED
    BY <1>2, <2>2, <2>3
<1> QED
  BY <1>1, <1>2, <1>3, <1>4, <1>5 DEF Waiting, Rising

\* A poll that takes the first j bytes leaves the rest, which came in after
\* them.
LEMMA Rest ==
  ASSUME TypeOK, Waiting, NEW j \in 0 .. Len(fifo), Taken(j)
  PROVE  /\ fifo' \in Seq(Nat) /\ Rising(fifo')
         /\ \A k \in 1 .. Len(fifo') :
              /\ oldest <= fifo'[k] /\ fifo'[k] <= at
              /\ j > 0 => fifo[j] <= fifo'[k]
<1> DEFINE n == Len(fifo)
<1>1. /\ fifo \in Seq(Nat) /\ n \in Nat /\ j \in Nat /\ j <= n /\ j + 1 \in Nat /\ j + 1 > 0
  BY LenProperties DEF TypeOK
<1>2. /\ Rising(fifo) /\ \A k \in 1 .. n : oldest <= fifo[k] /\ fifo[k] <= at
  BY DEF Waiting
<1>3. fifo' = SubSeq(fifo, j + 1, n)
  BY DEF Taken
<1>4. /\ fifo' \in Seq(Nat) /\ Rising(fifo')
      /\ \A k \in 1 .. Len(fifo') : /\ j + 1 + k - 1 \in 1 .. n
                                    /\ fifo'[k] = fifo[j + 1 + k - 1]
  BY <1>1, <1>2, <1>3, PartOf
<1> HIDE DEF n
<1>5. ASSUME NEW k \in 1 .. Len(fifo'), j > 0
      PROVE  fifo[j] <= fifo'[k]
  <2>1. j \in 1 .. n /\ j < j + 1 + k - 1
    BY <1>1, <1>4, <1>5, LenProperties
  <2> QED
    BY <1>2, <1>4, <2>1 DEF Rising, n
<1> QED
  BY <1>2, <1>4, <1>5

\* The first j bytes that wait, printed.
LEMMA First ==
  ASSUME TypeOK, Waiting, NEW j \in 1 .. Len(fifo), NEW bytes, bytes = SubSeq(fifo, 1, j)
  PROVE  /\ DOMAIN bytes = 1 .. Len(bytes) /\ Rising(bytes)
         /\ \A k \in 1 .. Len(bytes) : oldest <= bytes[k] /\ bytes[k] <= at
<1>1. fifo \in Seq(Nat) /\ j \in Nat /\ j <= Len(fifo) /\ Rising(fifo)
  BY LenProperties DEF TypeOK, Waiting
<1>2. /\ bytes \in Seq(Nat) /\ Rising(bytes)
      /\ \A k \in 1 .. Len(bytes) : /\ 1 + k - 1 \in 1 .. Len(fifo)
                                    /\ bytes[k] = fifo[1 + k - 1]
  BY <1>1, PartOf
<1> QED
  BY <1>2, LenProperties DEF Waiting

\* If the last poll came back empty, it was that of the case before.
LEMMA EmptyBefore ==
  ASSUME Waiting, pc = "poll", result = "empty" PROVE at <= oldest + 1
  BY DEF Waiting

(***************************************************************************)
(* Every step keeps the invariant.                                         *)
(***************************************************************************)

\* What all polls have in common.
LEMMA PollsAre ==
  ASSUME TypeOK, Poll
  PROVE  /\ pc = "poll" /\ pc' = "pause" /\ UNCHANGED <<tool, cases, at, sent, arrived, out>>
         /\ \E j \in 0 .. Len(fifo) : Taken(j)
         /\ polls' \in Nat /\ oldest' \in Nat /\ result' \in {"data", "empty", "failed"}
<1>1. CASE PollData
  <2>1. PICK j \in 1 .. Len(fifo) : Taken(j) /\ Printed(SubSeq(fifo, 1, j), "data") /\ oldest' = fifo[j]
    BY <1>1 DEF PollData
  <2>2. fifo[j] \in Nat /\ j \in 0 .. Len(fifo)
    BY <2>1, ElementOfSeq DEF TypeOK
  <2> QED
    BY <1>1, <2>1, <2>2 DEF PollData, Printed, table, TypeOK
<1>2. CASE PollEmpty
  <2>1. fifo = <<>> /\ fifo' = <<>> /\ 0 \in 0 .. Len(fifo)
    BY <1>2 DEF PollEmpty, dongle
  <2>2. Taken(0)
    <3>1. SubSeq(fifo, 0 + 1, Len(fifo)) = <<>>
      BY <2>1, SubSeqEmpty
    <3> QED
      BY <2>1, <3>1, CaseListAssumption DEF Taken
  <2> QED
    BY <1>2, <2>1, <2>2 DEF PollEmpty, Printed, table, dongle, TypeOK
<1>3. CASE PollError
  BY <1>3 DEF PollError, AfterFailedPoll, Printed, table, TypeOK
<1> QED
  BY <1>1, <1>2, <1>3 DEF Poll

\* No step leaves the types.
LEMMA StepTypeOK == TypeOK /\ [Next]_vars => TypeOK'
<1> SUFFICES ASSUME TypeOK, [Next]_vars PROVE TypeOK'
  OBVIOUS
<1>1. CASE Arrive
  <2>1. fifo' \in Seq(Nat)
    BY <1>1, AppendProperties DEF Arrive, TypeOK
  <2> QED
    BY <1>1, <2>1 DEF Arrive, table, seen, TypeOK
<1>2. CASE BuildCase
  BY <1>2 DEF BuildCase, dongle, seen, TypeOK
<1>3. CASE Open
  BY <1>3 DEF Open, FirstPoll, FirstCase, table, dongle, seen, TypeOK
<1>4. CASE Send
  BY <1>4 DEF Send, AfterSend, table, dongle, seen, TypeOK
<1>5. CASE Poll
  <2>1. PICK j \in 0 .. Len(fifo) : Taken(j)
    BY <1>5, PollsAre
  <2>2. j + 1 \in Nat /\ j + 1 > 0 /\ Len(fifo) \in Nat
    BY LenProperties DEF TypeOK
  <2>3. fifo' \in Seq(Nat)
    BY <2>1, <2>2, PartOf DEF Taken, TypeOK
  <2> QED
    BY <1>5, <2>3, PollsAre DEF TypeOK
<1>7. CASE EndPause
  BY <1>7 DEF EndPause, table, dongle, seen, TypeOK
<1>6. CASE UNCHANGED vars
  BY <1>6 DEF vars, table, dongle, seen, TypeOK
<1> QED
  BY <1>1, <1>2, <1>3, <1>4, <1>5, <1>6, <1>7 DEF Next, Program

\* The table stays good, and what is sent is of it.
LEMMA StepBuilt == TypeOK /\ Built /\ [Next]_vars => Built'
<1> SUFFICES ASSUME TypeOK, Built, [Next]_vars PROVE Built'
  OBVIOUS
<1>0. CaseCount \in Nat /\ Len(cases) \in Nat /\ at \in Nat
  BY Counts, LenProperties DEF TypeOK, Built
<1>1. CASE Arrive \/ UNCHANGED vars
  <2>1. UNCHANGED <<tool, cases, pc, at, out>>
    BY <1>1 DEF Arrive, vars, table
  <2> QED
    BY <2>1 DEF Built, CaseCount
<1>2. CASE BuildCase
  <2>1. /\ pc = "build" /\ Len(cases) < CaseCount /\ UNCHANGED <<tool, pc, at, out>>
        /\ cases' = Append(cases, IF tool = "led" THEN LedCase(Len(cases) + 1, cases)
                                  ELSE TxCase(Len(cases) + 1))
    BY <1>2 DEF BuildCase
  <2>2. CaseCount' = CaseCount
    BY <2>1 DEF CaseCount
  <2>3. CASE tool = "led"
    <3>1. Len(cases) < 12 /\ Bases(cases) /\ cases \in Seq(Good)
      BY <2>1, <2>3 DEF Built, CaseCount
    <3>2. LedCase(Len(cases) + 1, cases) \in Good /\ Bases(cases')
      BY <2>1, <2>3, <3>1, LedCaseGood
    <3>3. cases' \in Seq(Good) /\ Len(cases') = Len(cases) + 1
      BY <2>1, <2>3, <3>1, <3>2, AppendProperties
    <3> QED
      BY <1>0, <2>1, <2>2, <3>2, <3>3 DEF Built
  <2>4. CASE tool # "led"
    <3>1. Len(cases) + 1 \in 1 .. 6 /\ cases \in Seq(Good)
      BY <1>0, <2>1, <2>4 DEF Built, CaseCount
    <3>2. TxCase(Len(cases) + 1) \in Good
      BY <3>1, TxCaseGood
    <3>3. cases' \in Seq(Good) /\ Len(cases') = Len(cases) + 1
      BY <2>1, <2>4, <3>1, <3>2, AppendProperties
    <3> QED
      BY <1>0, <2>1, <2>2, <2>4, <3>3 DEF Built
  <2> QED
    BY <2>3, <2>4
<1>3. CASE Open
  <2>1. /\ pc = "build" /\ Len(cases) = CaseCount /\ at = 0 /\ UNCHANGED <<tool, cases, out>>
    BY <1>3 DEF Open, table, Built
  <2>2. \/ pc' \in {"poll", "exit"} /\ at' = 0
        \/ pc' = "send" /\ at' = 1
    BY <1>3, <2>1 DEF Open, FirstPoll, FirstCase
  <2>3. CaseCount' = CaseCount /\ 1 <= CaseCount
    BY <2>1, Counts DEF CaseCount
  <2> QED
    BY <1>0, <2>1, <2>2, <2>3 DEF Built
<1>4. CASE Send
  <2>1. /\ pc = "send" /\ pc' \in {"send", "poll"} /\ out' = cases[at]
        /\ UNCHANGED <<tool, cases, at>>
    BY <1>4 DEF Send, AfterSend, table
  <2>2. at \in 1 .. Len(cases)
    BY <1>0, <2>1 DEF Built
  <2>3. cases[at] \in Good
    BY <2>2, ElementOfSeq DEF Built
  <2> QED
    BY <2>1, <2>3 DEF Built, Good, CaseCount
<1>5. CASE Poll
  <2>1. pc = "poll" /\ pc' = "pause" /\ UNCHANGED <<tool, cases, at, out>>
    BY <1>5, PollsAre
  <2> QED
    BY <2>1 DEF Built, CaseCount
<1>6. CASE EndPause
  <2>1. /\ pc = "pause" /\ UNCHANGED <<tool, cases, out>>
        /\ \/ at < CaseCount /\ pc' = "send" /\ at' = at + 1
           \/ pc' = "exit" /\ at' = at
    BY <1>6 DEF EndPause, table
  <2>2. CaseCount' = CaseCount
    BY <2>1 DEF CaseCount
  <2> QED
    BY <1>0, <2>1, <2>2 DEF Built
<1> QED
  BY <1>1, <1>2, <1>3, <1>4, <1>5, <1>6 DEF Next, Program

\* A poll prints the first of what waits, or nothing.
LEMMA PollShown ==
  ASSUME TypeOK, Waiting, ShownIsRecent, Poll
  PROVE  Waiting' /\ ShownIsRecent'
<1>1. pc = "poll" /\ pc' = "pause" /\ at' = at /\ at \in Nat /\ oldest \in Nat
  BY PollsAre DEF TypeOK
<1>2. ASSUME NEW bytes, NEW how, Printed(bytes, how),
             DOMAIN bytes = 1 .. Len(bytes), Rising(bytes),
             \A k \in 1 .. Len(bytes) : oldest <= bytes[k] /\ bytes[k] <= at
      PROVE  ShownIsRecent' /\ result' = how
  <2>1. /\ shown'.bytes = bytes /\ shown'.under = at /\ shown'.oldest = oldest
        /\ shown'.after = result /\ result' = how
    BY <1>2 DEF Printed
  <2>2. result = "empty" => at <= oldest + 1
    BY <1>1, EmptyBefore
  <2> QED
    BY <1>2, <2>1, <2>2 DEF ShownIsRecent, Rising
<1>3. Rising(<<>>) /\ DOMAIN <<>> = 1 .. Len(<<>>) /\ 1 .. Len(<<>>) = {}
  BY DEF Rising
<1>4. CASE PollData
  <2>1. PICK j \in 1 .. Len(fifo) : Taken(j) /\ Printed(SubSeq(fifo, 1, j), "data") /\ oldest' = fifo[j]
    BY <1>4 DEF PollData
  <2>2. ShownIsRecent' /\ result' = "data"
    <3> DEFINE bytes == SubSeq(fifo, 1, j)
    <3>1. /\ DOMAIN bytes = 1 .. Len(bytes) /\ Rising(bytes)
          /\ \A k \in 1 .. Len(bytes) : oldest <= bytes[k] /\ bytes[k] <= at
      BY First
    <3>2. Printed(bytes, "data")
      BY <2>1
    <3> HIDE DEF bytes
    <3> QED
      BY <1>2, <3>1, <3>2
  <2>3. j \in 0 .. Len(fifo) /\ j > 0 /\ fifo[j] \in Nat /\ fifo[j] <= at
    BY ElementOfSeq DEF TypeOK, Waiting
  <2>4. /\ Rising(fifo')
        /\ \A k \in 1 .. Len(fifo') : fifo'[k] <= at /\ fifo[j] <= fifo'[k]
    BY <2>1, <2>3, Rest
  <2> QED
    BY <1>1, <2>1, <2>2, <2>3, <2>4 DEF Waiting, Rising
<1>5. CASE PollEmpty
  <2>1. /\ fifo' = <<>> /\ Printed(<<>>, "empty") /\ oldest' = at
    BY <1>5 DEF PollEmpty, dongle
  <2> QED
    BY <1>1, <1>2, <1>3, <2>1 DEF Waiting, Rising
<1>6. CASE PollError
  <2>1. PICK j \in 0 .. Len(fifo) : Taken(j)
    BY <1>6 DEF PollError
  <2>2. Printed(<<>>, "failed") /\ oldest' = oldest
    BY <1>6 DEF PollError
  <2>3. /\ Rising(fifo')
        /\ \A k \in 1 .. Len(fifo') : oldest <= fifo'[k] /\ fifo'[k] <= at
    BY <2>1, Rest
  <2>4. ShownIsRecent' /\ result' = "failed"
    BY <1>2, <1>3, <2>2
  <2> QED
    BY <1>1, <2>2, <2>3, <2>4 DEF Waiting, Rising
<1> QED
  BY <1>4, <1>5, <1>6 DEF Poll

\* What waits and what is printed keep their order and their age.
LEMMA StepShown ==
  TypeOK /\ Built /\ Waiting /\ ShownIsRecent /\ [Next]_vars => Waiting' /\ ShownIsRecent'
<1> SUFFICES ASSUME TypeOK, Built, Waiting, ShownIsRecent, [Next]_vars
             PROVE  Waiting' /\ ShownIsRecent'
  OBVIOUS
<1>1. CASE Arrive
  <2>1. shown' = shown
    BY <1>1 DEF Arrive, seen
  <2> QED
    BY <1>1, <2>1, ArriveWaiting DEF ShownIsRecent
<1>2. CASE BuildCase \/ Send \/ UNCHANGED vars
  <2>1. UNCHANGED <<at, fifo, result, oldest, shown>>
    BY <1>2 DEF BuildCase, Send, vars, dongle, seen
  <2>2. (pc = "pause" <=> pc' = "pause") /\ (pc = "build" \/ pc' # "build")
    BY <1>2 DEF BuildCase, Send, AfterSend, vars
  <2> QED
    BY <2>1, <2>2 DEF Waiting, Rising, ShownIsRecent
<1>3. CASE Open
  <2>1. /\ pc = "build" /\ at = 0 /\ UNCHANGED <<fifo, result, oldest, shown>>
        /\ at' \in {0, 1} /\ pc' # "build"
    BY <1>3 DEF Open, FirstPoll, FirstCase, dongle, seen, Built
  <2>2. result # "empty"
    BY <2>1 DEF Waiting
  <2>3. \A k \in 1 .. Len(fifo) : fifo[k] \in Nat
    BY ElementOfSeq DEF TypeOK
  <2>4. oldest \in Nat /\ oldest <= 0 /\ \A k \in 1 .. Len(fifo) : fifo[k] <= 0 /\ oldest <= fifo[k]
    BY <2>1 DEF Waiting, TypeOK
  <2>5. oldest' <= at' /\ \A k \in 1 .. Len(fifo') : fifo'[k] <= at' /\ oldest' <= fifo'[k]
    BY <2>1, <2>3, <2>4
  <2> QED
    BY <2>1, <2>2, <2>5 DEF Waiting, Rising, ShownIsRecent
<1>4. CASE Poll
  BY <1>4, PollShown
<1>5. CASE EndPause
  <2>1. /\ pc = "pause" /\ pc' \in {"send", "exit"} /\ at' \in {at, at + 1}
        /\ UNCHANGED <<fifo, result, oldest, shown>>
    BY <1>5 DEF EndPause, dongle, seen
  <2>2. /\ at \in Nat /\ oldest \in Nat /\ \A k \in 1 .. Len(fifo) : fifo[k] \in Nat
    BY ElementOfSeq DEF TypeOK
  <2>3. /\ oldest <= at' /\ (result = "empty" => at' <= oldest + 1)
        /\ \A k \in 1 .. Len(fifo) : fifo[k] <= at'
    BY <2>1, <2>2 DEF Waiting
  <2> QED
    BY <2>1, <2>3 DEF Waiting, Rising, ShownIsRecent
<1> QED
  BY <1>1, <1>2, <1>3, <1>4, <1>5 DEF Next, Program

\* The table, what waits in the dongle and what is printed, at every point.
THEOREM InductiveInvariant == Spec => []IInv
<1>1. Init => IInv
  BY InitIInv
<1>2. IInv /\ [Next]_vars => IInv'
  BY StepTypeOK, StepBuilt, StepShown DEF IInv
<1> QED
  BY <1>1, <1>2, PTL DEF Spec

(***************************************************************************)
(* The theorems.                                                           *)
(***************************************************************************)

\* What goes out under a name is what the name says, the copies included.
THEOREM SentUnderItsName == Spec => []SentAsNamed
<1>1. IInv => SentAsNamed
  BY DEF IInv, Built, WellNamed, SentAsNamed
<1> QED
  BY <1>1, InductiveInvariant, PTL

\* What is printed comes in the order it arrived and from no case before the one
\* under way when a poll last came back empty, and if that was the poll before,
\* from this case or the pause that led to it.
THEOREM ShownRecent == Spec => []ShownIsRecent
<1>1. IInv => ShownIsRecent
  BY DEF IInv
<1> QED
  BY <1>1, InductiveInvariant, PTL

(***************************************************************************)
(* The arm scan.                                                           *)
(***************************************************************************)

\* The sequences are numbered from 1, and each has something to send.
LEMMA SevenSequences ==
  /\ Len(StepCount) = 7 /\ DOMAIN StepCount = 1 .. 7
  /\ \A q \in 1 .. 7 : StepCount[q] \in Nat
  BY DEF StepCount

(***************************************************************************)
(* The inductive invariant.                                                *)
(***************************************************************************)

Tally == [outs : Nat, polls : Nat]

ScanTyped ==
  /\ data \in Int /\ origin \in Int
  /\ phase \in {"open", "send", "poll", "closed"}
  /\ seq \in 0 .. 7 /\ i \in Nat /\ found \in 0 .. 7
  /\ g_stop \in BOOLEAN /\ failed \in BOOLEAN
  /\ tried \in [1 .. 7 -> Tally]
  /\ phase = "open" => seq = 0
  /\ phase \in {"send", "poll"} => seq \in 1 .. 7

\* The sequences before this one were tried whole; none behind it was begun.
Earlier == \A q \in 1 .. 7 : q < seq => Whole(q)
Later == \A q \in 1 .. 7 : q > seq => tried[q] = [outs |-> 0, polls |-> 0]

\* How far the sequence under way has come.
UnderWay ==
  /\ phase = "send" => /\ tried[seq] = [outs |-> i, polls |-> 0]
                       /\ i <= StepCount[seq]
  /\ phase = "poll" => /\ tried[seq].polls = i /\ i <= Polls
                       /\ ~g_stop => tried[seq].outs = StepCount[seq]

\* A scan that has ended, with something to announce or without.
Ended ==
  /\ phase # "closed" => found = 0
  /\ phase = "closed" /\ seq > 0 /\ found = 0 /\ ~g_stop => seq = 7 /\ Whole(7)
  /\ found > 0 => found = seq /\ tried[seq].outs = StepCount[seq]

\* An idle poll empties the dongle of all that came in before it, so what it
\* holds is from this sequence, or from the one before until the first poll.
Age ==
  ~failed =>
    /\ phase = "poll" /\ i > 0 /\ data # 0 => data = seq
    /\ phase \in {"send", "poll"} /\ seq > 1 /\ data # 0 => data >= seq - 1
    /\ found > 1 => origin >= found - 1

Shape == Earlier /\ Later /\ UnderWay /\ Ended
ScanInv == ScanTyped /\ Shape /\ Age

\* Nothing has been tried when the scan begins.
LEMMA ScanInvInit == ScanInit => ScanInv
<1> SUFFICES ASSUME ScanInit PROVE ScanInv
  OBVIOUS
<1>1. tried = [q \in 1 .. 7 |-> [outs |-> 0, polls |-> 0]]
  BY SevenSequences DEF ScanInit, NothingTried
<1>2. tried \in [1 .. 7 -> Tally]
  BY <1>1 DEF Tally
<1>3. ScanTyped
  <2>1. data \in Int
    <3>1. -1 \in Int
      OBVIOUS
    <3> QED
      BY <3>1 DEF ScanInit
  <2>2. phase = "open" /\ seq = 0 /\ i = 0 /\ found = 0 /\ origin = 0
    BY DEF ScanInit
  <2>3. g_stop \in BOOLEAN /\ failed \in BOOLEAN
    BY DEF ScanInit
  <2> QED
    BY <1>2, <2>1, <2>2, <2>3 DEF ScanTyped
<1>4. Shape
  BY <1>1 DEF ScanInit, Shape, Earlier, Later, UnderWay, Ended
<1>5. Age
  BY DEF ScanInit, Age
<1> QED
  BY <1>3, <1>4, <1>5 DEF ScanInv

\* Where the loop of main goes.
LEMMA NextSequenceStep ==
  ASSUME ScanTyped, NextSequence
  PROVE  \/ /\ phase' = "send" /\ seq' = seq + 1 /\ i' = 0 /\ seq < 7 /\ ~g_stop
         \/ /\ phase' = "closed" /\ seq' = seq /\ i' = i /\ (seq = 7 \/ g_stop)
  BY SevenSequences DEF NextSequence, ScanTyped

\* One more OUT transfer, or one more poll, of the sequence under way.
LEMMA OneMore ==
  ASSUME ScanTyped, seq \in 1 .. 7
  PROVE  /\ tried' = [tried EXCEPT ![seq].outs = @ + 1] =>
              /\ tried' \in [1 .. 7 -> Tally]
              /\ tried'[seq] = [outs |-> tried[seq].outs + 1, polls |-> tried[seq].polls]
              /\ \A q \in 1 .. 7 : q # seq => tried'[q] = tried[q]
         /\ tried' = [tried EXCEPT ![seq].polls = @ + 1] =>
              /\ tried' \in [1 .. 7 -> Tally]
              /\ tried'[seq] = [outs |-> tried[seq].outs, polls |-> tried[seq].polls + 1]
              /\ \A q \in 1 .. 7 : q # seq => tried'[q] = tried[q]
<1>1. tried \in [1 .. 7 -> Tally] /\ tried[seq] \in Tally
  BY DEF ScanTyped
<1>2. tried[seq] = [outs |-> tried[seq].outs, polls |-> tried[seq].polls]
      /\ tried[seq].outs \in Nat /\ tried[seq].polls \in Nat
  BY <1>1 DEF Tally
<1>3. /\ [tried[seq] EXCEPT !.outs = @ + 1]
           = [outs |-> tried[seq].outs + 1, polls |-> tried[seq].polls]
      /\ [tried[seq] EXCEPT !.polls = @ + 1]
           = [outs |-> tried[seq].outs, polls |-> tried[seq].polls + 1]
  BY <1>2
<1>4. /\ [tried[seq] EXCEPT !.outs = @ + 1] \in Tally
      /\ [tried[seq] EXCEPT !.polls = @ + 1] \in Tally
  BY <1>2, <1>3 DEF Tally
<1>5. ASSUME NEW t \in Tally, tried' = [tried EXCEPT ![seq] = t]
      PROVE  /\ tried' \in [1 .. 7 -> Tally] /\ tried'[seq] = t
             /\ \A q \in 1 .. 7 : q # seq => tried'[q] = tried[q]
  BY <1>1, <1>5
<1> QED
  BY <1>3, <1>4, <1>5

\* No step leaves the types.
LEMMA StepScanTyped == ScanTyped /\ [ScanNext]_scanvars => ScanTyped'
<1> SUFFICES ASSUME ScanTyped, [ScanNext]_scanvars PROVE ScanTyped'
  OBVIOUS
<1>1. CASE LightArrives
  BY <1>1 DEF LightArrives, history, ScanTyped
<1>2. CASE OnSigint
  BY <1>2 DEF OnSigint, history, ScanTyped
<1>3. CASE OpenScan \/ EndMonitor
  <2>1. UNCHANGED <<data, g_stop, found, origin, tried, failed>>
    BY <1>3 DEF OpenScan, EndMonitor, history
  <2>2. NextSequence \/ (phase' = "closed" /\ UNCHANGED <<seq, i>>)
    BY <1>3 DEF OpenScan, EndMonitor
  <2> QED
    BY <2>1, <2>2, NextSequenceStep DEF ScanTyped
<1>4. CASE SendStep
  <2>1. tried' \in [1 .. 7 -> Tally]
    BY <1>4, OneMore DEF SendStep, ScanTyped
  <2> QED
    BY <1>4, <2>1 DEF SendStep, ScanTyped
<1>5. CASE StartMonitor
  BY <1>5 DEF StartMonitor, history, ScanTyped
<1>6. CASE MonitorError \/ MonitorIdle \/ MonitorData
  <2>1. tried' \in [1 .. 7 -> Tally]
    BY <1>6, OneMore DEF MonitorError, MonitorIdle, MonitorData, ScanTyped
  <2>2. data' \in Int /\ origin' \in Int
    BY <1>6 DEF MonitorError, MonitorIdle, MonitorData, ScanTyped
  <2>3. phase' \in {"poll", "closed"} /\ seq' = seq /\ i' \in Nat /\ found' \in 0 .. 7
    BY <1>6 DEF MonitorError, MonitorIdle, MonitorData, ScanTyped
  <2>4. g_stop' \in BOOLEAN /\ failed' \in BOOLEAN
    BY <1>6 DEF MonitorError, MonitorIdle, MonitorData, ScanTyped
  <2>5. seq \in 1 .. 7
    BY <1>6 DEF MonitorError, MonitorIdle, MonitorData, ScanTyped
  <2> QED
    BY <2>1, <2>2, <2>3, <2>4, <2>5 DEF ScanTyped
<1>7. CASE UNCHANGED scanvars
  BY <1>7 DEF scanvars, ScanTyped
<1> QED
  BY <1>1, <1>2, <1>3, <1>4, <1>5, <1>6, <1>7 DEF ScanNext, Scan

\* What was tried keeps its shape.
LEMMA StepShape == ScanTyped /\ Shape /\ [ScanNext]_scanvars => Shape'
<1> SUFFICES ASSUME ScanTyped, Shape, [ScanNext]_scanvars PROVE Shape'
  OBVIOUS
<1> USE PollsAssumption, SevenSequences
<1>1. CASE LightArrives \/ OnSigint \/ UNCHANGED scanvars
  <2>1. UNCHANGED <<phase, seq, i, found, tried>> /\ (g_stop' = g_stop \/ g_stop')
    BY <1>1 DEF LightArrives, OnSigint, scanvars, history
  <2> QED
    BY <2>1 DEF Shape, Earlier, Later, UnderWay, Ended, Whole
<1>2. CASE OpenScan
  <2>1. phase = "open" /\ seq = 0 /\ UNCHANGED <<g_stop, found, tried>>
    BY <1>2 DEF OpenScan, history, ScanTyped
  <2>2. \/ phase' = "send" /\ seq' = 1 /\ i' = 0
        \/ phase' = "closed" /\ seq' = 0
    BY <1>2, <2>1, NextSequenceStep DEF OpenScan
  <2> QED
    BY <2>1, <2>2 DEF Shape, Earlier, Later, UnderWay, Ended, Whole
<1>3. CASE SendStep
  <2>1. /\ phase = "send" /\ phase' = "send" /\ seq \in 1 .. 7 /\ i < StepCount[seq] /\ i' = i + 1
        /\ UNCHANGED <<seq, g_stop, found>>
    BY <1>3 DEF SendStep, ScanTyped
  <2>2. /\ tried'[seq] = [outs |-> tried[seq].outs + 1, polls |-> tried[seq].polls]
        /\ \A q \in 1 .. 7 : q # seq => tried'[q] = tried[q]
    BY <1>3, <2>1, OneMore DEF SendStep
  <2>3. tried'[seq] = [outs |-> i', polls |-> 0] /\ i' <= StepCount[seq]
    BY <2>1, <2>2 DEF Shape, UnderWay, ScanTyped
  <2> QED
    BY <2>1, <2>2, <2>3 DEF Shape, Earlier, Later, UnderWay, Ended, Whole
<1>4. CASE StartMonitor
  <2>1. /\ phase = "send" /\ phase' = "poll" /\ seq \in 1 .. 7 /\ (i = StepCount[seq] \/ g_stop) /\ i' = 0
        /\ UNCHANGED <<seq, g_stop, found, tried>>
    BY <1>4 DEF StartMonitor, history, ScanTyped
  <2>2. tried[seq].polls = 0 /\ tried[seq].outs = i
    BY <2>1 DEF Shape, UnderWay
  <2> QED
    BY <2>1, <2>2 DEF Shape, Earlier, Later, UnderWay, Ended, Whole
<1>5. CASE MonitorError \/ MonitorIdle \/ MonitorData
  <2>1. /\ phase = "poll" /\ seq \in 1 .. 7 /\ i < Polls /\ ~g_stop /\ i' = i + 1
        /\ UNCHANGED <<seq, g_stop>>
    BY <1>5 DEF MonitorError, MonitorIdle, MonitorData, MorePolls, ScanTyped
  <2>2. /\ tried'[seq] = [outs |-> tried[seq].outs, polls |-> tried[seq].polls + 1]
        /\ \A q \in 1 .. 7 : q # seq => tried'[q] = tried[q]
    BY <1>5, <2>1, OneMore DEF MonitorError, MonitorIdle, MonitorData
  <2>3. tried'[seq].outs = StepCount[seq] /\ tried'[seq].polls = i' /\ i' <= Polls
    BY <2>1, <2>2 DEF Shape, UnderWay, ScanTyped
  <2>4. \/ phase' = "poll" /\ found' = found
        \/ phase' = "closed" /\ found' = seq
    BY <1>5 DEF MonitorError, MonitorIdle, MonitorData
  <2> QED
    BY <2>1, <2>2, <2>3, <2>4 DEF Shape, Earlier, Later, UnderWay, Ended, Whole
<1>6. CASE EndMonitor
  <2>1. /\ phase = "poll" /\ seq \in 1 .. 7 /\ (~g_stop => i >= Polls)
        /\ UNCHANGED <<g_stop, found, tried>>
    BY <1>6 DEF EndMonitor, MorePolls, history, ScanTyped
  <2>2. ~g_stop => Whole(seq)
    BY <2>1 DEF Shape, UnderWay, Whole, ScanTyped
  <2>3. CASE phase' = "send" /\ seq' = seq + 1 /\ i' = 0 /\ seq < 7 /\ ~g_stop
    <3>1. tried[seq'] = [outs |-> 0, polls |-> 0] /\ seq' \in 1 .. 7
      BY <2>1, <2>3 DEF Shape, Later
    <3>2. \A q \in 1 .. 7 : q < seq' => Whole(q)
      BY <2>1, <2>2, <2>3 DEF Shape, Earlier
    <3> QED
      BY <2>1, <2>3, <3>1, <3>2 DEF Shape, Earlier, Later, UnderWay, Ended, Whole
  <2>4. CASE phase' = "closed" /\ seq' = seq /\ (seq = 7 \/ g_stop)
    BY <2>1, <2>2, <2>4 DEF Shape, Earlier, Later, UnderWay, Ended, Whole
  <2> QED
    BY <1>6, <2>3, <2>4, NextSequenceStep DEF EndMonitor
<1> QED
  BY <1>1, <1>2, <1>3, <1>4, <1>5, <1>6 DEF ScanNext, Scan

\* The data the dongle holds stay as young as the invariant says.
LEMMA StepAge == ScanTyped /\ Shape /\ Age /\ [ScanNext]_scanvars => Age'
<1> SUFFICES ASSUME ScanTyped, Shape, Age, [ScanNext]_scanvars PROVE Age'
  OBVIOUS
<1> USE PollsAssumption
<1>1. CASE LightArrives
  <2>1. data' = (IF seq = 0 THEN 0 - 1 ELSE seq) /\ UNCHANGED <<phase, seq, i, found, origin, failed>>
    BY <1>1 DEF LightArrives, history
  <2> QED
    BY <2>1 DEF Age, ScanTyped
<1>2. CASE OnSigint \/ UNCHANGED scanvars
  BY <1>2 DEF OnSigint, scanvars, history, Age
<1>3. CASE OpenScan
  <2>1. UNCHANGED <<data, found, origin, failed>> /\ seq = 0
    BY <1>3 DEF OpenScan, history, ScanTyped
  <2>2. \/ phase' = "send" /\ seq' = 1
        \/ phase' = "closed" /\ seq' = 0
    BY <1>3, <2>1, NextSequenceStep DEF OpenScan
  <2> QED
    BY <2>1, <2>2 DEF Age
<1>4. CASE SendStep
  BY <1>4 DEF SendStep, Age
<1>5. CASE StartMonitor
  BY <1>5 DEF StartMonitor, history, Age
<1>6. CASE MonitorError
  BY <1>6 DEF MonitorError, Age
<1>7. CASE MonitorIdle
  BY <1>7 DEF MonitorIdle, Age
<1>8. CASE MonitorData
  BY <1>8 DEF MonitorData, Age, ScanTyped
<1>9. CASE EndMonitor
  <2>1. /\ phase = "poll" /\ seq \in 1 .. 7 /\ (~g_stop => i >= Polls)
        /\ UNCHANGED <<data, found, origin, failed>>
    BY <1>9 DEF EndMonitor, MorePolls, history, ScanTyped
  <2>2. CASE phase' = "send" /\ seq' = seq + 1 /\ ~g_stop
    <3>1. i > 0
      BY <2>1, <2>2 DEF ScanTyped
    <3> QED
      BY <2>1, <2>2, <3>1 DEF Age, ScanTyped
  <2>3. CASE phase' = "closed" /\ seq' = seq
    BY <2>1, <2>3 DEF Age
  <2> QED
    BY <1>9, <2>2, <2>3, NextSequenceStep DEF EndMonitor
<1> QED
  BY <1>1, <1>2, <1>3, <1>4, <1>5, <1>6, <1>7, <1>8, <1>9 DEF ScanNext, Scan

\* What was tried, and how old the data are, at every point of the scan.
THEOREM ScanInvariant == ScanSpec => []ScanInv
<1>1. ScanInit => ScanInv
  BY ScanInvInit
<1>2. ScanInv /\ [ScanNext]_scanvars => ScanInv'
  BY StepScanTyped, StepShape, StepAge DEF ScanInv
<1> QED
  BY <1>1, <1>2, PTL DEF ScanSpec

(***************************************************************************)
(* The theorems.                                                           *)
(***************************************************************************)

\* Wherever SIGINT comes, a sequence half sent is not announced and no other
\* follows it; a scan that was not interrupted announces nothing only after it
\* has tried everything.
THEOREM VerdictsComplete == ScanSpec => []VerdictComplete
<1>1. ScanInv => VerdictComplete
  <2> SUFFICES ASSUME ScanInv PROVE VerdictComplete
    OBVIOUS
  <2>1. /\ \A q \in 1 .. 7 : q < seq => Whole(q)
        /\ \A q \in 1 .. 7 : q > seq => tried[q] = [outs |-> 0, polls |-> 0]
        /\ phase = "closed" /\ seq > 0 /\ found = 0 /\ ~g_stop => seq = 7 /\ Whole(7)
        /\ found > 0 => found = seq /\ tried[seq].outs = StepCount[seq]
    BY DEF ScanInv, Shape, Earlier, Later, Ended
  <2>2. phase = "closed" /\ seq > 0 /\ found = 0 /\ ~g_stop => \A q \in 1 .. 7 : Whole(q)
    BY <2>1
  <2>3. \A q \in 1 .. 7 : NothingTried[q] = [outs |-> 0, polls |-> 0]
    BY SevenSequences DEF NothingTried
  <2> QED
    BY <2>1, <2>2, <2>3, SevenSequences DEF VerdictComplete
<1> QED
  BY <1>1, ScanInvariant, PTL

\* Where no poll failed, what was found came in no earlier than the sequence
\* before the one announced.
THEOREM FindsAreRecent == ScanSpec => []FoundIsRecent
<1>1. ScanInv => FoundIsRecent
  BY DEF ScanInv, Age, FoundIsRecent
<1> QED
  BY <1>1, ScanInvariant, PTL
=============================================================================
