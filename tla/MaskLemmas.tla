------------------------------ MODULE MaskLemmas -----------------------------
(***************************************************************************)
(* What the proofs about the receiving programs share: the arithmetic of   *)
(* the mask, what the bytes that carry data add up to, induction over the  *)
(* natural numbers, and what hex_dump leaves out of what it prints.        *)
(***************************************************************************)
EXTENDS Mask, HexDump, SequenceTheorems, WellFoundedInduction, TLAPS

(***************************************************************************)
(* Arithmetic of the mask.                                                 *)
(***************************************************************************)

\* Division with remainder.
LEMMA DivMod ==
  ASSUME NEW p \in Int
  PROVE  /\ p \div Modulus \in Int
         /\ p % Modulus \in 0 .. (Modulus - 1)
         /\ p = Modulus * (p \div Modulus) + (p % Modulus)
  BY ModulusAssumption

\* Quotient and remainder are determined by the equation.
LEMMA DivModUnique ==
  ASSUME NEW p \in Int, NEW q \in Int, NEW r \in 0 .. (Modulus - 1), p = Modulus * q + r
  PROVE  q = p \div Modulus /\ r = p % Modulus
<1> USE ModulusAssumption
<1> DEFINE q1 == p \div Modulus
           r1 == p % Modulus
<1>1. q1 \in Int /\ r1 \in 0 .. (Modulus - 1) /\ p = Modulus * q1 + r1
  BY DivMod
<1> HIDE DEF q1, r1
<1>2. Modulus * (q - q1) = r1 - r
  BY <1>1
<1>3. CASE q = q1
  BY <1>1, <1>3 DEF q1, r1
<1>4. CASE q > q1
  <2>1. Modulus * (q - q1) >= Modulus * 1
    BY <1>1, <1>4
  <2> QED
    BY <2>1, <1>1, <1>2
<1>5. CASE q < q1
  <2>1. Modulus * (q1 - q) >= Modulus * 1
    BY <1>1, <1>5
  <2>2. Modulus * (q1 - q) = r - r1
    BY <1>1
  <2> QED
    BY <2>1, <2>2, <1>1
<1> QED
  BY <1>1, <1>3, <1>4, <1>5

\* Numbers a whole number of periods apart have the same remainder.
LEMMA ModSame ==
  ASSUME NEW x \in Int, NEW y \in Int, NEW q \in Int, x = y + Modulus * q
  PROVE  x % Modulus = y % Modulus
<1> USE ModulusAssumption
<1> DEFINE u == y \div Modulus
           b == y % Modulus
<1>1. u \in Int /\ b \in 0 .. (Modulus - 1) /\ y = Modulus * u + b
  BY DivMod
<1> HIDE DEF u, b
<1>2. x = Modulus * (u + q) + b
  BY <1>1
<1>3. b = x % Modulus
  BY <1>1, <1>2, u + q \in Int, DivModUnique
<1> QED
  BY <1>3 DEF b

\* A remainder is its own remainder.
LEMMA ModSmall ==
  ASSUME NEW r \in 0 .. (Modulus - 1)
  PROVE  r % Modulus = r
  BY ModulusAssumption

\* A remainder may be taken before an addition or after it.
LEMMA ModPlus ==
  ASSUME NEW x \in Int, NEW y \in Int
  PROVE  ((x % Modulus) + y) % Modulus = (x + y) % Modulus
<1> USE ModulusAssumption
<1> DEFINE u == x \div Modulus
           a == x % Modulus
<1>1. u \in Int /\ a \in 0 .. (Modulus - 1) /\ x = Modulus * u + a
  BY DivMod
<1> HIDE DEF u, a
<1>2. x + y = (a + y) + Modulus * u
  BY <1>1
<1>3. (x + y) % Modulus = (a + y) % Modulus
  BY <1>1, <1>2, a + y \in Int, x + y \in Int, ModSame
<1> QED
  BY <1>3 DEF a

\* A mask that runs d ahead of a slot is the slot's own exactly when d is no
\* distance at all.
LEMMA LevelIff ==
  ASSUME NEW s \in Int, NEW d \in 0 .. (Modulus - 1)
  PROVE  (s + d) % Modulus = s % Modulus <=> d = 0
<1> USE ModulusAssumption
<1>1. CASE d = 0
  BY <1>1
<1>2. CASE d # 0
  <2> SUFFICES ASSUME (s + d) % Modulus = s % Modulus PROVE FALSE
    BY <1>2
  <2> DEFINE u == (s + d) \div Modulus
             v == s \div Modulus
             r == s % Modulus
  <2>1. u \in Int /\ v \in Int /\ r \in Int /\ s + d = Modulus * u + r /\ s = Modulus * v + r
    <3>1. v \in Int /\ r \in Int /\ s = Modulus * v + r
      BY DivMod
    <3>2. u \in Int /\ s + d = Modulus * u + ((s + d) % Modulus)
      BY DivMod, s + d \in Int
    <3> QED
      BY <3>1, <3>2
  <2> HIDE DEF u, v, r
  <2>2. Modulus * (u - v) = d
    BY <2>1
  <2>3. CASE u - v >= 1
    <3>1. Modulus * (u - v) >= Modulus * 1
      BY <2>1, <2>3
    <3> QED
      BY <3>1, <2>2
  <2>4. CASE u - v <= 0
    <3>1. Modulus * (v - u) >= 0
      BY <2>1, <2>4
    <3>2. Modulus * (v - u) = 0 - d
      BY <2>1, <2>2
    <3> QED
      BY <3>1, <3>2, <1>2
  <2> QED
    BY <2>1, <2>3, <2>4
<1> QED
  BY <1>1, <1>2

(***************************************************************************)
(* Induction.                                                              *)
(***************************************************************************)

\* A set with 0 that has n + 1 with every n has all natural numbers: the least
\* one outside it would have one before it.
LEMMA Induction ==
  ASSUME NEW S, 0 \in S, \A n \in Nat : n \in S => n + 1 \in S
  PROVE  Nat \subseteq S
<1> SUFFICES ASSUME Nat \ S # {} PROVE FALSE
  OBVIOUS
<1>1. IsWellFoundedOn(OpToRel(<, Nat), Nat)
  BY NatLessThanWellFounded
<1> DEFINE T == Nat \ S
           R == OpToRel(<, Nat)
<1>2. PICK x \in T : \A y \in T : ~ (<<y, x>> \in R)
  <2> HIDE DEF R
  <2>1. T \subseteq Nat /\ T # {}
    OBVIOUS
  <2>2. IsWellFoundedOn(R, Nat)
    BY <1>1 DEF R
  <2> HIDE DEF T
  <2> QED BY <2>1, <2>2, WFMin
<1>3. x # 0 /\ x \in Nat
  OBVIOUS
<1>4. x - 1 \in Nat /\ (x - 1) + 1 = x
  BY <1>3
<1>5. x - 1 \in T
  BY <1>4
<1>6. <<x - 1, x>> \in R
  BY <1>3, <1>4, x - 1 < x DEF OpToRel
<1> QED
  BY <1>2, <1>5, <1>6

(***************************************************************************)
(* Sequences of bytes, each with the slot it came from.                    *)
(***************************************************************************)

\* No slots, no bytes.
LEMMA NoData ==
  ASSUME NEW lo \in Nat
  PROVE  DataSlots(<<>>, lo, lo)
<1>1. DOMAIN <<>> = {} /\ (lo + 1) .. lo = {}
  OBVIOUS
<1> QED
  BY <1>1 DEF DataSlots, InSlotOrder, SlotsOf, DataBetween

\* A slot without data adds nothing.
LEMMA SkipSlot ==
  ASSUME NEW bytes, NEW lo \in Nat, NEW hi \in Nat, lo <= hi,
         DataSlots(bytes, lo, hi), (hi + 1) % Modulus = 0
  PROVE  DataSlots(bytes, lo, hi + 1)
<1>1. DataBetween(lo, hi + 1) = DataBetween(lo, hi)
  BY DEF DataBetween
<1> QED
  BY <1>1 DEF DataSlots

\* A slot with data adds its byte at the end.
LEMMA AppendSlot ==
  ASSUME NEW S, NEW bytes \in Seq(S), NEW lo \in Nat, NEW hi \in Nat, lo <= hi,
         DataSlots(bytes, lo, hi), (hi + 1) % Modulus # 0,
         NEW byte \in S, byte.slot = hi + 1
  PROVE  DataSlots(Append(bytes, byte), lo, hi + 1)
<1> DEFINE more == Append(bytes, byte)
           n == Len(bytes)
<1>1. /\ n \in Nat /\ DOMAIN bytes = 1 .. n /\ DOMAIN more = 1 .. (n + 1)
      /\ more[n + 1] = byte /\ \A j \in 1 .. n : more[j] = bytes[j]
  BY AppendProperties, LenProperties
<1> HIDE DEF more, n
<1>2. \A j \in 1 .. n : bytes[j].slot \in (lo + 1) .. hi
  BY <1>1 DEF DataSlots, SlotsOf, DataBetween
<1>3. ASSUME NEW j \in 1 .. (n + 1), NEW l \in 1 .. (n + 1), j < l
      PROVE  more[j].slot < more[l].slot
  <2>1. j \in 1 .. n /\ bytes[j].slot \in (lo + 1) .. hi /\ more[j] = bytes[j]
    BY <1>1, <1>2, <1>3
  <2>2. CASE l = n + 1
    BY <1>1, <2>1, <2>2
  <2>3. CASE l # n + 1
    <3>1. l \in 1 .. n /\ more[l] = bytes[l]
      BY <1>1, <2>3
    <3> QED
      BY <1>1, <1>3, <2>1, <3>1 DEF DataSlots, InSlotOrder
  <2> QED
    BY <2>2, <2>3
<1>4. SlotsOf(more) = SlotsOf(bytes) \cup {hi + 1}
  <2>1. 1 .. (n + 1) = (1 .. n) \cup {n + 1}
    BY <1>1
  <2> QED
    BY <1>1, <2>1 DEF SlotsOf
<1>5. DataBetween(lo, hi + 1) = DataBetween(lo, hi) \cup {hi + 1}
  BY DEF DataBetween
<1>6. DataSlots(more, lo, hi + 1)
  BY <1>1, <1>3, <1>4, <1>5 DEF DataSlots, InSlotOrder
<1> QED
  BY <1>6 DEF more

\* What follows in the stream follows in the output.
LEMMA ConcatSlots ==
  ASSUME NEW S, NEW s \in Seq(S), NEW t \in Seq(S),
         NEW lo \in Nat, NEW mid \in Nat, NEW hi \in Nat, lo <= mid, mid <= hi,
         DataSlots(s, lo, mid), DataSlots(t, mid, hi)
  PROVE  DataSlots(s \o t, lo, hi)
<1> DEFINE all == s \o t
           m == Len(s)
           n == Len(t)
<1>1. /\ m \in Nat /\ n \in Nat /\ DOMAIN s = 1 .. m /\ DOMAIN t = 1 .. n
      /\ DOMAIN all = 1 .. (m + n)
      /\ \A j \in 1 .. (m + n) : all[j] = IF j <= m THEN s[j] ELSE t[j - m]
  BY ConcatProperties, LenProperties
<1> HIDE DEF all, m, n
<1>2. /\ \A j \in 1 .. m : s[j].slot \in (lo + 1) .. mid
      /\ \A j \in 1 .. n : t[j].slot \in (mid + 1) .. hi
      /\ \A j, l \in 1 .. m : j < l => s[j].slot < s[l].slot
      /\ \A j, l \in 1 .. n : j < l => t[j].slot < t[l].slot
  BY <1>1 DEF DataSlots, InSlotOrder, SlotsOf, DataBetween
<1>3. ASSUME NEW j \in 1 .. (m + n)
      PROVE  \/ j \in 1 .. m /\ all[j] = s[j]
             \/ j - m \in 1 .. n /\ all[j] = t[j - m]
  BY <1>1
<1>4. ASSUME NEW j \in 1 .. (m + n), NEW l \in 1 .. (m + n), j < l
      PROVE  all[j].slot < all[l].slot
  <2>1. CASE l \in 1 .. m
    <3>1. j \in 1 .. m /\ all[j] = s[j] /\ all[l] = s[l]
      BY <1>1, <1>4, <2>1
    <3> QED
      BY <1>2, <1>4, <2>1, <3>1
  <2>2. CASE l \notin 1 .. m /\ j \in 1 .. m
    <3>1. l - m \in 1 .. n /\ all[l] = t[l - m] /\ all[j] = s[j]
      BY <1>1, <2>2
    <3>2. s[j].slot \in (lo + 1) .. mid /\ t[l - m].slot \in (mid + 1) .. hi
      BY <1>2, <2>2, <3>1
    <3>3. ASSUME NEW x \in (lo + 1) .. mid, NEW y \in (mid + 1) .. hi PROVE x < y
      OBVIOUS
    <3>4. s[j].slot < t[l - m].slot
      BY <3>2, <3>3
    <3> QED
      BY <3>1, <3>4
  <2>3. CASE l \notin 1 .. m /\ j \notin 1 .. m
    <3>1. l - m \in 1 .. n /\ all[l] = t[l - m] /\ j - m \in 1 .. n /\ all[j] = t[j - m]
          /\ j - m < l - m
      <4>1. all[l] = t[l - m] /\ all[j] = t[j - m]
        BY <1>3, <2>3
      <4>2. l - m \in 1 .. n /\ j - m \in 1 .. n /\ j - m < l - m
        BY <1>1, <1>4, <2>3
      <4> QED
        BY <4>1, <4>2
    <3> QED
      BY <1>2, <3>1
  <2> QED
    BY <2>1, <2>2, <2>3
<1>5. SlotsOf(all) = SlotsOf(s) \cup SlotsOf(t)
  <2>1. \A j \in 1 .. m : j \in 1 .. (m + n) /\ all[j] = s[j]
    BY <1>1
  <2>2. \A j \in 1 .. n : j + m \in 1 .. (m + n) /\ all[j + m] = t[j]
    BY <1>1
  <2>3. ASSUME NEW x
        PROVE  (\E j \in 1 .. (m + n) : x = all[j].slot)
                 <=> (\E j \in 1 .. m : x = s[j].slot) \/ (\E j \in 1 .. n : x = t[j].slot)
    <3>1. ASSUME NEW j \in 1 .. (m + n), x = all[j].slot
          PROVE  (\E l \in 1 .. m : x = s[l].slot) \/ (\E l \in 1 .. n : x = t[l].slot)
      BY <1>3, <3>1
    <3>2. ASSUME NEW j \in 1 .. m, x = s[j].slot
          PROVE  \E l \in 1 .. (m + n) : x = all[l].slot
      BY <2>1, <3>2
    <3>3. ASSUME NEW j \in 1 .. n, x = t[j].slot
          PROVE  \E l \in 1 .. (m + n) : x = all[l].slot
      BY <2>2, <3>3
    <3> QED
      BY <3>1, <3>2, <3>3
  <2> QED
    <3>1. \A x : x \in SlotsOf(all) <=> x \in SlotsOf(s) \cup SlotsOf(t)
      <4>1. /\ \A x : x \in SlotsOf(all) <=> \E j \in 1 .. (m + n) : x = all[j].slot
            /\ \A x : x \in SlotsOf(s) <=> \E j \in 1 .. m : x = s[j].slot
            /\ \A x : x \in SlotsOf(t) <=> \E j \in 1 .. n : x = t[j].slot
        BY <1>1 DEF SlotsOf
      <4> HIDE DEF SlotsOf
      <4> QED
        BY <2>3, <4>1
    <3> HIDE DEF SlotsOf
    <3> QED
      BY <3>1
<1>6. DataBetween(lo, hi) = DataBetween(lo, mid) \cup DataBetween(mid, hi)
  BY DEF DataBetween
<1>7. DataSlots(all, lo, hi)
  BY <1>1, <1>4, <1>5, <1>6 DEF DataSlots, InSlotOrder
<1> QED
  BY <1>7 DEF all

(***************************************************************************)
(* What hex_dump leaves out.                                               *)
(***************************************************************************)

\* A chunk no longer than the limit leaves out its tail only, and leaves what
\* was said of the chunks before it as it was.
LEMMA TailsGrow ==
  ASSUME NEW cut, NEW n \in Nat, cut \subseteq 1 .. n, NEW size \in Nat,
         NEW bytes, Len(bytes) \in 0 .. size, TailsOnly(cut, size)
  PROVE  /\ cut \cup LeftOut(n, bytes) \subseteq 1 .. (n + Len(bytes))
         /\ TailsOnly(cut \cup LeftOut(n, bytes), size)
<1> DEFINE len == Len(bytes)
           tail == LeftOut(n, bytes)
<1>1. DumpMax \in Nat /\ len \in Nat /\ len <= size
  BY DumpAssumption
<1>2. tail = (n + DumpMax + 1) .. (n + len)
  <2>1. ASSUME NEW p \in (n + DumpMax + 1) .. (n + len) PROVE p \in tail
    <3>1. p - n \in (DumpMax + 1) .. len /\ p = n + (p - n)
      BY <1>1
    <3> QED
      BY <3>1 DEF LeftOut
  <2>2. ASSUME NEW p \in tail PROVE p \in (n + DumpMax + 1) .. (n + len)
    BY <1>1, <2>2 DEF LeftOut
  <2> QED
    BY <2>1, <2>2
<1> HIDE DEF len, tail
<1>3. cut \cup tail \subseteq 1 .. (n + len)
  BY <1>1, <1>2
<1>4. ASSUME NEW p \in cut \cup tail
      PROVE  \E start \in 0 .. (p - DumpMax - 1) :
               /\ p - start <= size
               /\ ((start + 1) .. (start + DumpMax)) \cap (cut \cup tail) = {}
               /\ (start + DumpMax + 1) .. p \subseteq cut \cup tail
  <2>1. CASE p \in cut
    <3>1. PICK start \in 0 .. (p - DumpMax - 1) :
            /\ p - start <= size
            /\ ((start + 1) .. (start + DumpMax)) \cap cut = {}
            /\ (start + DumpMax + 1) .. p \subseteq cut
      BY <2>1 DEF TailsOnly
    <3>2. p \in 1 .. n
      BY <2>1
    <3>3. ((start + 1) .. (start + DumpMax)) \cap tail = {}
      BY <1>1, <1>2, <3>2
    <3> QED
      BY <3>1, <3>3
  <2>2. CASE p \in tail
    <3>1. n \in 0 .. (p - DumpMax - 1) /\ p - n <= size
      BY <1>1, <1>2, <2>2
    <3>2. ((n + 1) .. (n + DumpMax)) \cap (cut \cup tail) = {}
      BY <1>1, <1>2
    <3>3. (n + DumpMax + 1) .. p \subseteq tail
      BY <1>1, <1>2, <2>2
    <3> QED
      BY <3>1, <3>2, <3>3
  <2> QED
    BY <2>1, <2>2
<1>5. TailsOnly(cut \cup tail, size)
  BY <1>4 DEF TailsOnly
<1> QED
  BY <1>3, <1>5 DEF len, tail

\* Where nothing was left out, only tails were.
LEMMA NothingCut ==
  ASSUME NEW size
  PROVE  TailsOnly({}, size)
  BY DEF TailsOnly
=============================================================================
