---------------------------- MODULE RxChunkProofs ----------------------------
(***************************************************************************)
(* Theorems about RxChunk, for every mask period, every split of a session *)
(* into chunks, every out_buf and every sequence of failures and retries.  *)
(***************************************************************************)
EXTENDS RxChunk, MaskLemmas, FiniteSetTheorems

(***************************************************************************)
(* What a call keeps.                                                      *)
(***************************************************************************)

KeptSet(m, n) == {k \in 1 .. n : (m + k) % Modulus # 0}

\* The count is a number, and no more than the bytes there are.
LEMMA KeptBounds ==
  ASSUME NEW m \in Nat, NEW n \in Nat
  PROVE  /\ IsFiniteSet(KeptSet(m, n))
         /\ Kept(m, n) = Cardinality(KeptSet(m, n))
         /\ Kept(m, n) \in Nat
         /\ Kept(m, n) <= n
<1>1. IsFiniteSet(1 .. n) /\ Cardinality(1 .. n) = n
  BY FS_Interval
<1>2. KeptSet(m, n) \in SUBSET (1 .. n)
  BY DEF KeptSet
<1>3. IsFiniteSet(KeptSet(m, n)) /\ Cardinality(KeptSet(m, n)) <= n
  BY <1>1, <1>2, FS_Subset
<1>4. Kept(m, n) = Cardinality(KeptSet(m, n))
  BY DEF Kept, KeptSet
<1> QED
  BY <1>3, <1>4, FS_CardinalityType

\* Of no bytes none is kept.
LEMMA KeptNone ==
  ASSUME NEW m \in Nat
  PROVE  Kept(m, 0) = 0
  BY KeptBounds

\* One more byte is one more kept, unless its mask is 0.
LEMMA KeptStep ==
  ASSUME NEW m \in Nat, NEW n \in Nat
  PROVE  Kept(m, n + 1) = Kept(m, n) + (IF (m + (n + 1)) % Modulus = 0 THEN 0 ELSE 1)
<1>1. CASE (m + (n + 1)) % Modulus = 0
  <2>1. KeptSet(m, n + 1) = KeptSet(m, n)
    BY <1>1 DEF KeptSet
  <2> QED
    BY <1>1, <2>1, KeptBounds, n + 1 \in Nat
<1>2. CASE (m + (n + 1)) % Modulus # 0
  <2>1. KeptSet(m, n + 1) = KeptSet(m, n) \cup {n + 1} /\ n + 1 \notin KeptSet(m, n)
    BY <1>2 DEF KeptSet
  <2>2. Cardinality(KeptSet(m, n + 1)) = Cardinality(KeptSet(m, n)) + 1
    BY <2>1, KeptBounds, FS_AddElement
  <2> QED
    BY <1>2, <2>2, KeptBounds, n + 1 \in Nat
<1> QED
  BY <1>1, <1>2

\* More bytes are never fewer kept.
LEMMA KeptMonotone ==
  ASSUME NEW m \in Nat, NEW n \in Nat, NEW l \in Nat, n <= l
  PROVE  Kept(m, n) <= Kept(m, l)
<1>1. KeptSet(m, n) \in SUBSET KeptSet(m, l)
  BY DEF KeptSet
<1> QED
  BY <1>1, KeptBounds, FS_Subset

(***************************************************************************)
(* Types.                                                                  *)
(***************************************************************************)

TypeOK ==
  /\ pc \in {"caller", "loop"}
  /\ variable_xormask \in 0 .. (Modulus - 1)
  /\ given \in Nat /\ in_len \in 0 .. given
  /\ out_buf_size \in Nat /\ i \in Nat
  /\ out_buf \in Seq([slot : Nat, ok : BOOLEAN])
  /\ out_len \in Nat
  /\ result \in {"none", "OK", "BUFFER_TOO_SMALL", "INVALID_PARAM"}
  /\ entry \in 0 .. (Modulus - 1) /\ off \in 0 .. (Modulus - 1)
  /\ pc = "loop" => i <= in_len

\* A byte decoded from a slot of the session is a byte.
LEMMA ByteType ==
  ASSUME NEW slot \in Nat, NEW mask \in Nat
  PROVE  ByteAt(slot, mask) \in [slot : Nat, ok : BOOLEAN]
<1>1. (mask = slot % Modulus) \in BOOLEAN
  OBVIOUS
<1> QED
  BY <1>1 DEF ByteAt

\* Every count and every remainder has its type.
LEMMA InitTypeOK == Init => TypeOK
  BY ChunkAssumption, ModulusAssumption DEF Init, TypeOK

LEMMA StepTypeOK == TypeOK /\ [Next]_vars => TypeOK'
<1> SUFFICES ASSUME TypeOK, [Next]_vars PROVE TypeOK'
  OBVIOUS
<1> USE ChunkAssumption, ModulusAssumption
<1>1. CASE RxStateInit
  BY <1>1 DEF RxStateInit, locals, TypeOK
<1>2. ASSUME Begin, variable_xormask' = variable_xormask, off' \in 0 .. (Modulus - 1),
             given' \in Nat, in_len' \in 0 .. given'
      PROVE  TypeOK'
  BY <1>2 DEF Begin, TypeOK
<1>3. CASE NextChunk
  <2>1. Uncounted \in Nat
    BY DEF Uncounted, CutShort, TypeOK
  <2>2. off + Uncounted * (Modulus - 1) \in Int
    BY <2>1 DEF TypeOK
  <2>3. off' \in 0 .. (Modulus - 1)
    BY <1>3, <2>2, DivMod DEF NextChunk
  <2>4. given' \in Nat /\ in_len' \in 0 .. given'
    BY <1>3 DEF NextChunk, TypeOK
  <2> QED
    BY <1>2, <1>3, <2>3, <2>4 DEF NextChunk
<1>4. CASE Retry
  <2>1. off + i + 1 \in Int
    BY DEF TypeOK
  <2>2. off' \in 0 .. (Modulus - 1)
    BY <1>4, <2>1, DivMod DEF Retry
  <2> QED
    BY <1>2, <1>4, <2>2 DEF Retry, session, TypeOK
<1>5. CASE InvalidParam
  BY <1>5 DEF InvalidParam, state, session, locals, TypeOK
<1>6. CASE DecodeByte
  <2> DEFINE mask == NextMask(variable_xormask)
             slot == given - in_len + i + 1
  <2>1. variable_xormask + 1 \in Int /\ slot \in Nat
    BY DEF TypeOK
  <2>2. mask \in 0 .. (Modulus - 1) /\ mask \in Nat
    BY <2>1, DivMod DEF NextMask
  <2>3. ByteAt(slot, mask) \in [slot : Nat, ok : BOOLEAN]
    BY <2>1, <2>2, ByteType
  <2> HIDE DEF mask, slot
  <2>8. Append(out_buf, ByteAt(slot, mask)) \in Seq([slot : Nat, ok : BOOLEAN])
    BY <2>3 DEF TypeOK
  <2>4. out_buf' \in Seq([slot : Nat, ok : BOOLEAN])
    BY <1>6, <2>8 DEF DecodeByte, TypeOK, mask, slot
  <2>5. variable_xormask' \in 0 .. (Modulus - 1)
    BY <1>6, <2>2 DEF DecodeByte, mask
  <2>6. /\ pc' \in {"caller", "loop"} /\ i' \in Nat /\ (pc' = "loop" => i' <= in_len')
        /\ result' \in {"none", "OK", "BUFFER_TOO_SMALL", "INVALID_PARAM"}
    BY <1>6 DEF DecodeByte, session, TypeOK
  <2>7. UNCHANGED <<given, in_len, out_buf_size, out_len, entry, off>>
    BY <1>6 DEF DecodeByte, session
  <2> QED
    BY <2>4, <2>5, <2>6, <2>7 DEF TypeOK
<1>7. CASE Done
  BY <1>7 DEF Done, state, session, locals, TypeOK
<1>8. CASE UNCHANGED vars
  BY <1>8 DEF vars, TypeOK
<1> QED
  BY <1>1, <1>3, <1>4, <1>5, <1>6, <1>7, <1>8 DEF Next

THEOREM TypeCorrect == Spec => []TypeOK
<1>1. Init => TypeOK
  BY InitTypeOK
<1>2. TypeOK /\ [Next]_vars => TypeOK'
  BY StepTypeOK
<1> QED
  BY <1>1, <1>2, PTL DEF Spec

(***************************************************************************)
(* The inductive invariant.                                                *)
(***************************************************************************)

\* Inside a call the mask has counted the bytes looked at, and what they left
\* in out_buf fits.
LoopAt ==
  pc = "loop" =>
    /\ result = "none"
    /\ variable_xormask = (entry + i) % Modulus
    /\ Len(out_buf) = Kept(entry, i)
    /\ Len(out_buf) <= out_buf_size

\* The slots of the session the mask has counted, or should have.
Counted == IF pc = "loop" THEN given - in_len + i ELSE given - Uncounted

\* The history variable off is what it is said to be.
OffIsTheLead == variable_xormask = (Counted + off) % Modulus

IInv == TypeOK /\ LoopAt /\ OffIsTheLead /\ ResultExact

LEMMA CountedType == TypeOK => Counted \in Nat /\ Uncounted \in Nat
  BY DEF TypeOK, Counted, Uncounted, CutShort

\* A failed call's uncounted bytes are in the chunk, so a caller at rest has
\* counted the session but for those.
LEMMA InitIInv == Init => IInv
<1> SUFFICES ASSUME Init PROVE IInv
  OBVIOUS
<1>1. TypeOK /\ LoopAt /\ ResultExact
  BY InitTypeOK DEF Init, LoopAt, ResultExact
<1>2. Counted + off = 0
  BY DEF Init, Counted, Uncounted, CutShort
<1>3. 0 % Modulus = 0
  BY ChunkAssumption, ModulusAssumption, ModSmall
<1> QED
  BY <1>1, <1>2, <1>3 DEF Init, IInv, OffIsTheLead

\* A call begins with the loop's facts true, whatever the caller does.
LEMMA BeginLoopAt ==
  ASSUME TypeOK, Begin, UNCHANGED variable_xormask
  PROVE  LoopAt' /\ ResultExact'
<1>1. entry' \in 0 .. (Modulus - 1) /\ entry' \in Nat /\ i' = 0 /\ out_buf' = <<>>
      /\ out_buf_size' \in Nat /\ variable_xormask' = entry' /\ result' = "none"
  BY ChunkAssumption, ModulusAssumption DEF TypeOK, Begin
<1>2. Kept(entry', 0) = 0
  BY <1>1, KeptNone
<1>3. (entry' + 0) % Modulus = entry'
  BY <1>1, ModSmall
<1>4. LoopAt'
  BY <1>1, <1>2, <1>3 DEF LoopAt
<1>5. ResultExact'
  BY <1>1 DEF ResultExact
<1> QED
  BY <1>4, <1>5

\* Going on to the next chunk leaves behind what the last call did not count.
LEMMA NextChunkLead ==
  ASSUME TypeOK, OffIsTheLead, NextChunk
  PROVE  OffIsTheLead'
<1> DEFINE U == Uncounted
           x == off + U * (Modulus - 1)
<1>1. Modulus \in Int /\ U \in Nat /\ off \in Int /\ given \in Int
  BY ChunkAssumption, ModulusAssumption, CountedType DEF TypeOK
<1>2. PICK n \in 1 .. MaxIn : given' = given + n /\ in_len' = n
  BY DEF NextChunk
<1>3. pc = "caller" /\ pc' = "loop" /\ i' = 0 /\ off' = x % Modulus
      /\ variable_xormask' = variable_xormask
  BY DEF NextChunk, Begin
<1>4. variable_xormask = ((given - U) + off) % Modulus
  BY <1>3 DEF OffIsTheLead, Counted
<1>5. n \in Int
  BY ChunkAssumption, ModulusAssumption
<1> HIDE DEF U
<1>6. x \in Int /\ (given - U) + off \in Int
  BY <1>1
<1>7. (off' + given) % Modulus = (x + given) % Modulus
  BY <1>1, <1>3, <1>6, ModPlus
<1>8. x + given = ((given - U) + off) + Modulus * U
  BY <1>1
<1>10. off' \in Int
  BY <1>3, <1>6, DivMod
<1>9. (x + given) % Modulus = ((given - U) + off) % Modulus
  <2>1. x + given \in Int /\ U \in Int
    BY <1>1, <1>6
  <2> HIDE DEF x
  <2> QED
    BY <1>6, <1>8, <2>1, ModSame
<1>11. Counted' + off' = off' + given
  BY <1>1, <1>2, <1>3, <1>5, <1>10 DEF Counted
<1> QED
  BY <1>3, <1>4, <1>7, <1>9, <1>11 DEF OffIsTheLead

\* Handing a chunk in again counts twice the bytes the last call looked at.
LEMMA RetryLead ==
  ASSUME TypeOK, OffIsTheLead, Retry
  PROVE  OffIsTheLead'
<1> DEFINE x == off + i + 1
<1>1. off \in Int /\ given \in Int /\ in_len \in Int /\ i \in Int
  BY DEF TypeOK
<1>2. pc = "caller" /\ i < in_len /\ pc' = "loop" /\ i' = 0 /\ off' = x % Modulus
      /\ variable_xormask' = variable_xormask /\ given' = given /\ in_len' = in_len
  BY DEF Retry, Begin, CutShort, session
<1>3. variable_xormask = ((given - (in_len - (i + 1))) + off) % Modulus
  BY <1>2 DEF OffIsTheLead, Counted, Uncounted, CutShort
<1>4. x \in Int /\ given - in_len \in Int
  BY <1>1
<1>5. (off' + (given - in_len)) % Modulus = (x + (given - in_len)) % Modulus
  BY <1>2, <1>4, ModPlus
<1>6. x + (given - in_len) = (given - (in_len - (i + 1))) + off
  BY <1>1
<1>7. off' \in Int
  BY <1>2, <1>4, DivMod
<1>8. Counted' + off' = off' + (given - in_len)
  BY <1>1, <1>2, <1>7 DEF Counted
<1> QED
  BY <1>2, <1>3, <1>5, <1>6, <1>8 DEF OffIsTheLead

\* One byte more counts one slot and keeps the byte if its mask is not 0.
LEMMA DecodeByteStep ==
  ASSUME IInv, DecodeByte
  PROVE  LoopAt' /\ OffIsTheLead' /\ ResultExact'
<1> DEFINE mask == NextMask(variable_xormask)
<1>1. /\ pc = "loop" /\ i \in Nat /\ in_len \in Nat /\ given \in Nat /\ i < in_len
      /\ out_buf_size \in Nat /\ entry \in Nat /\ off \in Nat /\ Len(out_buf) \in Nat
      /\ entry + i \in Int /\ given - in_len + i + off \in Int
  BY ChunkAssumption, ModulusAssumption DEF IInv, TypeOK, DecodeByte
<1>2. /\ variable_xormask = (entry + i) % Modulus
      /\ Len(out_buf) = Kept(entry, i) /\ Len(out_buf) <= out_buf_size /\ result = "none"
      /\ variable_xormask = (given - in_len + i + off) % Modulus
  BY <1>1 DEF IInv, LoopAt, OffIsTheLead, Counted
<1>3. mask = (entry + i + 1) % Modulus /\ mask = (given - in_len + i + off + 1) % Modulus
  BY <1>1, <1>2, ModPlus DEF NextMask
<1> HIDE DEF mask
<1>4. Kept(entry, i + 1) = Kept(entry, i) + (IF mask = 0 THEN 0 ELSE 1)
  <2>1. entry + (i + 1) = entry + i + 1
    BY <1>1
  <2>2. mask = (entry + (i + 1)) % Modulus
    BY <1>3, <2>1
  <2>3. Kept(entry, i + 1) = Kept(entry, i) + (IF (entry + (i + 1)) % Modulus = 0 THEN 0 ELSE 1)
    BY <1>1, KeptStep
  <2> QED
    BY <2>2, <2>3
<1>5. /\ variable_xormask' = mask /\ given' = given /\ in_len' = in_len /\ off' = off
      /\ out_buf_size' = out_buf_size /\ entry' = entry
  BY DEF DecodeByte, session, mask
<1>6. CASE mask # 0 /\ TooMany(Len(out_buf))
  <2>1. pc' = "caller" /\ result' = "BUFFER_TOO_SMALL" /\ i' = i
    BY <1>6 DEF DecodeByte, mask
  <2>2. Len(out_buf) = out_buf_size
    BY <1>1, <1>2, <1>6 DEF TooMany
  <2>3. Kept(entry, i + 1) = out_buf_size + 1
    BY <1>2, <1>4, <1>6, <2>2
  <2>4. Kept(entry, i + 1) <= Kept(entry, in_len) /\ Kept(entry, in_len) \in Nat
    <3>1. i + 1 \in Nat /\ i + 1 <= in_len
      BY <1>1
    <3> QED
      BY <1>1, <3>1, KeptMonotone, KeptBounds
  <2>5. ResultExact'
    BY <1>1, <1>3, <1>5, <2>1, <2>3, <2>4 DEF ResultExact
  <2>6. Counted' + off' = given - in_len + i + off + 1
    BY <1>1, <1>5, <2>1 DEF Counted, Uncounted, CutShort
  <2>7. OffIsTheLead'
    BY <1>3, <1>5, <2>6 DEF OffIsTheLead
  <2> QED
    BY <2>1, <2>5, <2>7 DEF LoopAt
<1>7. CASE ~(mask # 0 /\ TooMany(Len(out_buf)))
  <2>1. pc' = "loop" /\ result' = "none" /\ i' = i + 1
    BY <1>1, <1>2, <1>7 DEF DecodeByte, mask
  <2>2. Len(out_buf') = Len(out_buf) + (IF mask = 0 THEN 0 ELSE 1)
    BY <1>7 DEF DecodeByte, mask, IInv, TypeOK
  <2>3. Len(out_buf') <= out_buf_size
    BY <1>1, <1>2, <1>7, <2>2 DEF TooMany
  <2>4. entry + (i + 1) = entry + i + 1 /\ Counted' + off' = given - in_len + i + off + 1
    BY <1>1, <1>5, <2>1 DEF Counted
  <2> QED
    BY <1>2, <1>3, <1>4, <1>5, <2>1, <2>2, <2>3, <2>4 DEF LoopAt, OffIsTheLead, ResultExact
<1> QED
  BY <1>6, <1>7

LEMMA StepIInv == IInv /\ [Next]_vars => IInv'
<1> SUFFICES ASSUME IInv, [Next]_vars PROVE IInv'
  OBVIOUS
<1>1. TypeOK /\ LoopAt /\ OffIsTheLead /\ ResultExact /\ TypeOK'
  BY StepTypeOK DEF IInv
<1>2. CASE RxStateInit
  <2>1. /\ pc' = "caller" /\ result' = "none" /\ variable_xormask' = 0
        /\ given' = 0 /\ in_len' = 0 /\ off' = 0 /\ i' \in Nat
    BY <1>1, <1>2 DEF RxStateInit, TypeOK
  <2>5. ~CutShort'
    BY <2>1 DEF CutShort
  <2>4. Uncounted' = 0
    BY <2>5 DEF Uncounted
  <2>2. Counted' + off' = 0
    BY <2>1, <2>4 DEF Counted
  <2>3. 0 % Modulus = 0
    BY ChunkAssumption, ModulusAssumption, ModSmall
  <2> QED
    BY <1>1, <2>1, <2>2, <2>3 DEF IInv, LoopAt, OffIsTheLead, ResultExact
<1>3. CASE NextChunk
  <2>1. Begin /\ UNCHANGED variable_xormask
    BY <1>3 DEF NextChunk
  <2> QED
    BY <1>1, <1>3, <2>1, BeginLoopAt, NextChunkLead DEF IInv
<1>4. CASE Retry
  <2>1. Begin /\ UNCHANGED variable_xormask
    BY <1>4 DEF Retry
  <2> QED
    BY <1>1, <1>4, <2>1, BeginLoopAt, RetryLead DEF IInv
<1>5. CASE InvalidParam
  BY <1>1, <1>5 DEF InvalidParam, state, session, locals, IInv, LoopAt, OffIsTheLead,
                    ResultExact, Counted, Uncounted, CutShort
<1>6. CASE DecodeByte
  BY <1>1, <1>6, DecodeByteStep DEF IInv
<1>7. CASE Done
  <2>1. /\ pc = "loop" /\ pc' = "caller" /\ result' = "OK" /\ out_len' = Len(out_buf)
        /\ i = in_len /\ i' = i /\ in_len' = in_len /\ given' = given /\ off' = off
        /\ variable_xormask' = variable_xormask /\ entry' = entry /\ out_buf_size' = out_buf_size
    BY <1>7 DEF Done, state, session, locals
  <2>2. Counted' = Counted
    BY <1>1, <2>1 DEF Counted, Uncounted, CutShort, TypeOK
  <2> QED
    BY <1>1, <2>1, <2>2 DEF IInv, LoopAt, OffIsTheLead, ResultExact
<1>8. CASE UNCHANGED vars
  BY <1>1, <1>8 DEF vars, IInv, LoopAt, OffIsTheLead, ResultExact, Counted, Uncounted, CutShort
<1> QED
  BY <1>2, <1>3, <1>4, <1>5, <1>6, <1>7, <1>8 DEF Next

\* What every later theorem starts from.
LEMMA AlwaysIInv == Spec => []IInv
<1>1. Init => IInv
  BY InitIInv
<1>2. IInv /\ [Next]_vars => IInv'
  BY StepIInv
<1> QED
  BY <1>1, <1>2, PTL DEF Spec

(***************************************************************************)
(* The theorems.                                                           *)
(***************************************************************************)

\* The function never stores past out_buf_size, nor over a byte of in_buf it
\* has still to read, whatever masks, chunks and failures came before.
THEOREM InPlaceIsSafe == Spec => []StaysBehindReads
<1>1. IInv => StaysBehindReads
  <2> SUFFICES ASSUME IInv, pc = "loop"
               PROVE  Len(out_buf) <= out_buf_size /\ Len(out_buf) <= i
    BY DEF StaysBehindReads
  <2>1. entry \in Nat /\ i \in Nat /\ Len(out_buf) = Kept(entry, i) /\ Len(out_buf) <= out_buf_size
    BY ChunkAssumption, ModulusAssumption DEF IInv, TypeOK, LoopAt
  <2> QED
    BY <2>1, KeptBounds
<1> QED
  BY <1>1, AlwaysIInv, PTL

\* A call fails exactly when what it would keep does not fit, and has counted
\* what ResultExact says whichever way it ends.
THEOREM ResultsExact == Spec => []ResultExact
<1>1. IInv => ResultExact
  BY DEF IInv
<1> QED
  BY <1>1, AlwaysIInv, PTL

\* A byte comes out clear exactly while no failed call has left the mask ahead
\* of the slots or behind them.
THEOREM DecodedRight == Spec => DecodedRightIffLevel
<1> DEFINE Right == Len(out_buf') > Len(out_buf) => (out_buf'[Len(out_buf')].ok <=> off = 0)
<1>1. ASSUME IInv, [Next]_vars PROVE [Right]_vars
  <2> SUFFICES ASSUME Len(out_buf') > Len(out_buf)
               PROVE  out_buf'[Len(out_buf')].ok <=> off = 0
    OBVIOUS
  <2>1. Len(out_buf) \in Nat /\ out_buf \in Seq([slot : Nat, ok : BOOLEAN]) /\ Len(<<>>) = 0
    BY <1>1 DEF IInv, TypeOK
  <2>2. out_buf' # out_buf /\ out_buf' # <<>>
    BY <2>1
  <2>3. DecodeByte
    BY <1>1, <2>2 DEF Next, RxStateInit, NextChunk, Retry, InvalidParam, Done, Begin, locals, vars
  <2> DEFINE mask == NextMask(variable_xormask)
             slot == given - in_len + i + 1
  <2>4. out_buf' = Append(out_buf, ByteAt(slot, mask))
    BY <2>2, <2>3 DEF DecodeByte
  <2>5. /\ given \in Nat /\ in_len \in Nat /\ i \in Nat /\ off \in 0 .. (Modulus - 1)
        /\ variable_xormask = (given - in_len + i + off) % Modulus
    BY <1>1, <2>3, ChunkAssumption, ModulusAssumption DEF IInv, TypeOK, OffIsTheLead, Counted, DecodeByte
  <2>6. off \in Int /\ slot \in Int /\ given - in_len + i + off \in Int
        /\ given - in_len + i + off + 1 = slot + off
    BY <2>5, ChunkAssumption, ModulusAssumption
  <2>7. mask = (slot + off) % Modulus
    BY <2>5, <2>6, ModPlus DEF NextMask
  <2> HIDE DEF mask, slot
  <2>8. mask = slot % Modulus <=> off = 0
    BY <2>5, <2>6, <2>7, LevelIff
  <2>9. out_buf'[Len(out_buf')] = ByteAt(slot, mask)
    BY <2>1, <2>4
  <2>10. ByteAt(slot, mask).ok = (mask = slot % Modulus)
    BY DEF ByteAt
  <2> QED
    BY <2>8, <2>9, <2>10
<1> QED
  BY <1>1, AlwaysIInv, PTL DEF Spec, DecodedRightIffLevel

\* A caller that gives as much room as it hands in bytes is never told
\* BUFFER_TOO_SMALL, so it never meets the mask's lead at all.
THEOREM RoomyCallerNeverFails ==
  Spec => [](result = "BUFFER_TOO_SMALL" => out_buf_size < in_len)
<1>1. IInv => (result = "BUFFER_TOO_SMALL" => out_buf_size < in_len)
  <2> SUFFICES ASSUME IInv, result = "BUFFER_TOO_SMALL" PROVE out_buf_size < in_len
    OBVIOUS
  <2>1. entry \in Nat /\ in_len \in Nat /\ out_buf_size \in Nat
        /\ Kept(entry, in_len) > out_buf_size
    BY ChunkAssumption, ModulusAssumption DEF IInv, TypeOK, ResultExact
  <2> QED
    BY <2>1, KeptBounds
<1> QED
  BY <1>1, AlwaysIInv, PTL
=============================================================================
