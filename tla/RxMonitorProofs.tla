--------------------------- MODULE RxMonitorProofs ---------------------------
(***************************************************************************)
(* Theorems about RxMonitor, for every mask period, buffer size and FIFO.  *)
(***************************************************************************)
EXTENDS RxMonitor, MaskLemmas

(***************************************************************************)
(* Arithmetic of the mask.                                                 *)
(***************************************************************************)

\* Counting one byte with the uint8_t commutes with counting positions.
LEMMA NextMaskOfPosition ==
  ASSUME NEW p \in Int
  PROVE  NextMask(p % Modulus) = (p + 1) % Modulus
  BY ModPlus DEF NextMask

(***************************************************************************)
(* Type correctness.                                                       *)
(***************************************************************************)

\* What main and open_ks959 start from has the right types.
LEMMA FreshTypes ==
  /\ [first |-> 1, len |-> 0] \in [first : Nat \ {0}, len : 0 .. RawSize]
  /\ 0 \in 0 .. [first |-> 1, len |-> 0].len
  /\ <<>> \in Seq(Bytes)
  /\ 0 \in 0 .. (Modulus - 1)
  BY SizesAssumption, ModulusAssumption

LEMMA InitTypeOK == Init => TypeOK
<1> SUFFICES ASSUME Init PROVE TypeOK
  OBVIOUS
<1>1. raw = [first |-> 1, len |-> 0] /\ i = 0 /\ dec_buf = <<>> /\ decoded = <<>> /\ cut = {} /\ rx_state = 0
  BY DEF Init
<1>2. emitted \in Nat /\ taken \in Nat /\ taken <= emitted /\ skew \in Nat
  BY DEF Init
<1>3. pc = "off" /\ g_stop = FALSE
  BY DEF Init
<1> QED
  BY <1>1, <1>2, <1>3, FreshTypes DEF TypeOK

LEMMA StepTypeOK == TypeOK /\ [Next]_vars => TypeOK'
<1> USE ModulusAssumption, SizesAssumption, ChoicesAssumption
<1> SUFFICES ASSUME TypeOK, [Next]_vars PROVE TypeOK'
  OBVIOUS
<1>1. CASE Emit
  BY <1>1 DEF Emit, Pending, chunk, TypeOK
<1>2. CASE Open
  <2>1. raw' = [first |-> 1, len |-> 0] /\ i' = 0 /\ dec_buf' = <<>> /\ decoded' = <<>> /\ cut' = {} /\ rx_state' = 0
    BY <1>2 DEF Open, FirstMask
  <2>2. emitted' \in Nat /\ taken' \in Nat /\ taken' <= emitted' /\ skew' \in Nat
    BY <1>2 DEF Open, TypeOK
  <2>3. pc' = "preinit" /\ g_stop' = FALSE
    BY <1>2 DEF Open
  <2> QED
    BY FreshTypes, <2>1, <2>2, <2>3 DEF TypeOK
<1>3. CASE OnSigint
  BY <1>3 DEF OnSigint, dongle, chunk, TypeOK
<1>4. CASE Preinit
  BY <1>4 DEF Preinit, dongle, chunk, TypeOK
<1>5. CASE PollData
  <2>1. PICK n \in 1 .. Least(Pending, Asked) :
          raw' = [first |-> taken + 1, len |-> n] /\ taken' = taken + n
    BY <1>5 DEF PollData
  <2>2. n \in 1 .. RawSize /\ n <= emitted - taken
    BY <2>1 DEF Least, Asked, Pending, TypeOK
  <2> QED
    BY <1>5, <2>1, <2>2 DEF PollData, TypeOK
<1>6. CASE PollIdle
  BY <1>6 DEF PollIdle, vars, TypeOK
<1>7. CASE PollError
  BY <1>7 DEF PollError, Least, Asked, Pending, chunk, TypeOK
<1>8. CASE DecodeByte
  <2> DEFINE mask == NextMask(rx_state)
             byte == ByteAt(raw.first + i, mask)
  <2>1. mask \in 0 .. (Modulus - 1)
    <3>1. rx_state + 1 \in Int
      BY DEF TypeOK
    <3> QED
      BY <3>1, DivMod DEF NextMask
  <2>2. byte \in Bytes
    BY DEF Bytes, ByteAt, TypeOK
  <2>3. dec_buf' \in Seq(Bytes)
    BY <1>8, <2>2 DEF DecodeByte, TypeOK
  <2>4. i' \in 0 .. raw.len /\ skew' \in Nat
    <3>1. raw.len \in Nat /\ i \in 0 .. raw.len /\ i < raw.len /\ skew \in Nat
      BY <1>8 DEF DecodeByte, TypeOK
    <3>2. i' \in {raw.len, i + 1} /\ skew' \in {skew, skew + (raw.len - i - 1)}
      BY <1>8 DEF DecodeByte
    <3> QED
      BY <3>1, <3>2
  <2> QED
    BY <1>8, <2>1, <2>3, <2>4 DEF DecodeByte, dongle, TypeOK
<1>9. CASE ShowChunk
  <2>1. decoded \in Seq(Bytes) /\ dec_buf \in Seq(Bytes)
    BY DEF TypeOK
  <2>2. decoded' \in Seq(Bytes) /\ Len(decoded') = Len(decoded) + Len(dec_buf)
    BY <1>9, <2>1, ConcatProperties DEF ShowChunk
  <2>3. cut' \subseteq 1 .. Len(decoded')
    <3>1. LeftOut(Len(decoded), dec_buf) \subseteq 1 .. (Len(decoded) + Len(dec_buf))
      BY <2>1, DumpAssumption DEF LeftOut
    <3>2. cut \subseteq 1 .. (Len(decoded) + Len(dec_buf))
      BY <2>1 DEF TypeOK
    <3> QED
      BY <1>9, <2>2, <3>1, <3>2 DEF ShowChunk
  <2>4. dec_buf' \in Seq(Bytes)
    BY <1>9 DEF ShowChunk
  <2> QED
    BY <1>9, <2>2, <2>3, <2>4 DEF ShowChunk, dongle, TypeOK
<1>10. CASE Close
  BY <1>10 DEF Close, dongle, chunk, TypeOK
<1>11. CASE UNCHANGED vars
  BY <1>11 DEF vars, TypeOK
<1> QED
  BY <1>1, <1>2, <1>3, <1>4, <1>5, <1>6, <1>7, <1>8, <1>9, <1>10, <1>11
     DEF Next, Host

\* Every reachable state has the types main declares; in particular the mask
\* counter stays a uint8_t and the chunk index stays within the chunk.
THEOREM TypeCorrect == Spec => []TypeOK
  BY InitTypeOK, StepTypeOK, PTL DEF Spec

(***************************************************************************)
(* The position invariant.                                                 *)
(***************************************************************************)

\* Two positions have the same mask exactly when they lie a multiple apart.
LEMMA SameMask ==
  ASSUME NEW p \in Int, NEW s \in Int
  PROVE  (p - s) % Modulus = p % Modulus <=> s % Modulus = 0
<1> DEFINE q1 == p \div Modulus
           r1 == p % Modulus
           q2 == s \div Modulus
           r2 == s % Modulus
           q3 == (p - s) \div Modulus
           r3 == (p - s) % Modulus
<1>1. /\ q1 \in Int /\ r1 \in 0 .. (Modulus - 1) /\ p = Modulus * q1 + r1
      /\ q2 \in Int /\ r2 \in 0 .. (Modulus - 1) /\ s = Modulus * q2 + r2
      /\ q3 \in Int /\ r3 \in 0 .. (Modulus - 1) /\ p - s = Modulus * q3 + r3
  BY DivMod
<1>2. Modulus \in Nat /\ Modulus >= 2
  BY ModulusAssumption
<1>3. ASSUME r3 = r1 PROVE r2 = 0
  <2> HIDE DEF q1, r1, q2, r2, q3, r3
  <2>1. s = Modulus * (q1 - q3) + 0
    BY <1>1, <1>2, <1>3
  <2>2. s % Modulus = 0
    BY <2>1, <1>1, <1>2, DivModUnique
  <2> QED
    BY <2>2 DEF r2
<1>4. ASSUME r2 = 0 PROVE r3 = r1
  <2> HIDE DEF q1, r1, q2, r2, q3, r3
  <2>1. p - s = Modulus * (q1 - q2) + r1
    BY <1>1, <1>2, <1>4
  <2>2. (p - s) % Modulus = r1
    BY <2>1, <1>1, <1>2, DivModUnique
  <2> QED
    BY <2>2 DEF r3
<1> QED
  BY <1>3, <1>4

\* A slot without data adds no clear byte, any other adds one.
LEMMA DataNoStep ==
  ASSUME NEW p \in Int
  PROVE  /\ DataNo(p) \in Int
         /\ DataNo(p + 1) = IF (p + 1) % Modulus = 0 THEN DataNo(p) ELSE DataNo(p) + 1
<1> DEFINE q == p \div Modulus
           r == p % Modulus
<1>1. /\ q \in Int /\ r \in 0 .. (Modulus - 1)
      /\ p = Modulus * q + r
  BY DivMod
<1>2. Modulus \in Nat /\ Modulus >= 2
  BY ModulusAssumption
<1> HIDE DEF q, r
<1>3. DataNo(p) = p - q
  BY DEF DataNo, q
<1>4. CASE r = Modulus - 1
  <2>1. p + 1 = Modulus * (q + 1) + 0
    BY <1>1, <1>2, <1>4
  <2>2. (p + 1) % Modulus = 0 /\ (p + 1) \div Modulus = q + 1
    BY <2>1, <1>1, <1>2, DivModUnique
  <2> QED
    BY <2>2, <1>1, <1>3 DEF DataNo
<1>5. CASE r # Modulus - 1
  <2>1. r + 1 \in 0 .. (Modulus - 1)
    BY <1>1, <1>2, <1>5
  <2>2. p + 1 = Modulus * q + (r + 1)
    BY <1>1, <1>2
  <2>3. (p + 1) % Modulus = r + 1 /\ (p + 1) \div Modulus = q
    BY <2>1, <2>2, <1>1, DivModUnique
  <2>4. r + 1 # 0
    BY <1>1, <1>2
  <2> QED
    BY <2>3, <2>4, <1>1, <1>3 DEF DataNo
<1> QED
  BY <1>4, <1>5

LEMMA DataNoZero == 0 % Modulus = 0 /\ DataNo(0) = 0
<1>1. 0 = Modulus * 0 + 0 /\ 0 \in 0 .. (Modulus - 1)
  BY ModulusAssumption
<1>2. 0 % Modulus = 0 /\ 0 \div Modulus = 0
  BY <1>1, DivModUnique
<1> QED
  BY <1>2 DEF DataNo

\* dec_buf has room for every byte of the chunk that is still to come.
LEMMA ChunkFitsRoom == TypeOK /\ ChunkFits => RoomForEveryByte
  BY SizesAssumption DEF TypeOK, ChunkFits, RoomForEveryByte

\* What one turn of the decode loop does where the invariant holds: the byte at
\* the host's position is counted, and dropped or stored with its mask.
LEMMA DecodeStep ==
  ASSUME IInv, DecodeByte
  PROVE  /\ Behind + 1 = raw.first + i /\ Behind \in Nat
         /\ Behind' = Behind + 1 /\ skew' = skew /\ i' = i + 1
         /\ Behind' - skew' = Behind + 1 - skew
         /\ rx_state' = (Behind + 1 - skew) % Modulus
         /\ dec_buf' = IF rx_state' = 0 THEN dec_buf
                       ELSE Append(dec_buf, ByteAt(Behind + 1, rx_state'))
<1> DEFINE mask == NextMask(rx_state)
<1>1. /\ pc = "decode" /\ pc' = "decode" /\ i < raw.len
      /\ raw' = raw /\ taken' = taken /\ rx_state' = mask
  BY DEF DecodeByte, dongle
<1>2. /\ raw.first \in Nat \ {0} /\ raw.len \in Nat /\ i \in Nat /\ taken \in Nat
      /\ skew \in Nat /\ raw.first + raw.len = taken + 1
  BY <1>1 DEF IInv, TypeOK, ChunkFits
<1>3. Behind = taken - (raw.len - i)
  BY <1>1 DEF Behind
<1>4. Behind + 1 = raw.first + i /\ Behind \in Nat
  BY <1>2, <1>3
<1>5. ~(Len(dec_buf) >= OutSize)
  BY <1>1, ChunkFitsRoom, SizesAssumption DEF IInv, RoomForEveryByte, TypeOK
<1>6. i' = i + 1 /\ skew' = skew
  BY <1>5 DEF DecodeByte
<1>7. Behind' = Behind + 1
  BY <1>1, <1>2, <1>3, <1>6 DEF Behind
<1>13. Behind' - skew' = Behind + 1 - skew
  BY <1>1, <1>2, <1>3, <1>6 DEF Behind
<1>8. mask = (Behind + 1 - skew) % Modulus
  <2>1. Behind - skew \in Int /\ Behind - skew + 1 = Behind + 1 - skew
    BY <1>2, <1>3
  <2> QED
    BY <2>1, NextMaskOfPosition DEF IInv, MaskFollowsPosition
<1>9. dec_buf' = IF mask = 0 THEN dec_buf
                 ELSE Append(dec_buf, ByteAt(raw.first + i, mask))
  BY <1>5 DEF DecodeByte, Dropped
<1>10. dec_buf' = IF rx_state' = 0 THEN dec_buf
                  ELSE Append(dec_buf, ByteAt(Behind + 1, rx_state'))
  BY <1>1, <1>4, <1>9
<1>11. rx_state' = (Behind + 1 - skew) % Modulus
  BY <1>1, <1>8
<1> HIDE DEF mask
<1> QED
  BY <1>4, <1>6, <1>7, <1>13, <1>10, <1>11

\* Initially no byte has been counted, taken or decoded.
LEMMA InitIInv == Init => IInv
<1> SUFFICES ASSUME Init PROVE IInv
  OBVIOUS
<1>1. /\ pc = "off" /\ taken = 0 /\ rx_state = 0 /\ skew = 0
      /\ dec_buf = <<>> /\ decoded = <<>> /\ cut = {}
  BY DEF Init
<1>2. TypeOK
  BY InitTypeOK
<1>3. ChunkFits
  BY <1>1 DEF ChunkFits
<1>4. Behind = 0
  BY <1>1 DEF Behind
<1>5. MaskFollowsPosition
  BY <1>1, <1>4, DataNoZero DEF MaskFollowsPosition
<1>6. DecodesClear
  <2>1. SoFar = <<>>
    BY <1>1 DEF SoFar
  <2> QED
    BY <2>1, <1>4, DataNoZero DEF DecodesClear
<1>7. OnlyTailsLeftOut
  BY <1>1, NothingCut DEF OnlyTailsLeftOut
<1> QED
  BY <1>2, <1>3, <1>5, <1>6, <1>7 DEF IInv

\* SoFar is the output and the chunk under way; both are sequences of bytes.
LEMMA SoFarSeq == TypeOK => SoFar \in Seq(Bytes) /\ Len(SoFar) = Len(decoded) + Len(dec_buf)
  BY ConcatProperties DEF TypeOK, SoFar

\* A decoded byte continues the output as DecodesClear asks.
LEMMA DecodeInSync ==
  ASSUME IInv, DecodeByte, TypeOK'
  PROVE  DecodesClear'
<1> DEFINE slot == Behind + 1
           byte == ByteAt(slot, rx_state')
<1>0. Behind \in Nat /\ slot \in Nat \ {0}
  <2>1. Behind \in Nat
    BY DecodeStep
  <2> QED
    BY <2>1
<1>1. /\ Behind' = slot /\ skew' = skew
      /\ rx_state' = (slot - skew) % Modulus
      /\ dec_buf' = IF rx_state' = 0 THEN dec_buf ELSE Append(dec_buf, byte)
  BY DecodeStep
<1>2. decoded' = decoded
  BY DEF DecodeByte
<1>3. dec_buf \in Seq(Bytes) /\ decoded \in Seq(Bytes) /\ SoFar \in Seq(Bytes)
  BY SoFarSeq DEF IInv, TypeOK
<1> SUFFICES ASSUME skew = 0
             PROVE  /\ Len(SoFar') = DataNo(Behind')
                    /\ \A k \in 1 .. Len(SoFar') :
                         SoFar'[k].ok /\ DataNo(SoFar'[k].slot) = k
  BY <1>1 DEF DecodesClear
<1>4. /\ Len(SoFar) = DataNo(Behind)
      /\ \A k \in 1 .. Len(SoFar) : SoFar[k].ok /\ DataNo(SoFar[k].slot) = k
  BY DEF IInv, DecodesClear
<1>5. rx_state' = slot % Modulus
  BY <1>1
<1>6. Behind \in Int
  BY <1>0
<1>7. CASE slot % Modulus = 0
  <2>1. SoFar' = SoFar
    BY <1>1, <1>2, <1>5, <1>7 DEF SoFar
  <2>2. DataNo(Behind') = DataNo(Behind)
    BY <1>1, <1>6, <1>7, DataNoStep
  <2> QED
    BY <2>1, <2>2, <1>4
<1>8. CASE slot % Modulus # 0
  <2>1. byte \in Bytes /\ byte.ok /\ byte.slot = slot
    BY <1>0, <1>5 DEF Bytes, ByteAt
  <2>2. SoFar' = Append(SoFar, byte)
    BY <1>1, <1>2, <1>3, <1>5, <1>8, <2>1 DEF SoFar
  <2>3. DataNo(slot) = DataNo(Behind) + 1
    BY <1>6, <1>8, DataNoStep
  <2>4. Len(SoFar') = Len(SoFar) + 1
    BY <1>3, <2>1, <2>2
  <2>5. ASSUME NEW k \in 1 .. Len(SoFar')
        PROVE  SoFar'[k].ok /\ DataNo(SoFar'[k].slot) = k
    <3>1. CASE k = Len(SoFar) + 1
      BY <1>3, <1>4, <2>1, <2>2, <2>3, <3>1
    <3>2. CASE k \in 1 .. Len(SoFar)
      BY <1>3, <1>4, <2>1, <2>2, <3>2
    <3> QED
      BY <1>3, <2>4, <3>1, <3>2
  <2> QED
    BY <1>1, <1>4, <2>3, <2>4, <2>5
<1> QED
  BY <1>7, <1>8

\* Whatever step is taken, only ends of chunks are left out of the print.
LEMMA StepTails ==
  ASSUME IInv, [Next]_vars
  PROVE  OnlyTailsLeftOut'
<1>1. OnlyTailsLeftOut /\ cut \subseteq 1 .. Len(decoded) /\ decoded \in Seq(Bytes)
  BY DEF IInv, TypeOK
<1>2. CASE ShowChunk
  <2>1. Len(dec_buf) \in 0 .. RawSize
    BY <1>2, SizesAssumption DEF ShowChunk, IInv, TypeOK, ChunkFits
  <2>2. Len(decoded) \in Nat /\ RawSize \in Nat
    BY <1>1, SizesAssumption
  <2>3. TailsOnly(cut \cup LeftOut(Len(decoded), dec_buf), RawSize)
    BY <1>1, <2>1, <2>2, TailsGrow DEF OnlyTailsLeftOut
  <2> QED
    BY <1>2, <2>3 DEF ShowChunk, OnlyTailsLeftOut
<1>3. CASE ~ShowChunk
  <2>1. cut' = cut \/ cut' = {}
    BY <1>3 DEF Next, Host, Emit, Open, OnSigint, Preinit, PollData, PollIdle, PollError,
                DecodeByte, Close, vars
  <2> QED
    BY <1>1, <2>1, NothingCut DEF OnlyTailsLeftOut
<1> QED
  BY <1>2, <1>3

\* Every step keeps the invariant.
LEMMA StepIInv == IInv /\ [Next]_vars => IInv'
<1> SUFFICES ASSUME IInv, [Next]_vars PROVE IInv'
  OBVIOUS
<1>1. TypeOK /\ TypeOK' /\ OnlyTailsLeftOut'
  BY StepTypeOK, StepTails DEF IInv
<1>2. ASSUME UNCHANGED <<taken, pc, rx_state, raw, i, dec_buf, decoded, cut, skew>>
      PROVE  IInv'
  BY <1>1, <1>2 DEF IInv, ChunkFits, MaskFollowsPosition, DecodesClear, Behind, SoFar
<1>3. CASE Emit
  BY <1>2, <1>3 DEF Emit, chunk
<1>4. CASE Open
  <2>1. /\ pc' = "preinit" /\ dec_buf' = <<>> /\ decoded' = <<>> /\ cut' = {} /\ rx_state' = 0
        /\ taken' = skew'
    BY <1>4 DEF Open, FirstMask
  <2>2. Behind' = skew' /\ Behind' - skew' = 0
    <3>1. PICK s \in Int : taken' = s /\ skew' = s
      BY <1>1, <2>1 DEF TypeOK
    <3> QED
      BY <2>1, <3>1 DEF Behind
  <2>3. SoFar' = <<>>
    BY <2>1 DEF SoFar
  <2> QED
    BY <1>1, <2>1, <2>2, <2>3, DataNoZero DEF IInv, ChunkFits, MaskFollowsPosition, DecodesClear
<1>5. CASE OnSigint
  BY <1>2, <1>5 DEF OnSigint, dongle, chunk
<1>6. CASE Preinit \/ Close
  <2>1. /\ pc # "decode" /\ pc' # "decode"
        /\ UNCHANGED <<taken, rx_state, raw, i, dec_buf, decoded, cut, skew>>
    BY <1>6 DEF Preinit, Close, dongle, chunk
  <2> QED
    BY <1>1, <2>1 DEF IInv, ChunkFits, MaskFollowsPosition, DecodesClear, Behind, SoFar
<1>7. CASE PollData
  <2>1. /\ pc = "loop" /\ pc' = "decode" /\ i' = 0 /\ dec_buf' = <<>>
        /\ UNCHANGED <<rx_state, decoded, cut, skew>>
    BY <1>7 DEF PollData
  <2>2. PICK n \in 1 .. Least(Pending, Asked) :
          raw' = [first |-> taken + 1, len |-> n] /\ taken' = taken + n
    BY <1>7 DEF PollData
  <2>3. n \in Nat /\ taken \in Nat
    BY <1>1, SizesAssumption DEF Least, Pending, Asked, TypeOK
  <2>4. Behind' = Behind
    BY <2>1, <2>2, <2>3 DEF Behind
  <2>5. SoFar' = SoFar
    BY <2>1 DEF SoFar, IInv, ChunkFits
  <2> QED
    BY <1>1, <2>1, <2>2, <2>3, <2>4, <2>5 DEF IInv, ChunkFits, MaskFollowsPosition, DecodesClear
<1>8. CASE PollIdle
  BY <1>2, <1>8 DEF PollIdle, vars
<1>9. CASE PollError
  <2>1. /\ pc = "loop" /\ UNCHANGED <<pc, rx_state, raw, i, dec_buf, decoded, cut>>
    BY <1>9 DEF PollError, chunk
  <2>2. PICK k \in 0 .. Least(Pending, Asked) : taken' = taken + k /\ skew' = skew + k
    BY <1>9 DEF PollError
  <2>3. k \in Nat /\ taken \in Nat /\ skew \in Nat
    BY <1>1, SizesAssumption DEF Least, Pending, Asked, TypeOK
  <2>4. Behind' = Behind + k /\ Behind \in Nat /\ Behind' - skew' = Behind - skew
    BY <2>1, <2>2, <2>3 DEF Behind
  <2>5. SoFar' = SoFar
    BY <2>1 DEF SoFar
  <2>6. DecodesClear'
    <3>1. CASE k = 0
      BY <2>2, <2>3, <2>4, <2>5, <3>1 DEF IInv, DecodesClear
    <3>2. CASE k # 0
      BY <2>2, <2>3, <3>2 DEF DecodesClear
    <3> QED
      BY <3>1, <3>2
  <2> QED
    BY <1>1, <2>1, <2>4, <2>6 DEF IInv, ChunkFits, MaskFollowsPosition
<1>10. CASE DecodeByte
  <2>1. /\ Behind' = Behind + 1 /\ skew' = skew /\ i' = i + 1
        /\ Behind' - skew' = Behind + 1 - skew
        /\ rx_state' = (Behind + 1 - skew) % Modulus
        /\ \/ dec_buf' = dec_buf
           \/ \E byte : dec_buf' = Append(dec_buf, byte)
    BY <1>10, DecodeStep
  <2>2. pc = "decode" /\ UNCHANGED <<pc, raw, taken>>
    BY <1>10 DEF DecodeByte, dongle
  <2>3. Len(dec_buf') <= Len(dec_buf) + 1
    <3>1. dec_buf \in Seq(Bytes) /\ dec_buf' \in Seq(Bytes)
      BY <1>1 DEF TypeOK
    <3>2. CASE dec_buf' = dec_buf
      BY <3>1, <3>2
    <3>3. CASE dec_buf' # dec_buf
      <4>1. PICK byte : dec_buf' = Append(dec_buf, byte)
        BY <2>1, <3>3
      <4> QED
        BY <3>1, <4>1
    <3> QED
      BY <3>2, <3>3
  <2>4. ChunkFits'
    BY <1>1, <2>1, <2>2, <2>3 DEF IInv, ChunkFits, TypeOK
  <2>5. DecodesClear'
    BY <1>1, <1>10, DecodeInSync
  <2> QED
    BY <1>1, <2>1, <2>4, <2>5 DEF IInv, MaskFollowsPosition
<1>11. CASE ShowChunk
  <2>1. /\ pc = "decode" /\ pc' = "loop" /\ i = raw.len
        /\ decoded' = SoFar /\ dec_buf' = <<>>
        /\ UNCHANGED <<rx_state, skew, taken>>
    BY <1>11 DEF ShowChunk, SoFar, dongle
  <2>2. Behind' = Behind
    BY <1>1, <2>1 DEF Behind, TypeOK
  <2>3. SoFar' = SoFar
    BY <1>1, <2>1, SoFarSeq, ConcatEmptySeq DEF SoFar
  <2> QED
    BY <1>1, <2>1, <2>2, <2>3 DEF IInv, ChunkFits, MaskFollowsPosition, DecodesClear
<1>12. CASE UNCHANGED vars
  BY <1>2, <1>12 DEF vars
<1> QED
  BY <1>3, <1>4, <1>5, <1>6, <1>7, <1>8, <1>9, <1>10, <1>11, <1>12 DEF Next, Host

THEOREM InductiveInvariant == Spec => []IInv
  BY InitIInv, StepIInv, PTL DEF Spec

\* The mask counter is where the slots the session counted leave it.
THEOREM MaskFollows == Spec => []MaskFollowsPosition
<1>1. IInv => MaskFollowsPosition
  BY DEF IInv
<1> QED
  BY <1>1, InductiveInvariant, PTL

\* The size test of ks959_rx_decode_chunk never cuts a chunk short.
THEOREM RoomAlways == Spec => []RoomForEveryByte
<1>1. IInv => RoomForEveryByte
  BY ChunkFitsRoom DEF IInv
<1> QED
  BY <1>1, InductiveInvariant, PTL

\* A session that has counted every slot decodes the clear stream, and of what any
\* session decoded only the ends of long chunks are not printed.
THEOREM SessionInSync == Spec => []InSync
<1>1. IInv => InSync
  BY DEF IInv, InSync
<1> QED
  BY <1>1, InductiveInvariant, PTL

\* A byte comes out right exactly when the host has missed a multiple of the
\* period: the code has no way back from any other loss.
THEOREM DecodesExactly == Spec => DecodeExact
<1> DEFINE Exact == Len(dec_buf') > Len(dec_buf) =>
                      (dec_buf'[Len(dec_buf')].ok <=> skew % Modulus = 0)
<1>1. IInv /\ [Next]_vars => [Exact]_vars
  <2> SUFFICES ASSUME IInv, [Next]_vars PROVE Exact
    OBVIOUS
  <2>1. dec_buf \in Seq(Bytes)
    BY DEF IInv, TypeOK
  <2>2. CASE DecodeByte
    <3> DEFINE slot == Behind + 1
               byte == ByteAt(slot, rx_state')
    <3>0. Behind \in Nat
      BY <2>2, DecodeStep
    <3>1. /\ rx_state' = (slot - skew) % Modulus
          /\ dec_buf' = IF rx_state' = 0 THEN dec_buf ELSE Append(dec_buf, byte)
      BY <2>2, DecodeStep
    <3>2. skew \in Int
      BY DEF IInv, TypeOK
    <3>3. rx_state' = slot % Modulus <=> skew % Modulus = 0
      <4>1. slot \in Int
        BY <3>0
      <4> HIDE DEF slot
      <4>2. (slot - skew) % Modulus = slot % Modulus <=> skew % Modulus = 0
        BY <3>2, <4>1, SameMask
      <4> QED
        BY <3>1, <4>2
    <3>4. CASE rx_state' = 0
      BY <2>1, <3>1, <3>4
    <3>5. CASE rx_state' # 0
      <4>1. byte \in [slot : Nat, ok : BOOLEAN]
        BY <3>0 DEF ByteAt
      <4>2. dec_buf' = Append(dec_buf, byte)
        BY <3>1, <3>5
      <4>3. dec_buf'[Len(dec_buf')] = byte
        BY <2>1, <4>1, <4>2
      <4>4. byte.ok <=> rx_state' = slot % Modulus
        BY DEF ByteAt
      <4> QED
        BY <3>3, <4>3, <4>4
    <3> QED
      BY <3>4, <3>5
  <2>3. CASE ~DecodeByte
    <3>1. dec_buf' = dec_buf \/ dec_buf' = <<>>
      BY <2>3 DEF Next, Host, Emit, Open, OnSigint, Preinit, PollData, PollIdle,
                  PollError, ShowChunk, Close, vars, chunk
    <3> QED
      BY <2>1, <3>1
  <2> QED
    BY <2>2, <2>3
<1> QED
  BY <1>1, InductiveInvariant, PTL DEF Spec, DecodeExact

(***************************************************************************)
(* The stream refinement, where nothing makes the host lose count.         *)
(***************************************************************************)

Lossless == TransferFails = FALSE /\ ResetChoices = {TRUE}

\* More slots carry no fewer clear bytes.
LEMMA DataNoMonotone ==
  ASSUME NEW a \in Int, NEW b \in Int, a <= b
  PROVE  DataNo(a) <= DataNo(b)
<1> DEFINE q1 == a \div Modulus
           r1 == a % Modulus
           q2 == b \div Modulus
           r2 == b % Modulus
<1>1. /\ q1 \in Int /\ r1 \in 0 .. (Modulus - 1) /\ a = Modulus * q1 + r1
      /\ q2 \in Int /\ r2 \in 0 .. (Modulus - 1) /\ b = Modulus * q2 + r2
  BY DivMod
<1>2. Modulus \in Nat /\ Modulus >= 2
  BY ModulusAssumption
<1>3. DataNo(a) = a - q1 /\ DataNo(b) = b - q2
  BY DEF DataNo
<1> HIDE DEF q1, r1, q2, r2
<1>4. CASE q2 <= q1
  BY <1>1, <1>3, <1>4
<1>5. CASE q2 > q1
  <2>1. PICK d \in Nat : q2 = q1 + 1 + d
    <3>1. q2 - q1 - 1 \in Nat /\ q2 = q1 + 1 + (q2 - q1 - 1)
      BY <1>1, <1>5
    <3> QED
      BY <3>1
  <2>2. Modulus * q2 = Modulus * q1 + Modulus + Modulus * d
    BY <1>1, <1>2, <2>1
  <2>3. Modulus * d >= d
    BY <1>2
  <2>4. Modulus * d \in Int /\ Modulus * q1 \in Int
    BY <1>1, <1>2
  <2>5. b - a >= 1 + d
    BY <1>1, <1>2, <2>2, <2>3, <2>4
  <2> QED
    BY <1>1, <1>3, <2>1, <2>5
<1> QED
  BY <1>1, <1>4, <1>5

NoneMissed == skew = 0

\* No slot goes uncounted.
LEMMA NoSkew ==
  ASSUME Lossless
  PROVE  Spec => []NoneMissed
<1>1. Init => NoneMissed
  BY DEF Init, NoneMissed
<1>2. IInv /\ NoneMissed /\ [Next]_vars => NoneMissed'
  <2> SUFFICES ASSUME IInv, skew = 0, [Next]_vars PROVE skew' = 0
    BY DEF NoneMissed
  <2>1. CASE Open
    <3>1. PICK reset \in ResetChoices : skew' = IF reset THEN 0 ELSE taken
      BY <2>1 DEF Open
    <3>2. reset = TRUE
      BY <3>1 DEF Lossless
    <3> QED
      BY <3>1, <3>2
  <2>2. CASE DecodeByte
    BY <2>2, DecodeStep
  <2>3. CASE PollError
    BY <2>3 DEF PollError, Lossless
  <2> QED
    BY <2>1, <2>2, <2>3 DEF Next, Host, Emit, OnSigint, Preinit, PollData, PollIdle,
       ShowChunk, Close, vars
<1> QED
  BY <1>1, <1>2, InductiveInvariant, PTL DEF Spec

\* What has been decoded is a prefix of the clear stream, printed but for cut.
LEMMA DeliveredIsStream ==
  ASSUME IInv, skew = 0
  PROVE  /\ Delivered = [k \in 1 .. Len(decoded) |-> [byte |-> k, shown |-> k \notin cut]]
         /\ Len(decoded) \in Nat /\ Len(decoded) <= Len(SoFar)
<1>1. decoded \in Seq(Bytes) /\ dec_buf \in Seq(Bytes)
  BY DEF IInv, TypeOK
<1>2. Len(decoded) \in Nat /\ Len(decoded) <= Len(SoFar)
  BY <1>1 DEF SoFar
<1>3. ASSUME NEW k \in 1 .. Len(decoded)
      PROVE  decoded[k].ok /\ DataNo(decoded[k].slot) = k
  <2>1. k \in 1 .. Len(SoFar)
    BY <1>2
  <2>2. SoFar[k] = decoded[k]
    BY <1>1 DEF SoFar
  <2> QED
    BY <2>1, <2>2 DEF IInv, DecodesClear
<1> QED
  BY <1>2, <1>3 DEF Delivered

LEMMA InitRefines == Init => Clear!Init
<1> SUFFICES ASSUME Init PROVE Clear!Init
  OBVIOUS
<1>1. emitted = 0 /\ decoded = <<>> /\ cut = {} /\ pc = "off"
  BY DEF Init
<1>2. Delivered = <<>>
  BY <1>1 DEF Delivered
<1> QED
  BY <1>1, <1>2, DataNoZero DEF Clear!Init

\* Printing a chunk delivers the clear bytes decoded since the last one, the
\* first DumpMax of them in print.
LEMMA ShowDelivers ==
  ASSUME IInv, skew = 0, ShowChunk, IInv'
  PROVE  Clear!Deliver \/ UNCHANGED Clear!vars
<1>1. /\ pc = "decode" /\ pc' = "loop" /\ i = raw.len /\ decoded' = SoFar
      /\ UNCHANGED <<emitted, taken, g_stop, skew>>
  BY DEF ShowChunk, SoFar, dongle
<1>2. /\ Delivered = [k \in 1 .. Len(decoded) |-> [byte |-> k, shown |-> k \notin cut]]
      /\ Len(decoded) \in Nat /\ Len(decoded) <= Len(SoFar)
  BY DeliveredIsStream
<1>3. taken \in Nat /\ emitted \in Nat /\ taken <= emitted /\ raw.len \in Nat
  BY DEF IInv, TypeOK
<1>4. Behind = taken
  BY <1>1, <1>3 DEF Behind
<1>5. /\ Len(SoFar) = DataNo(taken)
      /\ \A k \in 1 .. Len(SoFar) : SoFar[k].ok /\ DataNo(SoFar[k].slot) = k
  BY <1>4 DEF IInv, DecodesClear
<1>6. Delivered' = [k \in 1 .. Len(SoFar) |-> [byte |-> k, shown |-> k \notin cut']]
  BY <1>1, <1>5 DEF Delivered
<1>12. \A k \in 1 .. Len(decoded) : k \in cut' <=> k \in cut
  BY <1>2, DumpAssumption DEF ShowChunk, LeftOut
<1>13. \A k \in (Len(decoded) + 1) .. Len(SoFar) : k \in cut' <=> k > Len(decoded) + DumpMax
  <2>0. TypeOK
    BY DEF IInv
  <2>1. Len(SoFar) = Len(decoded) + Len(dec_buf) /\ Len(dec_buf) \in Nat
    <3>1. Len(dec_buf) \in Nat
      BY <2>0 DEF TypeOK
    <3> QED
      BY <2>0, <3>1, SoFarSeq
  <2> SUFFICES ASSUME NEW k \in (Len(decoded) + 1) .. Len(SoFar)
               PROVE  k \in cut' <=> k > Len(decoded) + DumpMax
    OBVIOUS
  <2>2. k \notin cut
    BY <1>2, <2>0 DEF TypeOK
  <2>3. k \in cut' <=> k \in LeftOut(Len(decoded), dec_buf)
    BY <2>2 DEF ShowChunk
  <2>4. k > Len(decoded) + DumpMax => k - Len(decoded) \in (DumpMax + 1) .. Len(dec_buf)
    BY <1>2, <2>1, DumpAssumption
  <2>5. k = Len(decoded) + (k - Len(decoded))
    BY <1>2, <2>1
  <2>6. k > Len(decoded) + DumpMax => k \in LeftOut(Len(decoded), dec_buf)
    BY <2>4, <2>5 DEF LeftOut
  <2>7. k \in LeftOut(Len(decoded), dec_buf) => k > Len(decoded) + DumpMax
    BY <1>2, <2>1, DumpAssumption DEF LeftOut
  <2> QED
    BY <2>3, <2>6, <2>7
<1>7. DataNo(taken) <= DataNo(emitted) /\ DataNo(taken) \in Int /\ DataNo(emitted) \in Int
  BY <1>3, DataNoMonotone, DataNoStep
<1>8. DataNo(emitted)' = DataNo(emitted)
  BY <1>1 DEF DataNo
<1>9. (g_stop \/ pc = "off")' = (g_stop \/ pc = "off")
  BY <1>1
<1>10. CASE Len(SoFar) = Len(decoded)
  BY <1>2, <1>6, <1>8, <1>9, <1>10, <1>12 DEF Clear!vars
<1>11. CASE Len(SoFar) > Len(decoded)
  <2>1. Len(Delivered) = Len(decoded)
    BY <1>2
  <2>2. Len(SoFar) \in (Len(Delivered) + 1) .. DataNo(emitted)
    BY <1>2, <1>5, <1>7, <1>11, <2>1
  <2>3. ASSUME NEW k \in 1 .. Len(SoFar)
        PROVE  [byte |-> k, shown |-> k \notin cut'] =
                 IF k <= Len(Delivered) THEN Delivered[k]
                 ELSE [byte |-> k, shown |-> k <= Len(Delivered) + DumpMax]
    <3>1. CASE k <= Len(decoded)
      <4>1. k \in 1 .. Len(decoded)
        BY <1>2, <3>1
      <4> QED
        BY <1>2, <1>12, <2>1, <3>1, <4>1
    <3>2. CASE ~(k <= Len(decoded))
      <4>1. k \in (Len(decoded) + 1) .. Len(SoFar) /\ DumpMax \in Nat
        BY <1>2, <3>2, DumpAssumption
      <4>2. k \notin cut' <=> k <= Len(decoded) + DumpMax
        BY <1>2, <1>13, <4>1
      <4> QED
        BY <2>1, <3>2, <4>2
    <3> QED
      BY <3>1, <3>2
  <2>4. Delivered' = [k \in 1 .. Len(SoFar) |->
                        IF k <= Len(Delivered) THEN Delivered[k]
                        ELSE [byte |-> k, shown |-> k <= Len(Delivered) + DumpMax]]
    BY <1>6, <2>3
  <2> QED
    BY <1>8, <1>9, <2>2, <2>4 DEF Clear!Deliver
<1> QED
  BY <1>2, <1>5, <1>7, <1>10, <1>11

\* Every step of the program and the dongle is one of RxStream, or none.
LEMMA StepRefines ==
  ASSUME Lossless, IInv, skew = 0, [Next]_vars, IInv'
  PROVE  [Clear!Next]_(Clear!vars)
<1>1. ASSUME UNCHANGED <<emitted, decoded, cut>>, UNCHANGED (g_stop \/ pc = "off")
      PROVE  UNCHANGED Clear!vars
  BY <1>1 DEF Clear!vars, Delivered, DataNo
<1>2. CASE Emit
  <2>1. /\ emitted \in Int /\ emitted' = emitted + 1
        /\ UNCHANGED <<decoded, cut, pc, g_stop>>
    BY <1>2 DEF Emit, IInv, TypeOK
  <2>2. DataNo(emitted') = DataNo(emitted) \/ DataNo(emitted') = DataNo(emitted) + 1
    BY <2>1, DataNoStep
  <2>3. Delivered' = Delivered /\ (g_stop \/ pc = "off")' = (g_stop \/ pc = "off")
    BY <2>1 DEF Delivered, DataNo
  <2> QED
    BY <2>2, <2>3 DEF Clear!vars, Clear!Next, Clear!Receive, DataNo
<1>3. CASE Open
  <2>1. /\ g_stop' = FALSE /\ pc' = "preinit" /\ decoded' = <<>> /\ cut' = {}
        /\ \E reset \in ResetChoices : emitted' = IF reset THEN 0 ELSE emitted
    BY <1>3 DEF Open
  <2>2. emitted' = 0
    BY <2>1 DEF Lossless
  <2>3. Delivered' = <<>>
    BY <2>1 DEF Delivered
  <2> QED
    BY <2>1, <2>2, <2>3, DataNoZero DEF Clear!Next, Clear!NewSession, DataNo
<1>4. CASE OnSigint
  <2>1. g_stop' = TRUE /\ UNCHANGED <<emitted, decoded, cut>>
    BY <1>4 DEF OnSigint, dongle
  <2> QED
    BY <2>1 DEF Clear!Next, Clear!Stop, Delivered, DataNo
<1>5. CASE Preinit \/ PollData \/ PollIdle \/ DecodeByte
  BY <1>1, <1>5 DEF Preinit, PollData, PollIdle, DecodeByte, dongle, vars
<1>6. CASE PollError
  BY <1>6 DEF PollError, Lossless
<1>7. CASE ShowChunk
  BY <1>7, ShowDelivers DEF Clear!Next
<1>8. CASE Close
  BY <1>1, <1>8 DEF Close, dongle
<1>9. CASE UNCHANGED vars
  BY <1>1, <1>9 DEF vars
<1> QED
  BY <1>2, <1>3, <1>4, <1>5, <1>6, <1>7, <1>8, <1>9 DEF Next, Host

\* With polls that do not fail and a dongle that starts its count at open, the
\* program implements the clear stream (its safety part: the run checks the
\* liveness part).
THEOREM ImplementsStream ==
  ASSUME Lossless
  PROVE  Spec => Clear!SafeSpec
<1>1. IInv /\ NoneMissed /\ [Next]_vars /\ IInv' => [Clear!Next]_(Clear!vars)
  BY StepRefines DEF NoneMissed
<1> QED
  BY <1>1, InitRefines, InductiveInvariant, NoSkew, PTL DEF Spec, Clear!SafeSpec
=============================================================================
