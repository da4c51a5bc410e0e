-------------------------- MODULE TxFragmentProofs --------------------------
(***************************************************************************)
(* Theorems about TxFragment, for every unit, overhead and buffer size.    *)
(***************************************************************************)
EXTENDS TxFragment, TLAPS

(***************************************************************************)
(* Arithmetic of the padding.                                              *)
(***************************************************************************)

\* x rounded up to a multiple of Unit is the least multiple not below x.
LEMMA RoundUp ==
  ASSUME NEW x \in Nat
  PROVE  LET n == ((x + Unit - 1) \div Unit)
         IN /\ n \in Nat
            /\ x <= n * Unit /\ n * Unit < x + Unit
            /\ \A m \in Nat : x <= m * Unit => n <= m
<1> DEFINE y == x + Unit - 1
           n == y \div Unit
           r == y % Unit
<1>1. Unit \in Nat /\ Unit >= 1
  BY UnitAssumption
<1>2. y \in Nat /\ n \in Nat /\ r \in 0 .. (Unit - 1) /\ y = Unit * n + r
  BY <1>1
<1> HIDE DEF n, r
<1>3. Unit * n = n * Unit /\ n * Unit \in Nat
  BY <1>1, <1>2
<1>4. x <= n * Unit /\ n * Unit < x + Unit
  BY <1>1, <1>2, <1>3
<1>5. ASSUME NEW m \in Nat, x <= m * Unit
      PROVE  n <= m
  <2>1. SUFFICES ASSUME m < n PROVE FALSE
    BY <1>2
  <2>2. PICK d \in Nat : n = m + 1 + d
    <3>1. n - m - 1 \in Nat /\ n = m + 1 + (n - m - 1)
      BY <1>2, <2>1
    <3> QED
      BY <3>1
  <2>3. n * Unit = m * Unit + Unit + d * Unit
    BY <1>1, <2>2
  <2>4. d * Unit \in Nat /\ m * Unit \in Nat
    BY <1>1, <2>2
  <2> QED
    BY <1>1, <1>4, <1>5, <2>3, <2>4
<1> QED
  BY <1>2, <1>4, <1>5 DEF n

\* For a length an object in memory can have, size_t does not wrap: the padded
\* length is the overhead past the least multiple of Unit that holds it.
LEMMA PaddedIs ==
  ASSUME NEW c \in Lengths
  PROVE  /\ Padded(c) = ((c + Unit - 1) \div Unit) * Unit + Overhead
         /\ Padded(c) \in Nat
         /\ c + Overhead <= Padded(c) /\ Padded(c) < c + Overhead + Unit
<1> DEFINE n == (c + Unit - 1) \div Unit
<1>1. /\ c \in Nat /\ Unit \in Nat /\ Unit >= 1 /\ Overhead \in Nat /\ SizeMod \in Nat
      /\ c + Unit + Overhead <= SizeMod
  BY UnitAssumption, LengthsAssumption
<1>2. n \in Nat /\ c <= n * Unit /\ n * Unit < c + Unit
  BY <1>1, RoundUp
<1>3. (c + Unit - 1) % SizeMod = c + Unit - 1
  BY <1>1
<1> HIDE DEF n
<1>4. n * Unit + Overhead \in Nat /\ n * Unit + Overhead < SizeMod
  BY <1>1, <1>2
<1>5. (n * Unit + Overhead) % SizeMod = n * Unit + Overhead
  BY <1>1, <1>4
<1>6. Padded(c) = n * Unit + Overhead
  BY <1>3, <1>5 DEF Padded, n
<1> QED
  BY <1>1, <1>2, <1>4, <1>6 DEF n

\* The largest fragment that fits in max bytes, max being Overhead more than a
\* multiple of Unit: KS959_TX_FRAGMENT_MAX_CLEAR is 240 for the 256 bytes of
\* KS959_SND_PACKET_SIZE.
THEOREM LargestFragment ==
  ASSUME NEW c \in Lengths \ {0}, NEW n \in Nat
  PROVE  PaddedLength(c, n * Unit + Overhead) # 0 <=> c <= n * Unit
<1> DEFINE m == (c + Unit - 1) \div Unit
<1>1. c \in Nat /\ c >= 1 /\ Unit \in Nat /\ Unit >= 1 /\ Overhead \in Nat
  BY UnitAssumption, LengthsAssumption
<1>2. /\ m \in Nat /\ c <= m * Unit /\ m * Unit < c + Unit
      /\ \A k \in Nat : c <= k * Unit => m <= k
  BY <1>1, RoundUp
<1>3. Padded(c) = m * Unit + Overhead /\ Padded(c) \in Nat /\ Padded(c) >= 1
  BY <1>1, PaddedIs
<1> HIDE DEF m
<1>4. n * Unit \in Nat /\ m * Unit \in Nat
  BY <1>1, <1>2
<1>5. ASSUME c <= n * Unit PROVE m * Unit <= n * Unit
  <2>1. m <= n
    BY <1>2, <1>5
  <2>2. PICK d \in Nat : n = m + d
    <3>1. n - m \in Nat /\ n = m + (n - m)
      BY <1>2, <2>1
    <3> QED
      BY <3>1
  <2>3. n * Unit = m * Unit + d * Unit /\ d * Unit \in Nat
    BY <1>1, <1>2, <2>2
  <2> QED
    BY <1>4, <2>3
<1>6. Padded(c) <= n * Unit + Overhead <=> c <= n * Unit
  BY <1>1, <1>2, <1>3, <1>4, <1>5
<1> QED
  BY <1>1, <1>3, <1>6 DEF PaddedLength

(***************************************************************************)
(* Type correctness.                                                       *)
(***************************************************************************)

\* k ^ 6 stays within the lookup string.
LEMMA FlipSixRange == ASSUME NEW k \in 0 .. 15 PROVE FlipSix[k] \in 0 .. 15
<1> DEFINE table == <<6, 7, 4, 5, 2, 3, 0, 1>>
<1>1. k \div 8 \in 0 .. 1 /\ (k % 8) + 1 \in 1 .. 8
  OBVIOUS
<1>2. \A j \in 1 .. 8 : table[j] \in 0 .. 7
  OBVIOUS
<1>3. FlipSix[k] = (k \div 8) * 8 + table[(k % 8) + 1]
  BY DEF FlipSix
<1> HIDE DEF table
<1>4. table[(k % 8) + 1] \in 0 .. 7
  BY <1>1, <1>2
<1> QED
  BY <1>1, <1>3, <1>4

LEMMA MaskType == ASSUME NEW len \in Nat PROVE MaskFor(len) \in Masks
<1>1. len % 16 \in 0 .. 15
  OBVIOUS
<1>2. FlipSix[len % 16] + 1 \in 1 .. 16
  BY <1>1, FlipSixRange
<1> QED
  BY <1>2 DEF MaskFor, Masks

\* The kinds of bytes a buffer holds.
LEMMA ByteTypes ==
  /\ Stale \in Bytes /\ Zero \in Bytes
  /\ \A k, len \in Nat : Clear(k, MaskFor(len)) \in Bytes
  BY MaskType DEF Stale, Zero, Clear, Bytes

LEMMA InitTypeOK == Init => TypeOK
<1> SUFFICES ASSUME Init PROVE TypeOK
  OBVIOUS
<1>1. out_buf_size \in Sizes /\ out_buf = [k \in 1 .. out_buf_size |-> Stale]
  BY DEF Init
<1>2. out_buf \in [1 .. out_buf_size -> Bytes]
  BY <1>1, ByteTypes
<1>3. /\ pc = "caller" /\ result = "none"
      /\ clear_len \in Lengths \cup {0} /\ padded_len \in Nat /\ i \in 0 .. clear_len
      /\ out_len \in Nat
  BY DEF Init
<1> QED
  BY <1>1, <1>2, <1>3 DEF TypeOK

LEMMA StepTypeOK == TypeOK /\ [Next]_vars => TypeOK'
<1> SUFFICES ASSUME TypeOK, [Next]_vars PROVE TypeOK'
  OBVIOUS
<1> USE UnitAssumption, LengthsAssumption
<1>1. CASE InvalidParam
  BY <1>1 DEF InvalidParam, TypeOK
<1>2. CASE Call
  <2>1. PICK c \in Lengths : Obfuscate(c)
    BY <1>2 DEF Call
  <2>2. padded_len' \in Nat
    BY <2>1, PaddedIs DEF Obfuscate, PaddedLength
  <2>3. c \in Nat /\ clear_len' = c /\ i' = 0
    BY <2>1 DEF Obfuscate
  <2>4. out_buf' \in [1 .. out_buf_size -> Bytes]
    BY <2>1, ByteTypes DEF Obfuscate, TypeOK
  <2>5. /\ pc' \in {"caller", "xor", "send"} /\ result' \in {"none", "BUFFER_TOO_SMALL"}
        /\ UNCHANGED <<out_buf_size, out_len>>
    BY <1>2, <2>1 DEF Call, Obfuscate, TypeOK
  <2> QED
    BY <2>2, <2>3, <2>4, <2>5 DEF TypeOK
<1>3. CASE XorByte
  <2>1. clear_len \in Nat /\ i + 1 \in 0 .. clear_len
    BY <1>3 DEF XorByte, TypeOK
  <2>2. out_buf' \in [1 .. out_buf_size -> Bytes]
    <3>1. Clear(i + 1, MaskFor(clear_len)) \in Bytes
      BY <2>1, ByteTypes DEF TypeOK
    <3>2. out_buf' = [out_buf EXCEPT ![i + 1] = Clear(i + 1, MaskFor(clear_len))]
      BY <1>3 DEF XorByte, HostMask
    <3> QED
      BY <3>1, <3>2 DEF TypeOK
  <2> QED
    BY <1>3, <2>1, <2>2 DEF XorByte, TypeOK
<1>4. CASE Return
  BY <1>4 DEF Return, TypeOK
<1>5. CASE Send
  <2>1. out_buf' \in [1 .. out_buf_size -> Bytes]
    BY <1>5, ByteTypes DEF Send
  <2> QED
    BY <1>5, <2>1 DEF Send, TypeOK
<1>6. CASE UNCHANGED vars
  BY <1>6 DEF vars, TypeOK
<1> QED
  BY <1>1, <1>2, <1>3, <1>4, <1>5, <1>6 DEF Next

\* The locals, the buffer and the results have the types the code declares.
THEOREM TypeCorrect == Spec => []TypeOK
  BY InitTypeOK, StepTypeOK, PTL DEF Spec

(***************************************************************************)
(* The packet.                                                             *)
(***************************************************************************)

LEMMA InitIInv == Init => IInv
  BY InitTypeOK DEF Init, IInv, BufferInProgress, PacketExact

\* A call that is not refused leaves a cleared packet of the padded length.
LEMMA CallStarts ==
  ASSUME IInv, Call, TypeOK'
  PROVE  BufferInProgress'
<1> SUFFICES ASSUME pc' # "caller" PROVE BufferInProgress'
  BY DEF BufferInProgress
<1>1. PICK c \in Lengths : Obfuscate(c)
  BY DEF Call
<1>2. /\ padded_len' # 0 /\ pc' = "xor" /\ clear_len' = c /\ i' = 0
      /\ padded_len' = PaddedLength(c, out_buf_size)
      /\ out_buf' = [k \in DOMAIN out_buf |->
                      IF k <= padded_len' THEN Zero ELSE out_buf[k]]
      /\ out_buf_size' = out_buf_size
  BY <1>1 DEF Obfuscate, Call
<1>3. /\ c # 0 /\ padded_len' = Padded(c) /\ padded_len' \in Nat
      /\ padded_len' <= out_buf_size
  <2>1. Padded(c) \in Nat /\ out_buf_size \in Nat
    BY PaddedIs, LengthsAssumption DEF IInv, TypeOK
  <2> QED
    BY <1>2, <2>1 DEF PaddedLength
<1>4. DOMAIN out_buf = 1 .. out_buf_size /\ out_buf_size \in Nat
  BY LengthsAssumption DEF IInv, TypeOK
<1>5. \A k \in 1 .. padded_len' : out_buf'[k] = Zero /\ ~(k <= 0)
  BY <1>2, <1>3, <1>4
<1> QED
  BY <1>2, <1>3, <1>5 DEF BufferInProgress

\* The loop turns the next zero into the next clear byte.
LEMMA XorContinues ==
  ASSUME IInv, XorByte, TypeOK'
  PROVE  BufferInProgress'
<1>1. /\ pc = "xor" /\ i < clear_len /\ i' = i + 1
      /\ out_buf' = [out_buf EXCEPT ![i + 1] = Clear(i + 1, MaskFor(clear_len))]
      /\ UNCHANGED <<pc, clear_len, padded_len, out_buf_size, out_len>>
  BY DEF XorByte, HostMask
<1>2. /\ clear_len \in Lengths \ {0} /\ padded_len = Padded(clear_len)
      /\ padded_len <= out_buf_size
      /\ \A k \in 1 .. padded_len :
           out_buf[k] = IF k <= i THEN Clear(k, MaskFor(clear_len)) ELSE Zero
  BY <1>1 DEF IInv, BufferInProgress
<1>3. /\ i \in Nat /\ clear_len \in Nat /\ out_buf_size \in Nat /\ padded_len \in Nat
      /\ DOMAIN out_buf = 1 .. out_buf_size
  BY LengthsAssumption DEF IInv, TypeOK
<1>4. ASSUME NEW k \in 1 .. padded_len
      PROVE  out_buf'[k] = IF k <= i + 1 THEN Clear(k, MaskFor(clear_len)) ELSE Zero
  <2>1. k \in DOMAIN out_buf
    BY <1>2, <1>3
  <2>2. CASE k = i + 1
    BY <1>1, <1>3, <2>1, <2>2
  <2>3. CASE k # i + 1
    BY <1>1, <1>2, <1>3, <2>1, <2>3
  <2> QED
    BY <2>2, <2>3
<1> QED
  BY <1>1, <1>2, <1>4 DEF BufferInProgress

\* What is sent is the finished packet.
LEMMA SendExact ==
  ASSUME IInv, Send
  PROVE  PacketExact'
<1>1. /\ pc = "send"
      /\ packet' = [wValue |-> clear_len, wLength |-> out_len,
                    data |-> [k \in 1 .. out_len |-> out_buf[k]]]
  BY DEF Send, TxSetup
<1>2. /\ i = clear_len /\ out_len = padded_len
      /\ \A k \in 1 .. padded_len :
           out_buf[k] = IF k <= i THEN Clear(k, MaskFor(clear_len)) ELSE Zero
  BY <1>1 DEF IInv, BufferInProgress
<1>3. [k \in 1 .. out_len |-> out_buf[k]] = Expected(clear_len, out_len)
  BY <1>2 DEF Expected
<1> QED
  BY <1>1, <1>3 DEF PacketExact

LEMMA StepIInv == IInv /\ [Next]_vars => IInv'
<1> SUFFICES ASSUME IInv, [Next]_vars PROVE IInv'
  OBVIOUS
<1>1. TypeOK'
  BY StepTypeOK DEF IInv
<1>2. PacketExact'
  <2>1. CASE Send
    BY <2>1, SendExact
  <2>2. CASE ~Send
    BY <2>2 DEF Next, InvalidParam, Call, XorByte, Return, vars, IInv, PacketExact
  <2> QED
    BY <2>1, <2>2
<1>3. BufferInProgress'
  <2>1. CASE InvalidParam
    BY <2>1 DEF InvalidParam, BufferInProgress
  <2>2. CASE Call
    BY <1>1, <2>2, CallStarts
  <2>3. CASE XorByte
    BY <1>1, <2>3, XorContinues
  <2>4. CASE Return
    BY <2>4 DEF Return, IInv, BufferInProgress
  <2>5. CASE Send
    BY <2>5 DEF Send, BufferInProgress
  <2>6. CASE UNCHANGED vars
    BY <2>6 DEF vars, IInv, BufferInProgress
  <2> QED
    BY <2>1, <2>2, <2>3, <2>4, <2>5, <2>6 DEF Next
<1> QED
  BY <1>1, <1>2, <1>3 DEF IInv

THEOREM InductiveInvariant == Spec => []IInv
  BY InitIInv, StepIInv, PTL DEF Spec

\* Neither memset nor the loop leaves the caller's buffer.
THEOREM StaysInBuffer == Spec => []WritesInBounds
<1>1. IInv => WritesInBounds
  <2> SUFFICES ASSUME IInv, pc # "caller"
               PROVE  clear_len <= padded_len /\ padded_len <= out_buf_size
    BY DEF WritesInBounds
  <2>1. clear_len \in Lengths /\ padded_len = Padded(clear_len) /\ padded_len <= out_buf_size
    BY DEF IInv, BufferInProgress
  <2>2. clear_len + Overhead <= Padded(clear_len) /\ Padded(clear_len) \in Nat
    BY <2>1, PaddedIs
  <2> QED
    BY <2>1, <2>2, UnitAssumption, LengthsAssumption
<1> QED
  BY <1>1, InductiveInvariant, PTL

\* Every packet is the fragment its header announces and nothing else.
THEOREM PacketsExact == Spec => []PacketExact
<1>1. IInv => PacketExact
  BY DEF IInv
<1> QED
  BY <1>1, InductiveInvariant, PTL

(***************************************************************************)
(* Which fragments are refused.                                            *)
(***************************************************************************)

\* What a result says of the call that gave it.
Decided ==
  /\ result = "BUFFER_TOO_SMALL" => PaddedLength(clear_len, out_buf_size) = 0
  /\ result = "OK" => /\ clear_len \in Lengths \ {0}
                      /\ out_len = Padded(clear_len) /\ out_len <= out_buf_size

LEMMA StepDecided == IInv /\ Decided /\ [Next]_vars => Decided'
<1> SUFFICES ASSUME IInv, Decided, [Next]_vars PROVE Decided'
  OBVIOUS
<1>1. CASE InvalidParam
  BY <1>1 DEF InvalidParam, Decided
<1>2. CASE Call
  <2>1. PICK c \in Lengths : Obfuscate(c)
    BY <1>2 DEF Call
  <2>2. clear_len' = c /\ out_buf_size' = out_buf_size
    BY <1>2, <2>1 DEF Call, Obfuscate
  <2>3. \/ result' = "BUFFER_TOO_SMALL" /\ PaddedLength(c, out_buf_size) = 0
        \/ result' = "none"
    BY <2>1 DEF Obfuscate
  <2> QED
    BY <2>2, <2>3 DEF Decided
<1>3. CASE XorByte
  BY <1>3 DEF XorByte, Decided
<1>4. CASE Return
  BY <1>4 DEF Return, Decided, IInv, BufferInProgress
<1>5. CASE Send \/ UNCHANGED vars
  BY <1>5 DEF Send, vars, Decided
<1> QED
  BY <1>1, <1>2, <1>3, <1>4, <1>5 DEF Next

\* A multiple of Unit no smaller than a fragment is no smaller than the one its
\* packet uses.
LEMMA LeastUnits ==
  ASSUME NEW c \in Lengths, NEW n \in Nat, n % Unit = 0, c <= n
  PROVE  Padded(c) - Overhead <= n
<1> DEFINE least == (c + Unit - 1) \div Unit
           m == n \div Unit
<1>1. c \in Nat /\ Unit \in Nat /\ Unit >= 1 /\ Overhead \in Nat
  BY UnitAssumption, LengthsAssumption
<1>2. m \in Nat /\ n = Unit * m
  BY <1>1
<1>3. least \in Nat /\ (c <= m * Unit => least <= m)
  BY <1>1, <1>2, RoundUp
<1>4. Padded(c) = least * Unit + Overhead
  BY PaddedIs
<1> HIDE DEF least, m
<1>5. n = m * Unit /\ least <= m
  BY <1>1, <1>2, <1>3
<1>6. PICK d \in Nat : m = least + d
  <2>1. m - least \in Nat /\ m = least + (m - least)
    BY <1>2, <1>3, <1>5
  <2> QED
    BY <2>1
<1>7. n = least * Unit + d * Unit /\ d * Unit \in Nat /\ least * Unit \in Nat
  BY <1>1, <1>3, <1>5, <1>6
<1> QED
  BY <1>1, <1>4, <1>7

\* The packet uses a multiple of Unit.
LEMMA UsesUnits ==
  ASSUME NEW c \in Lengths
  PROVE  (Padded(c) - Overhead) % Unit = 0
<1> DEFINE n == (c + Unit - 1) \div Unit
           q == (n * Unit) \div Unit
           r == (n * Unit) % Unit
<1>1. c \in Nat /\ Unit \in Nat /\ Unit >= 1 /\ Overhead \in Nat
  BY UnitAssumption, LengthsAssumption
<1>2. n \in Nat /\ Padded(c) = n * Unit + Overhead
  BY <1>1, PaddedIs, RoundUp
<1> HIDE DEF n
<1>3. n * Unit \in Nat
  BY <1>1, <1>2
<1>4. q \in Nat /\ r \in 0 .. (Unit - 1) /\ n * Unit = Unit * q + r
  BY <1>1, <1>3
<1> HIDE DEF q, r
<1>5. r = Unit * (n - q)
  BY <1>1, <1>2, <1>4
<1>6. n - q \in Int
  BY <1>2, <1>4
<1>7. n - q <= 0
  <2>1. SUFFICES ASSUME n - q >= 1 PROVE FALSE
    BY <1>6
  <2>2. Unit * (n - q) >= Unit
    BY <1>1, <1>6, <2>1
  <2> QED
    BY <1>1, <1>4, <1>5, <2>2
<1>8. n - q >= 0
  <2>1. SUFFICES ASSUME n - q <= -1 PROVE FALSE
    BY <1>6
  <2>2. Unit * (n - q) <= -Unit
    BY <1>1, <1>6, <2>1
  <2> QED
    BY <1>1, <1>4, <1>5, <2>2
<1>9. r = 0
  BY <1>1, <1>5, <1>6, <1>7, <1>8
<1> QED
  BY <1>1, <1>2, <1>3, <1>9 DEF r

\* A fragment is refused just when it is empty or no padding fits the buffer,
\* and the packet of one that is not uses the least padding there is.
THEOREM RefusalsExact == Spec => []RefusedOnlyIfTooLong
<1>1. Init => Decided
  BY DEF Init, Decided
<1>2. ASSUME IInv, Decided PROVE RefusedOnlyIfTooLong
  <2> DEFINE units == {n \in 1 .. (out_buf_size - Overhead) : n % Unit = 0 /\ n >= clear_len}
  <2>1. /\ clear_len \in Lengths \cup {0} /\ out_buf_size \in Nat /\ Overhead \in Nat
        /\ Lengths \subseteq Nat
    BY <1>2, UnitAssumption, LengthsAssumption DEF IInv, TypeOK
  <2>2. ASSUME result = "BUFFER_TOO_SMALL", clear_len # 0
        PROVE  units = {}
    <3>1. clear_len \in Lengths /\ clear_len \in Nat \ {0}
      BY <2>1, <2>2
    <3>2. Padded(clear_len) \in Nat /\ Padded(clear_len) # 0
      BY <2>1, <3>1, PaddedIs
    <3>3. Padded(clear_len) > out_buf_size
      BY <1>2, <2>2, <3>1, <3>2 DEF Decided, PaddedLength
    <3>4. ASSUME NEW n \in units PROVE FALSE
      <4>1. n \in Nat /\ n % Unit = 0 /\ n >= clear_len /\ n <= out_buf_size - Overhead
        BY <2>1
      <4>2. Padded(clear_len) - Overhead <= n
        BY <3>1, <4>1, LeastUnits
      <4> QED
        BY <2>1, <3>2, <3>3, <4>1, <4>2
    <3> QED
      BY <3>4
  <2>3. ASSUME result = "OK"
        PROVE  out_len - Overhead \in units /\ \A n \in units : out_len - Overhead <= n
    <3>1. clear_len \in Lengths \ {0} /\ out_len = Padded(clear_len) /\ out_len <= out_buf_size
      BY <1>2, <2>3 DEF Decided
    <3>2. clear_len \in Nat /\ clear_len >= 1
      BY <2>1, <3>1
    <3>3. Padded(clear_len) \in Nat /\ clear_len + Overhead <= Padded(clear_len)
      BY <3>1, PaddedIs
    <3>4. (out_len - Overhead) % Unit = 0
      BY <3>1, UsesUnits
    <3>5. out_len - Overhead \in units
      BY <2>1, <3>1, <3>2, <3>3, <3>4
    <3>6. ASSUME NEW n \in units PROVE out_len - Overhead <= n
      <4>1. n \in Nat /\ n % Unit = 0 /\ n >= clear_len
        BY <2>1
      <4> QED
        BY <3>1, <4>1, LeastUnits
    <3> QED
      BY <3>5, <3>6
  <2> QED
    BY <2>2, <2>3 DEF RefusedOnlyIfTooLong
<1> QED
  BY <1>1, <1>2, StepDecided, InductiveInvariant, PTL DEF Spec
=============================================================================
