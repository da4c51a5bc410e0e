----------------------------- MODULE TxFragment -----------------------------
(***************************************************************************)
(* The transmit path of libks959/ks959_proto.c: the padded length of a     *)
(* fragment, its obfuscation into a buffer the caller reuses, and the      *)
(* class OUT request that carries it (ks959_send_fragment of               *)
(* tools/linux/aladin_handshake_probe.c).  The dongle (external) finds the *)
(* clear length in wValue, derives the XOR mask from it as the host does,  *)
(* and drops the padding.  The probe has its own copy of the first two,    *)
(* the same but for its result: -1 whatever the reason.                    *)
(*                                                                         *)
(* A byte of the buffer is Stale (from before the call), Zero, or clear    *)
(* byte k under a mask.                                                    *)
(***************************************************************************)
EXTENDS Integers

CONSTANTS
  Unit,       \* fragments are padded to a multiple of it: 8
  Overhead,   \* KS959_TX_PADDED_OVERHEAD: 16
  SizeMod,    \* size_t wraps here: 2^64 or 2^32
  Lengths,    \* bound: clear lengths the caller tries
  Sizes       \* bound: sizes of the caller's out_buf

ASSUME UnitAssumption == Unit \in Nat \ {0} /\ Overhead \in Nat
ASSUME LengthsAssumption ==
  \* an object in memory is far smaller than size_t allows
  /\ SizeMod \in Nat
  /\ Lengths \subseteq Nat /\ Sizes \subseteq Nat
  /\ \A c \in Lengths : c + Unit + Overhead <= SizeMod

VARIABLES
  pc,            \* "caller", "xor" in the loop, "send"
  clear_len, out_buf_size, padded_len, i,
  out_buf,       \* what each byte of the buffer holds
  out_len,       \* the caller's *out_len
  result,        \* what the last call returned
  packet         \* the last OUT request: [wValue, wLength, data]

vars == <<pc, clear_len, out_buf_size, padded_len, i, out_buf, out_len, result, packet>>

Stale == [from |-> -1, mask |-> "none"]
Zero == [from |-> 0, mask |-> "none"]
Clear(k, mask) == [from |-> k, mask |-> mask]

NoPacket == [wValue |-> 0, wLength |-> 0, data |-> <<>>]

-----------------------------------------------------------------------------
(* Lengths and masks *)

\* (clear_len + 7) & ~7, plus the overhead, in size_t
Padded_RoundDown(c) == ((c \div Unit) * Unit + Overhead) % SizeMod
Padded(c) == ((((c + Unit - 1) % SizeMod) \div Unit) * Unit + Overhead) % SizeMod

\* ks959_proto_get_tx_padded_length: 0 for nothing and for what does not fit.
PaddedLength_NoLimit(c, max) == IF c = 0 THEN 0 ELSE Padded(c)
PaddedLength(c, max) == IF c = 0 \/ Padded(c) > max THEN 0 ELSE Padded(c)

\* "wangshuofei19710", the string the mask byte is picked from.
LookupString ==
  <<"w", "a", "n", "g", "s", "h", "u", "o", "f", "e", "i", "1", "9", "7", "1", "0">>

\* k ^ 6 for k in 0 .. 15
FlipSix == [k \in 0 .. 15 |-> (k \div 8) * 8 + (<<6, 7, 4, 5, 2, 3, 0, 1>>)[(k % 8) + 1]]

\* lookup_string[(len & 15) ^ 6]; the constant ^ 0x55 tells no masks apart.
MaskFor(len) == LookupString[FlipSix[len % 16] + 1]

HostMask(len) == MaskFor(len)

-----------------------------------------------------------------------------
(* The code *)

Init ==
  /\ pc = "caller" /\ result = "none"
  /\ clear_len = 0 /\ padded_len = 0 /\ i = 0 /\ out_len = 0
  /\ out_buf_size \in Sizes
  /\ out_buf = [k \in 1 .. out_buf_size |-> Stale]
  /\ packet = NoPacket

\* A null pointer: nothing is looked at.
InvalidParam ==
  /\ pc = "caller"
  /\ result' = "INVALID_PARAM"
  /\ UNCHANGED <<pc, clear_len, out_buf_size, padded_len, i, out_buf, out_len, packet>>

\* ks959_proto_obfuscate_tx_fragment, up to its loop: *out_len and out_buf are
\* left alone when the fragment does not fit; memset clears the packet.
Obfuscate_ClearsFragment(c) ==
  /\ clear_len' = c /\ i' = 0
  /\ padded_len' = PaddedLength(c, out_buf_size)
  /\ IF padded_len' = 0
     THEN result' = "BUFFER_TOO_SMALL" /\ UNCHANGED <<pc, out_buf>>
     ELSE /\ pc' = "xor" /\ result' = "none"
          /\ out_buf' = [k \in DOMAIN out_buf |-> IF k <= c THEN Zero ELSE out_buf[k]]

Obfuscate(c) ==
  /\ clear_len' = c /\ i' = 0
  /\ padded_len' = PaddedLength(c, out_buf_size)
  /\ IF padded_len' = 0
     THEN result' = "BUFFER_TOO_SMALL" /\ UNCHANGED <<pc, out_buf>>
     ELSE /\ pc' = "xor" /\ result' = "none"
          /\ out_buf' = [k \in DOMAIN out_buf |-> IF k <= padded_len' THEN Zero ELSE out_buf[k]]

Call ==
  /\ pc = "caller"
  /\ \E c \in Lengths : Obfuscate(c)
  /\ UNCHANGED <<out_buf_size, out_len, packet>>

XorByte ==
  /\ pc = "xor" /\ i < clear_len
  /\ out_buf' = [out_buf EXCEPT ![i + 1] = Clear(i + 1, HostMask(clear_len))]
  /\ i' = i + 1
  /\ UNCHANGED <<pc, clear_len, out_buf_size, padded_len, out_len, result, packet>>

Return ==
  /\ pc = "xor" /\ i = clear_len
  /\ out_len' = padded_len /\ result' = "OK" /\ pc' = "send"
  /\ UNCHANGED <<clear_len, out_buf_size, padded_len, i, out_buf, packet>>

\* The OUT request for a fragment; ks959_proto_build_tx_setup.
TxSetup(data) == [wValue |-> clear_len, wLength |-> out_len, data |-> data]

\* ks959_send_fragment after a successful obfuscation; the result of the
\* transfer is reported and ignored.  The buffer is then old memory again.
Send ==
  /\ pc = "send"
  /\ packet' = TxSetup([k \in 1 .. out_len |-> out_buf[k]])
  /\ out_buf' = [k \in 1 .. out_buf_size |-> Stale]
  /\ pc' = "caller"
  /\ UNCHANGED <<clear_len, out_buf_size, padded_len, i, out_len, result>>

Next == InvalidParam \/ Call \/ XorByte \/ Return \/ Send

Spec == Init /\ [][Next]_vars

-----------------------------------------------------------------------------
(* Properties *)

Masks == {LookupString[k] : k \in 1 .. 16}
Bytes == [from : Nat \cup {-1}, mask : Masks \cup {"none"}]

TypeOK ==
  /\ pc \in {"caller", "xor", "send"}
  /\ result \in {"none", "OK", "BUFFER_TOO_SMALL", "INVALID_PARAM"}
  /\ clear_len \in Lengths \cup {0} /\ out_buf_size \in Sizes
  /\ padded_len \in Nat /\ i \in 0 .. clear_len /\ out_len \in Nat
  /\ out_buf \in [1 .. out_buf_size -> Bytes]

\* memset and the loop stay inside the caller's buffer.
WritesInBounds ==
  pc # "caller" => clear_len <= padded_len /\ padded_len <= out_buf_size

\* What the dongle is told to expect: wValue clear bytes, each under the mask it
\* derives from wValue, and zeros up to wLength.
Expected(wValue, wLength) ==
  [k \in 1 .. wLength |-> IF k <= wValue THEN Clear(k, MaskFor(wValue)) ELSE Zero]

\* Every packet carries one whole fragment in order, under the mask its wValue
\* announces, padded with zeros: nothing of the buffer's earlier contents.
PacketExact ==
  packet # NoPacket => packet.data = Expected(packet.wValue, packet.wLength)

\* The part of the packet that is ready while the loop runs.
BufferInProgress ==
  pc # "caller" =>
    /\ clear_len \in Lengths \ {0} /\ padded_len = Padded(clear_len)
    /\ padded_len <= out_buf_size
    /\ \A k \in 1 .. padded_len :
         out_buf[k] = IF k <= i THEN Clear(k, MaskFor(clear_len)) ELSE Zero
    /\ pc = "send" => i = clear_len /\ out_len = padded_len

\* The inductive invariant of TxFragmentProofs.
IInv == TypeOK /\ BufferInProgress /\ PacketExact

\* A fragment is refused exactly when it is empty or no multiple of Unit that
\* holds it leaves room for the overhead; else the least such one is used.
RefusedOnlyIfTooLong ==
  LET units == {n \in 1 .. (out_buf_size - Overhead) : n % Unit = 0 /\ n >= clear_len}
  IN /\ result = "BUFFER_TOO_SMALL" => clear_len = 0 \/ units = {}
     /\ result = "OK" => /\ out_len - Overhead \in units
                         /\ \A n \in units : out_len - Overhead <= n
=============================================================================
