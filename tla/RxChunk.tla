------------------------------ MODULE RxChunk -------------------------------
(***************************************************************************)
(* ks959_proto_deobfuscate_rx_chunk of libks959/ks959_proto.c, in the      *)
(* hands of any caller.  The library has no caller for it yet              *)
(* (ks959_receive is a stub), so the caller (external) is what the         *)
(* contract in ks959_proto.h allows: it feeds the chunks of one session in *)
(* the order they came, with an out_buf of any size, and when told         *)
(* BUFFER_TOO_SMALL it gives the chunk up or hands it in again.            *)
(*                                                                         *)
(* Slots, masks and decoded bytes are those of RxMonitor.                  *)
(***************************************************************************)
EXTENDS Mask, FiniteSets

CONSTANTS
  MaxIn,     \* bound: bytes in one chunk
  MaxOut,    \* bound: out_buf_size
  MaxSlots   \* bound: bytes received in one session

ASSUME ChunkAssumption ==
  MaxIn \in Nat \ {0} /\ MaxOut \in Nat /\ MaxSlots \in Nat

VARIABLES
  pc,                \* "caller", or "loop" inside the function
  variable_xormask,  \* the session state
  given,             \* bytes of the session received so far
  in_len,            \* bytes in the last chunk: slots given - in_len + 1 .. given
  out_buf_size,
  i,
  out_buf,           \* bytes stored by this call; produced = Len(out_buf)
  out_len,           \* the caller's *out_len
  result,            \* what the last call returned
  entry,             \* history: variable_xormask when the call was made
  off                \* history: how far the mask runs ahead of the slots, mod Modulus

state == <<variable_xormask, off>>
session == <<given, in_len>>
locals == <<out_buf_size, i, out_buf, entry>>
vars == <<pc, variable_xormask, given, in_len, out_buf_size, i, out_buf, out_len,
          result, entry, off>>

Init ==
  /\ pc = "caller" /\ result = "none"
  /\ variable_xormask = 0 /\ given = 0 /\ in_len = 0 /\ off = 0
  /\ out_buf_size = 0 /\ i = 0 /\ out_buf = <<>> /\ entry = 0
  /\ out_len = 0

-----------------------------------------------------------------------------
(* The caller *)

\* A new session: ks959_proto_rx_state_init, with the dongle's count at zero.
RxStateInit_NoReset ==
  /\ pc = "caller"
  /\ given' = 0 /\ in_len' = 0 /\ result' = "none"
  /\ off' = 0
  /\ UNCHANGED <<pc, variable_xormask, locals, out_len>>

RxStateInit ==
  /\ pc = "caller"
  /\ variable_xormask' = 0
  /\ given' = 0 /\ in_len' = 0 /\ result' = "none"
  /\ off' = 0
  /\ UNCHANGED <<pc, locals, out_len>>

Begin ==
  /\ pc' = "loop" /\ i' = 0 /\ out_buf' = <<>> /\ entry' = variable_xormask
  /\ result' = "none" /\ UNCHANGED out_len
  /\ out_buf_size' \in 0 .. MaxOut

\* The bytes a call that failed did not look at were never counted; a caller
\* that goes on to the next chunk leaves the mask behind by as many.
CutShort == i < in_len
Uncounted == IF CutShort THEN in_len - (i + 1) ELSE 0

NextChunk ==
  /\ pc = "caller"
  /\ \E n \in 1 .. MaxIn :
       /\ given + n <= MaxSlots
       /\ given' = given + n /\ in_len' = n
  /\ off' = (off + Uncounted * (Modulus - 1)) % Modulus
  /\ Begin
  /\ UNCHANGED variable_xormask

\* The same chunk once more: the i + 1 bytes already counted count again.
Retry ==
  /\ pc = "caller" /\ CutShort
  /\ off' = (off + i + 1) % Modulus
  /\ Begin
  /\ UNCHANGED <<variable_xormask, session>>

-----------------------------------------------------------------------------
(* The function *)

\* A null pointer among the arguments: nothing is touched.
InvalidParam ==
  /\ pc = "caller"
  /\ result' = "INVALID_PARAM"
  /\ UNCHANGED <<pc, state, session, locals, out_len>>

ByteAt(slot, mask) == [slot |-> slot, ok |-> mask = slot % Modulus]

TooMany_OffByOne(n) == n > out_buf_size
TooMany(n) == n >= out_buf_size

\* variable_xormask++ on a uint8_t
NextMask(m) == (m + 1) % Modulus

DecodeByte_RoomFirst ==
  /\ pc = "loop" /\ i < in_len
  /\ LET mask == NextMask(variable_xormask)
         slot == given - in_len + i + 1
     IN IF TooMany(Len(out_buf))
        THEN /\ pc' = "caller" /\ result' = "BUFFER_TOO_SMALL"
             /\ UNCHANGED <<out_buf, i, variable_xormask>>
        ELSE /\ i' = i + 1 /\ variable_xormask' = mask
             /\ out_buf' = IF mask = 0 THEN out_buf ELSE Append(out_buf, ByteAt(slot, mask))
             /\ UNCHANGED <<pc, result>>
  /\ UNCHANGED <<off, session, out_buf_size, entry, out_len>>

\* One turn of the loop; the mask has moved before room is looked for.
DecodeByte ==
  /\ pc = "loop" /\ i < in_len
  /\ LET mask == NextMask(variable_xormask)
         slot == given - in_len + i + 1
     IN /\ variable_xormask' = mask
        /\ IF mask # 0 /\ TooMany(Len(out_buf))
           THEN /\ pc' = "caller" /\ result' = "BUFFER_TOO_SMALL"
                /\ UNCHANGED <<out_buf, i>>
           ELSE /\ i' = i + 1
                /\ out_buf' = IF mask = 0 THEN out_buf ELSE Append(out_buf, ByteAt(slot, mask))
                /\ UNCHANGED <<pc, result>>
  /\ UNCHANGED <<off, session, out_buf_size, entry, out_len>>

Done ==
  /\ pc = "loop" /\ i = in_len
  /\ out_len' = Len(out_buf)
  /\ result' = "OK" /\ pc' = "caller"
  /\ UNCHANGED <<state, session, locals>>

Next == RxStateInit \/ NextChunk \/ Retry \/ InvalidParam \/ DecodeByte \/ Done

Spec == Init /\ [][Next]_vars

-----------------------------------------------------------------------------
(* Properties *)

\* The function never stores past out_buf_size, and never at or past a byte of
\* in_buf it has still to read: decoding a chunk in place is safe.
StaysBehindReads ==
  pc = "loop" => Len(out_buf) <= out_buf_size /\ Len(out_buf) <= i

\* Bytes of a chunk of n that are kept when the mask starts at m.
Kept(m, n) == Cardinality({k \in 1 .. n : (m + k) % Modulus # 0})

\* A call fails exactly when the bytes it would keep do not fit, and then it
\* has counted the one that did not fit and none of those behind it; a call
\* that succeeds has counted them all and reports what it kept.
ResultExact ==
  /\ result = "BUFFER_TOO_SMALL" =>
       /\ Kept(entry, in_len) > out_buf_size
       /\ Kept(entry, i + 1) = out_buf_size + 1
       /\ variable_xormask = (entry + i + 1) % Modulus
  /\ result = "OK" =>
       /\ Kept(entry, in_len) = out_len /\ out_len <= out_buf_size
       /\ variable_xormask = (entry + in_len) % Modulus

\* A byte is decoded right exactly when the mask is level with the slots: after
\* a failed call neither the next chunk nor the same one again comes out right
\* (unless what was miscounted is a multiple of the period).
DecodedRightIffLevel ==
  [][Len(out_buf') > Len(out_buf) => (out_buf'[Len(out_buf')].ok <=> off = 0)]_vars

\* ks959_proto.h: the mask is incremented for every received byte.  Between
\* calls it would then be the number of bytes received in the session.
MaskCountsReceivedBytes ==
  pc = "caller" => variable_xormask = given % Modulus
=============================================================================
