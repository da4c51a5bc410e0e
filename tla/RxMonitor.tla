----------------------------- MODULE RxMonitor ------------------------------
(***************************************************************************)
(* The receive path as tools/linux/ks959_rx_monitor.c runs it: a program   *)
(* polls the dongle with class control transfers, undoes the running XOR   *)
(* mask byte by byte and prints what it decoded, of a long chunk only the  *)
(* beginning, until SIGINT.                                                *)
(*                                                                         *)
(* The dongle (external) puts received bytes in numbered slots 1, 2, ...   *)
(* and obfuscates slot n with the mask n % Modulus; a slot whose mask is 0 *)
(* carries no data and the host must drop it.  The host has no slot        *)
(* numbers: it recovers the mask by counting bytes in rx_state.  A decoded *)
(* byte is [slot, ok]: the slot it came from and whether the host's mask   *)
(* was the dongle's, so that XOR gave the clear byte back.                 *)
(***************************************************************************)
EXTENDS Mask, HexDump

CONSTANTS
  RawSize,        \* bytes asked for by one poll: sizeof raw_buf
  OutSize,        \* capacity of dec_buf
  FifoSize,       \* bytes the dongle can hold for the host
  MaxSlots,       \* bound: slots the dongle fills before a reset
  TransferFails,  \* can a poll fail, and lose what it was carrying?
  ResetChoices    \* may the dongle restart its count when it is opened?

ASSUME SizesAssumption ==
  /\ RawSize \in Nat \ {0} /\ OutSize \in Nat /\ FifoSize \in Nat /\ MaxSlots \in Nat
  /\ RawSize <= OutSize   \* raw_buf and dec_buf are both RX_BUF_SIZE long
ASSUME ChoicesAssumption == TransferFails \in BOOLEAN /\ ResetChoices \subseteq BOOLEAN

VARIABLES
  emitted,   \* dongle: slots filled since its count was zero
  taken,     \* dongle: slots handed to a control transfer, lost ones included
  pc,        \* host: where main is
  g_stop,    \* host: set by the SIGINT handler
  rx_state,  \* host: the mask counter of ks959_rx_decode_chunk
  raw,       \* host: slots in raw_buf: [first, len]
  i,         \* host: loop index of ks959_rx_decode_chunk
  dec_buf,   \* host: bytes decoded from this chunk; produced = Len(dec_buf)
  decoded,   \* history: bytes of the chunks this session decoded
  cut,       \* history: positions of decoded that were not printed
  skew       \* history: slots taken that rx_state did not count

dongle == <<emitted, taken>>
chunk == <<raw, i, dec_buf>>
vars == <<emitted, taken, pc, g_stop, rx_state, raw, i, dec_buf, decoded, cut, skew>>

Pending == emitted - taken
Least(a, b) == IF a <= b THEN a ELSE b

NextMask_NoWrap(m) == m + 1
NextMask(m) == (m + 1) % Modulus     \* (*state)++ on a uint8_t

Dropped_Never(m) == FALSE
Dropped(m) == m = 0                  \* a slot without data

Asked_WholeFifo == FifoSize
Asked == RawSize                     \* wLength of a poll

\* What XOR with the host's mask makes of the byte in a slot.
ByteAt(slot, mask) == [slot |-> slot, ok |-> mask = slot % Modulus]

FirstMask_Kept == rx_state
FirstMask == 0                       \* rx_state as main declares it

Init ==
  /\ emitted = 0 /\ taken = 0
  /\ pc = "off" /\ g_stop = FALSE /\ rx_state = 0
  /\ raw = [first |-> 1, len |-> 0] /\ i = 0 /\ dec_buf = <<>>
  /\ decoded = <<>> /\ cut = {} /\ skew = 0

-----------------------------------------------------------------------------
(* The dongle *)

\* The dongle obfuscates one more slot into its FIFO.
Emit ==
  /\ emitted < MaxSlots
  /\ Pending < FifoSize
  /\ emitted' = emitted + 1
  /\ UNCHANGED <<taken, pc, g_stop, rx_state, chunk, decoded, cut, skew>>

-----------------------------------------------------------------------------
(* The program *)

\* main up to the end of open_ks959: fresh locals, g_stop cleared by loading
\* the program; a failed open exits at once.  Whether the dongle restarts its
\* count is its own business: the host cannot ask.
Open ==
  /\ pc = "off"
  /\ rx_state' = FirstMask /\ g_stop' = FALSE
  /\ raw' = [first |-> 1, len |-> 0] /\ i' = 0 /\ dec_buf' = <<>>
  /\ decoded' = <<>> /\ cut' = {}
  /\ pc' = "preinit"
  /\ \E reset \in ResetChoices :
       /\ emitted' = IF reset THEN 0 ELSE emitted
       /\ taken' = IF reset THEN 0 ELSE taken
       /\ skew' = IF reset THEN 0 ELSE taken

\* send_default_preinit_sequence: two OUT transfers whose results are ignored,
\* or none when the user passed do_preinit = 0; g_stop is not looked at.
Preinit ==
  /\ pc = "preinit"
  /\ pc' = "loop"
  /\ UNCHANGED <<dongle, g_stop, rx_state, chunk, decoded, cut, skew>>

\* The handler may run between any two steps.
OnSigint ==
  /\ pc # "off"
  /\ g_stop' = TRUE
  /\ UNCHANGED <<dongle, pc, rx_state, chunk, decoded, cut, skew>>

PollData_NewMask ==
  /\ pc = "loop" /\ ~g_stop
  /\ \E n \in 1 .. Least(Pending, Asked) :
       /\ raw' = [first |-> taken + 1, len |-> n]
       /\ taken' = taken + n
  /\ i' = 0 /\ dec_buf' = <<>>
  /\ pc' = "decode"
  /\ rx_state' = 0
  /\ UNCHANGED <<emitted, g_stop, decoded, cut, skew>>

\* A poll that returns bytes: at most what was asked for, and something when
\* the dongle has something.
PollData ==
  /\ pc = "loop" /\ ~g_stop
  /\ \E n \in 1 .. Least(Pending, Asked) :
       /\ raw' = [first |-> taken + 1, len |-> n]
       /\ taken' = taken + n
  /\ i' = 0 /\ dec_buf' = <<>>
  /\ pc' = "decode"
  /\ UNCHANGED <<emitted, g_stop, rx_state, decoded, cut, skew>>

\* ret == 0: sleep and poll again.
PollIdle ==
  /\ pc = "loop" /\ ~g_stop
  /\ Pending = 0
  /\ UNCHANGED vars

\* ret < 0: the error is printed, rx_state is left as it is and the loop goes
\* on; up to a whole buffer may have left the dongle in the failed transfer.
PollError ==
  /\ TransferFails
  /\ pc = "loop" /\ ~g_stop
  /\ \E k \in 0 .. Least(Pending, Asked) :
       taken' = taken + k /\ skew' = skew + k
  /\ UNCHANGED <<emitted, pc, g_stop, rx_state, chunk, decoded, cut>>

\* One turn of the loop of ks959_rx_decode_chunk: count the byte, drop it when
\* the mask is 0, leave the loop when out_buf is full, store it otherwise.
DecodeByte ==
  /\ pc = "decode" /\ i < raw.len
  /\ LET mask == NextMask(rx_state)
         slot == raw.first + i
         full == ~Dropped(mask) /\ Len(dec_buf) >= OutSize
     IN /\ rx_state' = mask
        /\ dec_buf' = IF Dropped(mask) \/ full THEN dec_buf
                      ELSE Append(dec_buf, ByteAt(slot, mask))
        /\ i' = IF full THEN raw.len ELSE i + 1
        /\ skew' = IF full THEN skew + (raw.len - i - 1) ELSE skew
  /\ UNCHANGED <<dongle, pc, g_stop, raw, decoded, cut>>

\* The chunk is decoded: print what hex_dump prints of dec_buf, sleep, test
\* g_stop again.
ShowChunk ==
  /\ pc = "decode" /\ i = raw.len
  /\ decoded' = decoded \o dec_buf
  /\ cut' = cut \cup LeftOut(Len(decoded), dec_buf)
  /\ dec_buf' = <<>>
  /\ pc' = "loop"
  /\ UNCHANGED <<dongle, g_stop, rx_state, raw, i, skew>>

Close_WhenIdle ==
  /\ pc = "loop" /\ g_stop /\ Pending = 0
  /\ pc' = "off"
  /\ UNCHANGED <<dongle, g_stop, rx_state, chunk, decoded, cut, skew>>

\* g_stop seen: close_ks959 and exit.
Close ==
  /\ pc = "loop" /\ g_stop
  /\ pc' = "off"
  /\ UNCHANGED <<dongle, g_stop, rx_state, chunk, decoded, cut, skew>>

Host == Preinit \/ PollData \/ PollIdle \/ PollError \/ DecodeByte \/ ShowChunk \/ Close

Next == Emit \/ Open \/ OnSigint \/ Host

Spec == Init /\ [][Next]_vars

-----------------------------------------------------------------------------
(* Fairness: every libusb call carries TIMEOUT_MS and nanosleep ends, so the *)
(* program always gets on; the user owes it neither a start nor a SIGINT.    *)

Fairness == WF_vars(Host)
FairSpec == Spec /\ Fairness

-----------------------------------------------------------------------------
(* Properties *)

Bytes == [slot : Nat \ {0}, ok : BOOLEAN]

TypeOK ==
  /\ emitted \in Nat /\ taken \in Nat /\ taken <= emitted
  /\ pc \in {"off", "preinit", "loop", "decode"}
  /\ g_stop \in BOOLEAN
  /\ rx_state \in 0 .. (Modulus - 1)
  /\ raw \in [first : Nat \ {0}, len : 0 .. RawSize]
  /\ i \in 0 .. raw.len
  /\ dec_buf \in Seq(Bytes) /\ decoded \in Seq(Bytes)
  /\ cut \subseteq 1 .. Len(decoded)
  /\ skew \in Nat

\* Slots ks959_rx_decode_chunk is done with, or that it will never see.
Behind == taken - (IF pc = "decode" THEN raw.len - i ELSE 0)

\* The mask counter is where the slots this session counted leave it: neither
\* the chunking of the polls nor an idle or failed poll moves it.
MaskFollowsPosition == rx_state = (Behind - skew) % Modulus

\* The out_buf_size test of ks959_rx_decode_chunk never ends the loop early:
\* no byte of a chunk is left uncounted for want of room in dec_buf.
RoomForEveryByte == pc = "decode" /\ i < raw.len => Len(dec_buf) < OutSize

\* Among slots 1 .. n, those that carry data; data slot n is byte DataNo(n).
DataNo(n) == n - (n \div Modulus)

SoFar == decoded \o dec_buf

\* What was decoded while rx_state has counted every slot since the dongle's
\* count was zero.
DecodesClear ==
  skew = 0 =>
    /\ Len(SoFar) = DataNo(Behind)
    /\ \A k \in 1 .. Len(SoFar) : SoFar[k].ok /\ DataNo(SoFar[k].slot) = k

OnlyTailsLeftOut == TailsOnly(cut, RawSize)

\* While no slot was missed, what the session decoded is the clear stream: every
\* data byte up to the host's position, once, in order, decoded right, and no
\* filler.  Of what was decoded, always, the user is shown every chunk from its
\* first byte on: a byte is not printed only behind DumpMax bytes printed of the
\* chunk it is in, and never a longer piece than a poll can carry beyond those.
InSync == DecodesClear /\ OnlyTailsLeftOut

\* dec_buf holds bytes of the chunk in raw_buf, which ends where the dongle is.
ChunkFits ==
  /\ pc = "decode" => raw.first + raw.len = taken + 1 /\ Len(dec_buf) <= i
  /\ pc # "decode" => dec_buf = <<>>

\* The inductive invariant of RxMonitorProofs.
IInv == TypeOK /\ ChunkFits /\ MaskFollowsPosition /\ DecodesClear /\ OnlyTailsLeftOut

\* A byte is decoded right exactly when the slots the host missed are a
\* multiple of the mask's period: after any other loss everything that follows
\* in the session is wrong, and nothing brings it back.
DecodeExact ==
  [][Len(dec_buf') > Len(dec_buf) =>
       (dec_buf'[Len(dec_buf')].ok <=> skew % Modulus = 0)]_vars

\* A session that got SIGINT ends, whatever the dongle does.
StopEnds == g_stop ~> pc = "off"

\* What the session decoded as RxStream sees it: the number of the clear byte, 0
\* for one that came out wrong, and whether it was printed.
Delivered ==
  [k \in 1 .. Len(decoded) |->
     [byte |-> IF decoded[k].ok THEN DataNo(decoded[k].slot) ELSE 0, shown |-> k \notin cut]]

Clear == INSTANCE RxStream WITH
  sent <- DataNo(emitted), delivered <- Delivered, stopping <- g_stop \/ pc = "off"

\* With a dongle that restarts its count at open and polls that do not fail,
\* a session delivers the clear stream of RxStream, of each chunk the first
\* DumpMax bytes in print, and goes on delivering.
DeliversClearStream == Clear!Spec
=============================================================================
