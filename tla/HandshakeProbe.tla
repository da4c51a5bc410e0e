--------------------------- MODULE HandshakeProbe ---------------------------
(***************************************************************************)
(* tools/linux/aladin_handshake_probe.c: a fixed list of steps, each an    *)
(* OUT transfer (two speed requests, then test frames) followed by a fixed *)
(* number of polls whose data are decoded and printed, as far as hex_dump  *)
(* goes, under that step.                                                  *)
(* Nobody waits for an answer: what comes in late is printed under a later *)
(* step, and the mask counter runs on from step to step.                   *)
(*                                                                         *)
(* The dongle (external) fills slots as in RxMonitor.  Each slot has an    *)
(* origin: the step it answers, or 0 for light nobody asked for.           *)
(***************************************************************************)
EXTENDS ProbeSession

CONSTANTS
  RawSize,    \* RX_BUF_SIZE: 255
  Steps       \* 8: two speed requests and six frames

ASSUME HandshakeAssumption == RawSize \in Nat \ {0} /\ Steps \in Nat \ {0}

\* pc is "open", "send", "poll" or "closed"; what was decoded is [slot, ok, step].
VARIABLES
  slots,      \* dongle: the origin of every slot it filled since the program began
  delivered,  \* dongle: the steps whose OUT transfer it got
  step, polls,   \* as in main; polls counts those left for this step
  attempts,   \* history: the steps whose transfer was tried
  lost        \* history: slots that went with a failed poll

dongleSide == <<slots, before, taken, delivered>>
handshakevars == <<slots, before, taken, delivered, pc, step, polls, rx_state, decoded, cut, attempts, lost>>

Unread == Len(slots) - taken
DongleMask(slot) == (before + slot) % Modulus

HandshakeInit ==
  /\ slots = <<>> /\ before \in 0 .. (Modulus - 1) /\ taken = 0 /\ delivered = {}
  /\ pc = "open" /\ step = 0 /\ polls = 0 /\ rx_state = 0
  /\ decoded = <<>> /\ cut = {} /\ attempts = <<>> /\ lost = 0

\* A byte comes in: an answer to any step the dongle sent out, or stray light.
Answer ==
  /\ Len(slots) < MaxSlots /\ Unread < FifoSize
  /\ \E origin \in delivered \cup {0} : slots' = Append(slots, origin)
  /\ UNCHANGED <<before, taken, delivered, pc, step, polls, rx_state, decoded, cut, attempts, lost>>

-----------------------------------------------------------------------------
\* open_ks959 and the start of main, where step is counted before it is sent.
Open ==
  /\ pc = "open"
  /\ \/ pc' = "send" /\ step' = 1
     \/ pc' = "closed" /\ UNCHANGED step         \* no device: exit at once
  /\ UNCHANGED <<dongleSide, polls, rx_state, decoded, cut, attempts, lost>>

\* What is tried next when a transfer fails: nothing is said about its result.
AfterFailure_Exit == "closed"
AfterFailure == "poll"

MaskForStep_Fresh == 0
MaskForStep == rx_state

\* ks959_send_out8_9600 or ks959_send_fragment; the result is ignored, and the
\* dongle may have got a transfer that was reported as failed.
Send ==
  /\ pc = "send"
  /\ attempts' = Append(attempts, step)
  /\ \/ delivered' = delivered \cup {step} /\ pc' = "poll"
     \/ delivered' \in {delivered, delivered \cup {step}} /\ pc' = AfterFailure
  /\ polls' = Polls /\ rx_state' = MaskForStep
  /\ UNCHANGED <<slots, before, taken, step, decoded, cut, lost>>

\* ks959_rx_decode_chunk on slots taken + 1 .. taken + n, byte by byte: dec is
\* as large as raw, so none is cut off.
MaskAfter(n) == (rx_state + n) % Modulus
Byte(k, label) ==
  [slot |-> taken + k, step |-> label, ok |-> MaskAfter(k) = DongleMask(taken + k)]
Decode(n, label) ==
  LET dec[k \in 0 .. n] ==
        IF k = 0 THEN <<>>
        ELSE IF MaskAfter(k) = 0 THEN dec[k - 1]
        ELSE Append(dec[k - 1], Byte(k, label))
  IN dec[n]

Label_OfNextStep == step - 1
Label == step

\* One poll of poll_after_step: an error, nothing, or a chunk.
StepPollError ==
  /\ pc = "poll" /\ polls > 0
  /\ \E n \in 0 .. Least(Unread, RawSize) : taken' = taken + n /\ lost' = lost + n
  /\ polls' = polls - 1
  /\ UNCHANGED <<slots, before, delivered, pc, step, rx_state, decoded, cut, attempts>>

StepPollIdle ==
  /\ pc = "poll" /\ polls > 0 /\ Unread = 0
  /\ polls' = polls - 1
  /\ UNCHANGED <<dongleSide, pc, step, rx_state, decoded, cut, attempts, lost>>

StepPollData ==
  /\ pc = "poll" /\ polls > 0
  /\ \E n \in 1 .. Least(Unread, RawSize) :
       /\ taken' = taken + n /\ rx_state' = MaskAfter(n)
       /\ ShowDecoded(Decode(n, Label))
  /\ polls' = polls - 1
  /\ UNCHANGED <<slots, before, delivered, pc, step, attempts, lost>>

EndStep_WhenAnswered ==
  /\ pc = "poll" /\ polls = 0
  /\ \E k \in DOMAIN decoded : decoded[k].step = step
  /\ IF step < Steps THEN pc' = "send" /\ step' = step + 1
                     ELSE pc' = "closed" /\ UNCHANGED step
  /\ UNCHANGED <<dongleSide, polls, rx_state, decoded, cut, attempts, lost>>

\* The polls of this step are over: the next step, or close_ks959.
EndStep ==
  /\ pc = "poll" /\ polls = 0
  /\ IF step < Steps THEN pc' = "send" /\ step' = step + 1
                     ELSE pc' = "closed" /\ UNCHANGED step
  /\ UNCHANGED <<dongleSide, polls, rx_state, decoded, cut, attempts, lost>>

Handshake == Open \/ Send \/ StepPollError \/ StepPollIdle \/ StepPollData \/ EndStep

HandshakeNext == Answer \/ Handshake

HandshakeSpec == HandshakeInit /\ [][HandshakeNext]_handshakevars

\* Every transfer carries TIMEOUT_MS and msleep ends.
HandshakeFairSpec == HandshakeSpec /\ WF_handshakevars(Handshake)

-----------------------------------------------------------------------------
(* Properties *)

\* No byte is decoded, let alone printed, under a step earlier than the one it
\* answers (under a later one it may be).
NotBeforeItsStep ==
  \A k \in DOMAIN decoded : slots[decoded[k].slot] <= decoded[k].step

\* Across all the steps the decoder is one session: if no poll failed, what is
\* decoded is every slot taken, in order, but for those where the count that
\* began at 0 wraps; they are decoded right exactly when the dongle's count
\* began at 0 too.  Of that, what is not printed is the ends of chunks longer
\* than hex_dump goes, and nothing else.
OneSession ==
  /\ lost = 0 =>
       /\ DataSlots(decoded, 0, taken)
       /\ \A k \in DOMAIN decoded : decoded[k].ok <=> before = 0
  /\ TailsOnly(cut, RawSize)

\* The program ends, however the transfers fare, and if it got the device it
\* has by then tried every step, each once and in order.
TriesAllAndEnds ==
  <>(pc = "closed" /\ (attempts = <<>> \/ attempts = [k \in 1 .. Steps |-> k]))
=============================================================================
