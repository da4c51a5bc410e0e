---------------------------- MODULE LibusbProbe -----------------------------
(***************************************************************************)
(* tools/linux/ks959_libusb_probe.c: one speed request, then a number of   *)
(* polls whose bytes are decoded in the buffer they came in and printed as *)
(* far as hex_dump goes.  Unlike the other tools it gives up at the first  *)
(* call that fails, releases what the list for that place in main names,   *)
(* and tells by its exit status whether all went well.                     *)
(*                                                                         *)
(* The dongle (external) fills slots as in RxMonitor, from whatever count  *)
(* it has.  A byte of the buffer is [slot, as]: the slot it came from, and *)
(* whether it is raw, clear, or garbled by a mask that was not its own.    *)
(***************************************************************************)
EXTENDS ProbeSession

CONSTANT RxLength  \* KS959_RX_LENGTH: 2048

ASSUME ProbeAssumption == RxLength \in Nat

\* pc is the call main is about to make, or "decode", "release", "closed".
VARIABLES
  emitted,    \* dongle: slots filled since the program began
  held,       \* what main has been given to release
  todo,       \* the releases main has still to make before it returns
  status,     \* what main is to return, from when it is known
  i,          \* the polls made
  rxbuf, k, out,   \* the decoder's buffer and loop indices
  failures    \* history: calls that failed

dongle == <<before, emitted, taken>>
decoder == <<rx_state, rxbuf, k, out>>
vars == <<before, emitted, taken, pc, held, todo, status, i, rx_state, rxbuf, k, out, decoded, cut, failures>>

Pending == emitted - taken

Init ==
  /\ before \in 0 .. (Modulus - 1) /\ emitted = 0 /\ taken = 0
  /\ pc = "init" /\ held = {} /\ todo = <<>> /\ status = 0 /\ i = 0
  /\ rx_state = 0 /\ rxbuf = <<>> /\ k = 0 /\ out = 0
  /\ decoded = <<>> /\ cut = {} /\ failures = 0

Emit ==
  /\ emitted < MaxSlots /\ Pending < FifoSize
  /\ emitted' = emitted + 1
  /\ UNCHANGED <<before, taken, pc, held, todo, status, i, decoder, decoded, cut, failures>>

-----------------------------------------------------------------------------
(* Ways out of main *)

\* What main releases before it returns: after a failure of libusb_init, of
\* libusb_open_device_with_vid_pid, of libusb_claim_interface, and at the label
\* cleanup, where rxbuf may still be NULL.
NotInitialised == <<>>
NotOpened == <<"ctx">>
NotClaimed_KeepsHandle == <<"ctx">>
NotClaimed == <<"handle", "ctx">>
Cleanup_ContextFirst == <<"rxbuf", "ctx", "interface", "handle">>
Cleanup == <<"rxbuf", "interface", "handle", "ctx">>

\* main is to release these and return s.
Leave(releases, s) == pc' = "release" /\ todo' = releases /\ status' = s

-----------------------------------------------------------------------------
(* Calls that give main something to release, and the speed request *)

\* The call gives main a resource, or it fails and main returns 1.
Call(resource, next, releases) ==
  \/ held' = held \cup resource /\ pc' = next /\ UNCHANGED <<todo, status, failures>>
  \/ Leave(releases, 1) /\ failures' = failures + 1 /\ UNCHANGED held

LibusbInit == pc = "init" /\ Call({"ctx"}, "open", NotInitialised)
OpenDevice == pc = "open" /\ Call({"handle"}, "claim", NotOpened)

\* A kernel driver is told to let go; whether it did shows when claiming.
ClaimInterface == pc = "claim" /\ Call({"interface"}, "speed", NotClaimed)
SetSpeed == pc = "speed" /\ Call({}, "malloc", Cleanup)

NoMemory_Kept == 0                \* as ks959_set_speed left it
NoMemory == 1                     \* ret = -1

Malloc ==
  /\ pc = "malloc"
  /\ \/ held' = held \cup {"rxbuf"} /\ pc' = "poll" /\ UNCHANGED <<todo, status, failures>>
     \/ Leave(Cleanup, NoMemory) /\ failures' = failures + 1 /\ UNCHANGED held

Setup ==
  /\ LibusbInit \/ OpenDevice \/ ClaimInterface \/ SetSpeed \/ Malloc
  /\ UNCHANGED <<dongle, i, decoder, decoded, cut>>

-----------------------------------------------------------------------------
(* Polls *)

PollError_GoesOn ==
  /\ pc = "poll" /\ i < Polls
  /\ \E n \in 0 .. Least(Pending, RxLength) : taken' = taken + n
  /\ i' = i + 1 /\ failures' = failures + 1
  /\ UNCHANGED <<before, emitted, pc, held, todo, status, decoder, decoded, cut>>

\* A poll that fails ends the session; nobody looks at what it took with it.
PollError ==
  /\ pc = "poll" /\ i < Polls
  /\ Leave(Cleanup, 1) /\ failures' = failures + 1
  /\ UNCHANGED <<dongle, held, i, decoder, decoded, cut>>

PollIdle ==
  /\ pc = "poll" /\ i < Polls /\ Pending = 0
  /\ i' = i + 1
  /\ UNCHANGED <<dongle, pc, held, todo, status, decoder, decoded, cut, failures>>

PollData ==
  /\ pc = "poll" /\ i < Polls
  /\ \E n \in 1 .. Least(Pending, RxLength) :
       /\ rxbuf' = [j \in 1 .. n |-> [slot |-> taken + j, as |-> "raw"]]
       /\ taken' = taken + n
  /\ k' = 0 /\ out' = 0 /\ pc' = "decode"
  /\ UNCHANGED <<before, emitted, held, todo, status, i, rx_state, decoded, cut, failures>>

\* What XOR with the mask makes of a byte of the buffer; one that was decoded
\* already is spoilt by it.
Unmasked(byte, mask) ==
  [slot |-> byte.slot,
   as |-> IF byte.as = "raw" /\ mask = (before + byte.slot) % Modulus THEN "clear" ELSE "garbled"]

Place_Same(o, r) == r
Place(o, r) == o                  \* buf[out++]

\* One turn of ks959_rx_decode_inplace.
DecodeByte ==
  /\ pc = "decode" /\ k < Len(rxbuf)
  /\ LET mask == (rx_state + 1) % Modulus
         byte == Unmasked(rxbuf[k + 1], mask)
     IN /\ rx_state' = mask /\ k' = k + 1
        /\ IF mask = 0 THEN UNCHANGED <<rxbuf, out>>
           ELSE rxbuf' = [rxbuf EXCEPT ![Place(out, k) + 1] = byte] /\ out' = out + 1
  /\ UNCHANGED <<dongle, pc, held, todo, status, i, decoded, cut, failures>>

ShowChunk ==
  /\ pc = "decode" /\ k = Len(rxbuf)
  /\ ShowDecoded(SubSeq(rxbuf, 1, out))
  /\ i' = i + 1 /\ pc' = "poll"
  /\ UNCHANGED <<dongle, held, todo, status, decoder, failures>>

\* The polls are over: ret = 0.
PollsOver ==
  /\ pc = "poll" /\ i = Polls
  /\ Leave(Cleanup, 0)
  /\ UNCHANGED <<dongle, held, i, decoder, decoded, cut, failures>>

-----------------------------------------------------------------------------
(* Release *)

\* The next call of the list.  free does nothing with NULL; the others are not
\* asked whether there is something to release.
Release ==
  /\ pc = "release" /\ todo # <<>>
  /\ held' = held \ {Head(todo)} /\ todo' = Tail(todo)
  /\ UNCHANGED <<dongle, pc, status, i, decoder, decoded, cut, failures>>

Exit ==
  /\ pc = "release" /\ todo = <<>>
  /\ pc' = "closed"
  /\ UNCHANGED <<dongle, held, todo, status, i, decoder, decoded, cut, failures>>

Program ==
  \/ Setup
  \/ PollError \/ PollIdle \/ PollData \/ DecodeByte \/ ShowChunk \/ PollsOver
  \/ Release \/ Exit

Next == Emit \/ Program

Spec == Init /\ [][Next]_vars

-----------------------------------------------------------------------------
(* Properties *)

\* Each thing held rests on another that is still held: no release leaves a
\* claim without its handle or a handle without its context.  Each call of the
\* session is made with all it needs, and each release but free has something
\* to release.  Wherever main returns, nothing is left.
HeldInOrder ==
  /\ "handle" \in held => "ctx" \in held
  /\ "interface" \in held => "handle" \in held
  /\ pc \in {"speed", "malloc"} => "interface" \in held
  /\ pc \in {"poll", "decode"} => {"interface", "rxbuf"} \subseteq held
  /\ todo # <<>> => Head(todo) \in held \cup {"rxbuf"}
  /\ pc = "closed" => held = {}

\* The program says it succeeded exactly when no call failed, and then it made
\* all its polls.
ExitTellsAll ==
  pc = "closed" => /\ status = 0 <=> failures = 0
                   /\ status = 0 => i = Polls

\* Decoding in place spoils no byte it has still to read, and as the first poll
\* that fails ends the session, the mask never falls behind: what was decoded is
\* every slot that came in, in order, but for those where the count that began
\* at 0 wraps, and it is clear exactly when the dongle's count began at 0 too.
\* Of that, what is not printed is the ends of chunks longer than hex_dump goes,
\* and nothing else.
DecodedIsStream ==
  /\ DataSlots(decoded, 0, taken - (IF pc = "decode" THEN Len(rxbuf) ELSE 0))
  /\ \A j \in DOMAIN decoded : decoded[j].as = "clear" <=> before = 0
  /\ TailsOnly(cut, RxLength)
=============================================================================
