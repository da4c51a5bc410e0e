---------------------------- MODULE ProbeSession ----------------------------
(***************************************************************************)
(* What LibusbProbe and HandshakeProbe have in common: both ask the dongle *)
(* for something, poll it a number of times, decode what comes and print   *)
(* it, of a long chunk only the beginning.                                 *)
(***************************************************************************)
EXTENDS Mask, HexDump

CONSTANTS
  FifoSize,  \* slots the dongle can hold for the host
  Polls,     \* polls after a request: an argument, or 10 or 12
  MaxSlots   \* bound: slots the dongle fills

ASSUME PollsAssumption == {FifoSize, Polls, MaxSlots} \subseteq Nat

VARIABLES
  before,    \* dongle: its count when the program began, mod Modulus
  taken,     \* dongle: slots handed to a poll, those of a failed one included
  pc,        \* where main is
  rx_state,  \* the decoder's mask
  decoded,   \* history: the bytes decoded
  cut        \* history: positions of decoded that were not printed

Least(a, b) == IF a <= b THEN a ELSE b

\* A chunk has been decoded: it is printed as far as hex_dump goes.
ShowDecoded(bytes) ==
  /\ decoded' = decoded \o bytes
  /\ cut' = cut \cup LeftOut(Len(decoded), bytes)
=============================================================================
