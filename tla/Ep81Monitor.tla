----------------------------- MODULE Ep81Monitor -----------------------------
(***************************************************************************)
(* tools/linux/ks959_ep81_monitor.c: listen to interrupt endpoint 0x81     *)
(* until SIGINT, and print each transfer that brings bytes.                *)
(*                                                                         *)
(* A transfer gathers packets in a buffer of BufferPackets full ones.  It  *)
(* is complete when a packet is short of the endpoint's size or the buffer *)
(* is full; until libusb has told the program so it may still end with a   *)
(* timeout or an error, and then what it gathered is dropped.  Packets are *)
(* numbered in the order they leave the dongle, which is only asked for    *)
(* one while a transfer is in progress.                                    *)
(***************************************************************************)
EXTENDS Naturals, Sequences, SequencesExt

CONSTANTS
  BufferPackets,  \* 64 bytes by the packet size of the endpoint
  MaxSent         \* bound: packets the dongle sends

ASSUME Ep81Assumption == BufferPackets \in Nat \ {0} /\ MaxSent \in Nat

VARIABLES
  phase,     \* "open", "failed", "preinit", "loop", "transfer", "closing", "exit"
  stop_flag, \* set by SIGINT
  kinds,     \* the packets sent so far: "full", "short" or "empty"
  first,     \* the transfer holds packets first .. Len(kinds)
  blocks,    \* printed blocks, each the packets it shows
  lost       \* history: packets that went with a transfer that timed out or failed

monitorvars == <<phase, stop_flag, kinds, first, blocks, lost>>

Sent == Len(kinds)
Gathered == [k \in 1 .. (Sent - first + 1) |-> first + k - 1]
TransferComplete ==
  /\ Gathered # <<>>
  /\ kinds[Sent] # "full" \/ Len(Gathered) = BufferPackets

MonitorInit ==
  /\ phase = "open" /\ stop_flag = FALSE
  /\ kinds = <<>> /\ first = 1 /\ blocks = <<>> /\ lost = {}

Packet ==
  /\ phase = "transfer" /\ ~TransferComplete /\ Sent < MaxSent
  /\ \E kind \in {"full", "short", "empty"} : kinds' = Append(kinds, kind)
  /\ UNCHANGED <<phase, stop_flag, first, blocks, lost>>

\* The handler is installed before anything else is done.
OnSigint ==
  /\ phase # "exit" /\ stop_flag' = TRUE
  /\ UNCHANGED <<phase, kinds, first, blocks, lost>>

-----------------------------------------------------------------------------
\* libusb_init, the search, the claim: any may fail, and what was opened is
\* closed again.
Open ==
  /\ phase = "open" /\ phase' \in {"preinit", "failed"}
  /\ UNCHANGED <<stop_flag, kinds, first, blocks, lost>>

\* Sent or not, accepted or not: the program listens.
Preinit ==
  /\ phase = "preinit" /\ phase' = "loop"
  /\ UNCHANGED <<stop_flag, kinds, first, blocks, lost>>

StartTransfer_NotCleared ==
  /\ phase = "loop" /\ ~stop_flag
  /\ phase' = "transfer"
  /\ UNCHANGED <<stop_flag, kinds, first, blocks, lost>>

StartTransfer ==
  /\ phase = "loop" /\ ~stop_flag
  /\ phase' = "transfer" /\ first' = Sent + 1
  /\ UNCHANGED <<stop_flag, kinds, blocks, lost>>

\* Packets without a byte are no data.
PrintedBlock ==
  IF \E k \in DOMAIN Gathered : kinds[Gathered[k]] # "empty" THEN <<Gathered>> ELSE <<>>

Transferred ==
  /\ phase = "transfer" /\ TransferComplete
  /\ phase' = "loop" /\ blocks' = blocks \o PrintedBlock
  /\ UNCHANGED <<stop_flag, kinds, first, lost>>

\* LIBUSB_ERROR_TIMEOUT, without a look at what was transferred.
Timeout_ShowsPart ==
  /\ phase = "transfer"
  /\ phase' = "loop" /\ blocks' = blocks \o PrintedBlock
  /\ UNCHANGED <<stop_flag, kinds, first, lost>>

Timeout ==
  /\ phase = "transfer" /\ phase' = "loop"
  /\ lost' = lost \cup ToSet(Gathered)
  /\ UNCHANGED <<stop_flag, kinds, first, blocks>>

\* Any other error is printed and the next transfer made at once: after the
\* dongle is pulled out this is all the loop does, until SIGINT.
TransferError ==
  /\ phase = "transfer" /\ phase' = "loop"
  /\ lost' = lost \cup ToSet(Gathered)
  /\ UNCHANGED <<stop_flag, kinds, first, blocks>>

StopLoop ==
  /\ phase = "loop" /\ stop_flag
  /\ phase' = "closing"
  /\ UNCHANGED <<stop_flag, kinds, first, blocks, lost>>

MonitorExit ==
  /\ phase \in {"closing", "failed"} /\ phase' = "exit"
  /\ UNCHANGED <<stop_flag, kinds, first, blocks, lost>>

Monitor ==
  \/ Open \/ Preinit \/ StartTransfer \/ Transferred \/ Timeout
  \/ TransferError \/ StopLoop \/ MonitorExit

MonitorNext == Packet \/ OnSigint \/ Monitor

\* The program runs as long as it can: a transfer has a timeout, so it returns
\* whatever the dongle does.
MonitorSpec == MonitorInit /\ [][MonitorNext]_monitorvars /\ WF_monitorvars(Monitor)

-----------------------------------------------------------------------------
(* Properties *)

\* A message is full packets up to one that is not.  Though transfers are cut
\* short at any point, a block never runs two messages together, and it ends in
\* the middle of one only if it fills the buffer.  A message longer than that is
\* printed in several blocks, and of it, as of any other, a part may be missing:
\* but a packet with bytes is missing only if it came with a transfer that timed
\* out or failed.
MessageEnd(p) == kinds[p] # "full"
InABlock(p) == \E i \in DOMAIN blocks : \E k \in DOMAIN blocks[i] : blocks[i][k] = p
InTransfer(p) == phase = "transfer" /\ p >= first

BlocksAreMessages ==
  /\ \A i \in DOMAIN blocks :
       LET b == blocks[i]
       IN /\ Len(b) < BufferPackets => MessageEnd(Last(b))
          /\ \A k \in 1 .. (Len(b) - 1) : ~MessageEnd(b[k]) /\ b[k + 1] = b[k] + 1
  /\ \A p \in 1 .. Sent :
       kinds[p] # "empty" => InABlock(p) \/ p \in lost \/ InTransfer(p)

\* The monitor is a listener of the endpoint: it prints packets in the order
\* sent, each at most once, and once SIGINT came, or the dongle could not be
\* opened, it ends, also while every transfer fails.
Listener == INSTANCE PacketFeed WITH
  sent <- Sent, shown <- FlattenSeq(blocks),
  stopping <- stop_flag \/ phase \in {"failed", "exit"}, open <- phase # "exit"
MonitorIsAFeed == Listener!Spec
=============================================================================
