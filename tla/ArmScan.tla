------------------------------ MODULE ArmScan -------------------------------
(***************************************************************************)
(* tools/linux/ks959_rx_arm_scan.c: tries seven sequences of OUT transfers *)
(* one after the other, polls after each, and announces the first sequence *)
(* after which a poll brought data.  SIGINT ends the scan at the next test *)
(* of g_stop.  The data are not looked into, so of the dongle (external)   *)
(* only this is modelled: has it data for the host, and since when.        *)
(***************************************************************************)
EXTENDS Integers, Sequences

CONSTANT Polls    \* polls after each sequence: the first argument, or 20

ASSUME PollsAssumption == Polls \in Nat \ {0}   \* main replaces 0 and less by 20

\* step_count of the seven sequences.
StepCount == <<1, 1, 2, 2, 2, 2, 3>>

VARIABLES
  data,     \* dongle: 0, or the sequence being tried when its oldest byte came in
  phase,    \* "open", "send", "poll", "closed"
  seq, i,   \* the sequence, and the step or poll within it
  g_stop,
  found,    \* 0, or the sequence announced
  origin,   \* history: when the byte that was found had come in
  tried,    \* history: OUT transfers and polls of every sequence
  failed    \* history: has a poll failed?

history == <<origin, tried, failed>>
scanvars == <<data, phase, seq, i, g_stop, found, origin, tried, failed>>

NothingTried == [q \in DOMAIN StepCount |-> [outs |-> 0, polls |-> 0]]

ScanInit ==
  /\ data \in {-1, 0}       \* -1: left in the dongle from before
  /\ phase = "open" /\ seq = 0 /\ i = 0 /\ g_stop = FALSE /\ found = 0
  /\ origin = 0 /\ tried = NothingTried /\ failed = FALSE

\* Light reaches the dongle; seq is still the last one until the next begins.
LightArrives ==
  /\ data = 0 /\ phase # "closed"
  /\ data' = IF seq = 0 THEN -1 ELSE seq
  /\ UNCHANGED <<phase, seq, i, g_stop, found, history>>

OnSigint ==
  /\ phase # "closed"
  /\ g_stop' = TRUE
  /\ UNCHANGED <<data, phase, seq, i, found, history>>

-----------------------------------------------------------------------------
\* The loop of main: the next sequence, or close_ks959.
NextSequence ==
  IF seq < Len(StepCount) /\ ~g_stop
  THEN phase' = "send" /\ seq' = seq + 1 /\ i' = 0
  ELSE phase' = "closed" /\ UNCHANGED <<seq, i>>

OpenScan ==
  /\ phase = "open"
  /\ NextSequence \/ (phase' = "closed" /\ UNCHANGED <<seq, i>>)   \* no device
  /\ UNCHANGED <<data, g_stop, found, history>>

SendStep_SkipsOnError ==
  /\ phase = "send" /\ i < StepCount[seq] /\ ~g_stop
  /\ \/ i' = i + 1 /\ UNCHANGED <<phase, seq>>
     \/ NextSequence
  /\ tried' = [tried EXCEPT ![seq].outs = @ + 1]
  /\ UNCHANGED <<data, g_stop, found, origin, failed>>

\* send_out8; its result is ignored.
SendStep ==
  /\ phase = "send" /\ i < StepCount[seq] /\ ~g_stop
  /\ i' = i + 1
  /\ tried' = [tried EXCEPT ![seq].outs = @ + 1]
  /\ UNCHANGED <<data, phase, seq, g_stop, found, origin, failed>>

StartMonitor_WhenSent ==
  /\ phase = "send" /\ i = StepCount[seq]
  /\ phase' = "poll" /\ i' = 0
  /\ UNCHANGED <<data, seq, g_stop, found, history>>

StartMonitor ==
  /\ phase = "send" /\ (i = StepCount[seq] \/ g_stop)
  /\ phase' = "poll" /\ i' = 0
  /\ UNCHANGED <<data, seq, g_stop, found, history>>

\* monitor_after_sequence: whether another poll is made.
MorePolls_OneMore == i <= Polls /\ ~g_stop
MorePolls_WhenStopping == i < Polls
MorePolls == i < Polls /\ ~g_stop

\* One poll: an error, with which the data may be gone; nothing; or data, which
\* end the scan at once.
MonitorError ==
  /\ phase = "poll" /\ MorePolls
  /\ data' \in {data, 0} /\ failed' = TRUE
  /\ i' = i + 1 /\ tried' = [tried EXCEPT ![seq].polls = @ + 1]
  /\ UNCHANGED <<phase, seq, g_stop, found, origin>>

MonitorIdle ==
  /\ phase = "poll" /\ MorePolls /\ data = 0
  /\ i' = i + 1 /\ tried' = [tried EXCEPT ![seq].polls = @ + 1]
  /\ UNCHANGED <<data, phase, seq, g_stop, found, origin, failed>>

MonitorData ==
  /\ phase = "poll" /\ MorePolls /\ data # 0
  /\ data' = 0 /\ origin' = data /\ found' = seq
  /\ phase' = "closed"
  /\ i' = i + 1 /\ tried' = [tried EXCEPT ![seq].polls = @ + 1]
  /\ UNCHANGED <<seq, g_stop, failed>>

EndMonitor ==
  /\ phase = "poll" /\ ~MorePolls
  /\ NextSequence
  /\ UNCHANGED <<data, g_stop, found, history>>

Scan ==
  \/ OpenScan \/ SendStep \/ StartMonitor
  \/ MonitorError \/ MonitorIdle \/ MonitorData \/ EndMonitor

ScanNext == LightArrives \/ OnSigint \/ Scan

ScanSpec == ScanInit /\ [][ScanNext]_scanvars

\* Every transfer carries TIMEOUT_MS and nanosleep ends.
ScanFairSpec == ScanSpec /\ WF_scanvars(Scan)

-----------------------------------------------------------------------------
(* Properties *)

\* What a sequence amounts to that SIGINT did not cut short.
Whole(q) == tried[q].outs = StepCount[q] /\ tried[q].polls = Polls

\* A sequence is begun only after all before it were sent whole and polled the
\* full number of times.  SIGINT may leave one half sent, and the polling
\* function is still entered: but then nothing is announced of it, and no other
\* follows.  What is announced was sent whole and is the last one tried.
\* A scan that ends without SIGINT and announces nothing tried everything.
VerdictComplete ==
  /\ \A q \in DOMAIN StepCount : /\ q < seq => Whole(q)
                                /\ q > seq => tried[q] = NothingTried[q]
  /\ found > 0 => found = seq /\ tried[seq].outs = StepCount[seq]
  /\ phase = "closed" /\ seq > 0 /\ found = 0 /\ ~g_stop =>
       \A q \in DOMAIN StepCount : Whole(q)

\* The announced sequence may not be the one that brought the data: they may
\* have come in before its first OUT transfer.  But if no poll failed they are
\* no older than the last poll of the sequence before it, except after the
\* first sequence, where they may be older than the scan.
FoundIsRecent ==
  (found > 1 /\ ~failed) => origin >= found - 1

\* The scan ends, interrupted or not, whatever the transfers return.
Ends == <>(phase = "closed")
=============================================================================
