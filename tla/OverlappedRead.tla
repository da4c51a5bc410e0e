--------------------------- MODULE OverlappedRead ---------------------------
(***************************************************************************)
(* The interrupt endpoint as tools/ks959-monitor.c reads it: a fixed number *)
(* of overlapped reads, one after the other, each given up after a timeout *)
(* (ks959_read_once of tools/ks959-control-test.c is the same code).       *)
(*                                                                         *)
(* The driver (external) owns a request from WinUsb_ReadPipe until it      *)
(* completes it, whether or not ks959_read_once is still waiting.  Packets *)
(* are numbered in the order the dongle sends them and go to the oldest    *)
(* request.  A read given up leaves its OVERLAPPED and buffer to the next  *)
(* call's stack frame, so a completion that comes after it may or may not  *)
(* be written over those of the read in progress.                          *)
(***************************************************************************)
EXTENDS Naturals, Sequences, FiniteSets, SequencesExt

CONSTANTS
  Iterations,   \* KS959_READ_ITERATIONS: 50, or 10 in ks959-control-test
  MaxPackets    \* bound: packets the dongle sends

ASSUME OverlappedAssumption == Iterations \in Nat \ {0} /\ MaxPackets \in Nat

VARIABLES
  pc,        \* "main", "wait", "timed_out", "collect" in ks959_read_once, "closed"
  req,       \* driver: the request of every read so far
  aborting,  \* driver: requests it was told to abort and has not completed
  sent,      \* packets that left the dongle
  ov,        \* the status and buffer the read in progress will look at
  said,      \* what each finished read reported
  shown      \* packets printed

host == <<pc, said, shown>>
vars == <<pc, req, aborting, sent, ov, said, shown>>

Pending == [st |-> "pending", pkt |-> 0]
Data(p) == [st |-> "data", pkt |-> p]

Outstanding == {k \in DOMAIN req : req[k].st = "pending"}
Current == Len(req)                         \* the last request made
InCall == pc \in {"wait", "timed_out", "collect"}

Init ==
  /\ pc = "main" /\ req = <<>> /\ aborting = {} /\ sent = 0
  /\ ov = [st |-> "none", pkt |-> 0] /\ said = <<>> /\ shown = <<>>

-----------------------------------------------------------------------------
(* The driver *)

\* Request k completes with status st: seen by the read that made it if that
\* one is still in progress, else by whoever has its stack frame now, or nobody.
\* Only data reaches the buffer.
Complete(k, st, pkt) ==
  LET written == [st |-> st, pkt |-> IF st = "data" THEN pkt ELSE ov.pkt]
  IN /\ req' = [req EXCEPT ![k] = [st |-> st, pkt |-> pkt]]
     /\ aborting' = aborting \ {k}
     /\ \/ ov' = written
        \/ ~(k = Current /\ InCall) /\ ov' = ov
     /\ UNCHANGED host

Oldest(k) == \A j \in Outstanding : k <= j

Deliver ==
  /\ sent < MaxPackets /\ sent' = sent + 1
  /\ \E k \in Outstanding : Oldest(k) /\ Complete(k, "data", sent + 1)

\* The transfer fails on the bus, or is cancelled by something else.
Fail ==
  /\ \E k \in Outstanding, st \in {"failed", "aborted"} : Oldest(k) /\ Complete(k, st, 0)
  /\ UNCHANGED sent

FinishAbort ==
  /\ \E k \in aborting : Complete(k, "aborted", 0)
  /\ UNCHANGED sent

-----------------------------------------------------------------------------
(* The program *)

\* ks959_read_once returned FALSE: main closes the device and exits.
Stop == pc' = "closed" /\ said' = Append(said, "error")
Report(what) == pc' = "main" /\ said' = Append(said, what)

MoreReads == Len(said) < Iterations

\* A cleared frame and a new event, then WinUsb_ReadPipe: the request is left
\* to the driver, completed at once with a packet, or refused.
LeftPending ==
  /\ req' = Append(req, Pending) /\ pc' = "wait" /\ ov' = Pending
  /\ UNCHANGED <<said, sent>>

CompletedAtOnce ==
  /\ Outstanding = {} /\ sent < MaxPackets
  /\ sent' = sent + 1 /\ req' = Append(req, Data(sent + 1))
  /\ pc' = "collect" /\ ov' = Data(sent + 1)
  /\ UNCHANGED said

Refused ==
  /\ req' = Append(req, [st |-> "failed", pkt |-> 0]) /\ Stop
  /\ UNCHANGED <<ov, sent>>

Submit ==
  /\ pc = "main" /\ MoreReads
  /\ LeftPending \/ CompletedAtOnce \/ Refused
  /\ UNCHANGED <<aborting, shown>>

\* The wait: the event is set, or the time is up, or the wait itself fails.
WaitSignalled ==
  /\ pc = "wait" /\ Current \notin Outstanding
  /\ pc' = "collect"
  /\ UNCHANGED <<req, aborting, sent, ov, said, shown>>

WaitTimeout_Infinite ==
  /\ pc = "wait" /\ Current \in Outstanding
  /\ UNCHANGED vars

WaitTimeout ==
  /\ pc = "wait" /\ Current \in Outstanding
  /\ pc' = "timed_out"
  /\ UNCHANGED <<req, aborting, sent, ov, said, shown>>

WaitFailed ==
  /\ pc = "wait" /\ Stop
  /\ UNCHANGED <<req, aborting, sent, ov, shown>>

\* "timeout, no data": told to abort, not waited for, and not asked whether the
\* packet came in the meantime.  WinUsb_AbortPipe may fail; nobody looks.
GiveUp ==
  /\ pc = "timed_out" /\ Report("timeout")
  /\ aborting' \in {Outstanding, aborting}
  /\ UNCHANGED <<req, sent, ov, shown>>

\* A packet that has bytes is printed.
Printed_WhenEmpty(p) == <<>>
Printed(p) == <<p>>

HasData_AnyStatus == ov.st # "failed"
HasData == ov.st = "data"

\* The status WinUsb_GetOverlappedResult finds and what it leads to.
Collect ==
  /\ pc = "collect"
  /\ \/ HasData /\ shown' = shown \o Printed(ov.pkt) /\ Report("data")
     \/ ~HasData /\ ov.st = "aborted" /\ Report("aborted") /\ UNCHANGED shown
     \/ ov.st = "failed" /\ Stop /\ UNCHANGED shown
  /\ UNCHANGED <<req, aborting, sent, ov>>

\* The call itself fails, of a read that completed at once as of one that was
\* waited for: a packet that came is not looked at.
ResultFails ==
  /\ pc = "collect" /\ Stop
  /\ UNCHANGED <<req, aborting, sent, ov, shown>>

Close ==
  /\ pc = "main" /\ ~MoreReads
  /\ pc' = "closed"
  /\ UNCHANGED <<req, aborting, sent, ov, said, shown>>

Driver == Deliver \/ Fail \/ FinishAbort
Host == Submit \/ WaitSignalled \/ WaitTimeout \/ GiveUp \/ Collect \/ Close

Next == Driver \/ Host \/ WaitFailed \/ ResultFails

Spec == Init /\ [][Next]_vars

-----------------------------------------------------------------------------
(* Properties *)

\* The reads that reported data were given a packet, and what is printed is
\* those packets, in the order they were sent: a packet that completed an
\* abandoned read never appears under a later one, whatever that completion
\* overwrote.
ReadsWithData == {k \in DOMAIN said : said[k] = "data"}

ShownIsOwn ==
  /\ \A k \in ReadsWithData : req[k].st = "data"
  /\ ToSet(shown) = {req[k].pkt : k \in ReadsWithData}
  /\ \A m, n \in DOMAIN shown : m < n => shown[m] < shown[n]

\* A packet that left the dongle is printed, or is about to be, unless the read
\* it went to was given up or reported as aborted or failed.  (A read given up
\* says that there was no data: it may have come as the program gave up.)
LossIsReported ==
  \A p \in 1 .. sent :
    \E k \in DOMAIN req :
      /\ req[k] = Data(p)
      /\ \/ k > Len(said)
         \/ said[k] = "data" /\ p \in ToSet(shown)
         \/ said[k] \in {"timeout", "aborted", "error"}
=============================================================================
