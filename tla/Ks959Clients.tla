---------------------------- MODULE Ks959Clients ----------------------------
(***************************************************************************)
(* The programs built on the library: tools/ks959-lib-probe.c (one control *)
(* transfer its arguments ask for) and tools/ks959-ctrl-matrix.c (a table  *)
(* of reads, then one of writes without data), and in their place "any"    *)
(* client that makes whatever calls it likes (external).  The library is   *)
(* Ks959Device's, step by step.                                            *)
(***************************************************************************)
EXTENDS Ks959Device

CONSTANTS
  ProbeBuffer,  \* sizeof(buffer) in ks959-lib-probe: 256
  ReadLength,   \* the length of every read in ks959-ctrl-matrix: 4
  Reads,        \* its read_probes: 6
  Writes        \* its write_probes: 18

ASSUME ClientsAssumption ==
  /\ ProbeBuffer \in Nat /\ Reads \in Nat /\ Writes \in Nat
  /\ ReadLength \in Lengths /\ ReadLength > 0
  /\ 0 \in Lengths /\ Lengths \subseteq BufferLens   \* theirs are a client's calls

VARIABLES
  tool,    \* "lib-probe", "ctrl-matrix", "any"
  args,    \* what the command line of lib-probe asks for
  at,      \* the call the program is at
  tried,   \* transfers of the tables made
  rc,      \* what main has in rc: of ks959_open, then of lib-probe's transfer
  status   \* the exit status, from when it is known

client == <<tool, args, tried, rc, status>>
allvars == <<vars, client, at>>

\* No arguments, a wrong number of them, one that is no number, or a transfer.
Arguments ==
  [asks : {"none", "count", "syntax"}, length : {0}] \cup
  [asks : {"read", "write"}, length : Lengths]
Transfers == {"read", "write"}

ClientInit ==
  /\ Init
  /\ tool \in {"lib-probe", "ctrl-matrix", "any"}
  /\ args \in IF tool = "lib-probe" THEN Arguments ELSE {[asks |-> "none", length |-> 0]}
  /\ at = "version" /\ tried = 0 /\ rc = "none" /\ status = 0

\* The call at hand is made, and the next one follows in the program.
Makes(call_, next) == call_ /\ at' = next /\ UNCHANGED client

\* ks959_close, and main returns s.
Quit(s) == at' = "close" /\ status' = s /\ UNCHANGED <<vars, tool, args, tried, rc>>

-----------------------------------------------------------------------------
(* What the two have in common *)

Version == at = "version" /\ Makes(Query /\ result' = "OK", "open")

OpenDevice == at = "open" /\ Makes(Open, "opening")

\* ks959_open has returned.
Opening ==
  /\ at = "opening" /\ pc = "client"
  /\ rc' = result
  /\ IF result = "OK" THEN at' = "vid_pid" /\ UNCHANGED status
     ELSE at' = "exit" /\ status' = 1
  /\ UNCHANGED <<vars, tool, args, tried>>

VidPid == at = "vid_pid" /\ Makes(Query /\ result' = "OK", "main")

CloseDevice == at = "close" /\ Makes(Close, "closing")

Exit == at = "closing" /\ pc = "client" /\ Makes(UNCHANGED vars, "exit")

-----------------------------------------------------------------------------
(* ks959-lib-probe *)

ArgumentsRefused ==
  /\ at = "main" /\ tool = "lib-probe"
  /\ \/ args.asks = "none" /\ Quit(0)
     \/ args.asks = "count" /\ Quit(2)
     \/ args.asks = "syntax" /\ Quit(3)

TooLong ==
  /\ at = "main" /\ tool = "lib-probe" /\ args.asks \in Transfers
  /\ args.length > ProbeBuffer /\ Quit(4)

\* A read of what was asked for; a write of no bytes under a setup packet with
\* the length asked for, whatever that is.
ProbeTransfer ==
  /\ at = "main" /\ tool = "lib-probe"
  /\ args.asks \in Transfers /\ args.length <= ProbeBuffer
  /\ IF args.asks = "read" THEN Ctrl(args.length, args.length, TRUE, TRUE)
     ELSE Ctrl(args.length, 0, TRUE, FALSE)
  /\ rc' = result' /\ at' = "check"
  /\ UNCHANGED <<tool, args, tried, status>>

Failed_IfRefused == rc = "INVALID_ARG"
Failed == rc # "OK"

\* Only now is the length of a write looked at.
CheckTransfer ==
  /\ at = "check"
  /\ IF args.asks = "write" /\ args.length # 0 THEN Quit(6)
     ELSE IF ~Failed THEN Quit(0)
     ELSE /\ at' = "os_error" /\ status' = IF args.asks = "read" THEN 5 ELSE 7
          /\ UNCHANGED <<vars, tool, args, tried, rc>>

LastOsError ==
  /\ at = "os_error"
  /\ Makes(OtherCall /\ result' = "OK", IF tool = "lib-probe" THEN "close" ELSE "main")

-----------------------------------------------------------------------------
(* ks959-ctrl-matrix *)

MatrixTransfer ==
  /\ at = "main" /\ tool = "ctrl-matrix" /\ tried < Reads + Writes
  /\ tried' = tried + 1
  /\ IF tried < Reads THEN Ctrl(ReadLength, ReadLength, TRUE, TRUE) ELSE Ctrl(0, 0, TRUE, FALSE)
  /\ at' = IF result' = "OK" THEN "main" ELSE "os_error"
  /\ UNCHANGED <<tool, args, rc, status>>

MatrixDone ==
  /\ at = "main" /\ tool = "ctrl-matrix" /\ tried = Reads + Writes
  /\ Quit(0)

-----------------------------------------------------------------------------
AnyClient ==
  /\ tool = "any"
  /\ Open \/ CtrlTransfer \/ Query \/ OtherCall \/ Close
  /\ UNCHANGED <<client, at>>

Program ==
  /\ tool # "any"
  /\ \/ Version \/ OpenDevice \/ Opening \/ VidPid \/ CloseDevice \/ Exit
     \/ ArgumentsRefused \/ TooLong \/ ProbeTransfer \/ CheckTransfer \/ LastOsError
     \/ MatrixTransfer \/ MatrixDone

LibraryStep == Library /\ UNCHANGED <<client, at>>
PlugStep == Plug /\ UNCHANGED <<client, at>>

ClientNext == PlugStep \/ LibraryStep \/ AnyClient \/ Program

\* A call runs on until it returns, and so does each of the two programs; "any"
\* client need not make a call.
ClientSpec ==
  ClientInit /\ [][ClientNext]_allvars /\ WF_allvars(LibraryStep) /\ WF_allvars(Program)

-----------------------------------------------------------------------------
(* Properties *)

\* ks959-lib-probe asks the library for a write before it looks whether it can
\* make it.  No such request may get past the library to the dongle: when the
\* probe says it only supports writes of length zero, nothing was written.
RefusedSendsNothing ==
  at = "close" /\ status = 6 => result = "INVALID_ARG" /\ bytes_transferred = 0

\* Every call returns, and each program comes to its end without a device.  The
\* probe's status is 0 just if the device was opened and the transfer it was asked
\* for, if any, was made and succeeded; the matrix' is 0 just if it was opened,
\* and then all its transfers were tried, whatever became of them.
Ended ==
  /\ at = "exit" /\ pc = "client" /\ out_dev = "null"
  /\ tool = "ctrl-matrix" =>
       (status = 0 <=> rc = "OK") /\ tried = (IF rc = "OK" THEN Reads + Writes ELSE 0)
  /\ tool = "lib-probe" =>
       (status = 0 <=>
          /\ rc = "OK"
          /\ \/ args.asks = "none"
             \/ args.asks = "read" /\ args.length <= ProbeBuffer
             \/ args.asks = "write" /\ args.length = 0)
ClientEnds == CallsReturn /\ <>(tool = "any" \/ Ended)
=============================================================================
