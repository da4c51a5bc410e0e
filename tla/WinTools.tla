------------------------------ MODULE WinTools ------------------------------
(***************************************************************************)
(* The four command-line tools for Windows that reach the dongle by        *)
(* themselves: tools/ks959-probe.c ("probe"), ks959-monitor.c ("monitor"), *)
(* ks959-control-test.c ("control") and ks959-init-sequence.c ("init").    *)
(* Each finds the dongle, opens it and queries its endpoints; all but the  *)
(* probe then read the interrupt endpoint, after one control transfer      *)
(* ("control") or a table of them ("init").  The first two that read do it *)
(* as OverlappedRead says; "init" reads synchronously, under a timeout the *)
(* driver keeps.  The dongle may be pulled out at any moment.              *)
(***************************************************************************)
EXTENDS OverlappedRead

CONSTANTS
  MaxPipes,   \* bound: endpoints of the interface
  Controls    \* length of inProbes and outProbes together: 18

ASSUME ToolsAssumption == MaxPipes \in Nat /\ Controls \in Nat \ {0}

VARIABLES
  tool,     \* which program runs
  at,       \* the call it is at
  plugged,  \* the dongle is there
  held,     \* what must be given back: "path", "handle", "winusb"
  pipes,    \* the endpoints of the interface, once asked for
  queried,  \* how many of them were queried
  tried,    \* control transfers tried
  found,    \* foundExpectedEndpoint, or interruptInPipe # 0
  status,   \* the exit status, from when it is known
  todo      \* what main, on its way out, has still to see released

reading == vars
opening == <<held, pipes, queried, tried, found>>
toolvars == <<reading, tool, at, plugged, opening, status, todo>>

\* An endpoint as main asks about it: interrupt 0x81, 0x81 of another type, or
\* another address.  No two endpoints of an interface have the same address.
Endpoints == {"expected", "same_id", "other"}
Interfaces == {s \in BoundedSeq(Endpoints, MaxPipes) :
                 Cardinality({k \in DOMAIN s : s[k] # "other"}) <= 1}

Unasked == <<"unasked">>

ToolInit ==
  /\ Init
  /\ tool \in {"probe", "monitor", "control", "init"} /\ at = "start"
  /\ plugged \in BOOLEAN /\ held = {} /\ pipes = Unasked
  /\ queried = 0 /\ tried = 0 /\ found = FALSE /\ status = 0 /\ todo = <<>>

\* ks959_close, or the probe's cleanup.
ReleaseOrder_HandleFirst == IF tool = "probe" THEN <<"handle", "winusb", "path">>
                            ELSE <<"handle", "winusb">>
ReleaseOrder_FileForgotten == IF tool = "probe" THEN <<"winusb", "handle", "path">> ELSE <<"winusb">>
ReleaseOrder == IF tool = "probe" THEN <<"winusb", "handle", "path">>
                ELSE <<"winusb", "handle">>

\* main ends with status s, after all that is on the list is released.
Return(s, list) == at' = "release" /\ status' = s /\ todo' = list
Quit(s) == Return(s, ReleaseOrder)
GoOn(next) == at' = next /\ UNCHANGED <<status, todo>>
OpenStatus == IF tool = "control" THEN 2 ELSE 1
OpenFailed == Quit(OpenStatus)

Pull ==
  /\ plugged /\ at # "exit"
  /\ plugged' = FALSE
  /\ UNCHANGED <<reading, tool, at, opening, status, todo>>

-----------------------------------------------------------------------------
(* Opening *)

\* ks959-control-test does not like its arguments.
BadArguments ==
  /\ at = "start" /\ tool = "control" /\ Return(1, <<>>)
  /\ UNCHANGED <<reading, tool, plugged, opening>>

\* The search finds the path of the dongle; or nothing, or a call of it fails,
\* and there is nothing to release.
GetDevicePath ==
  /\ at = "start"
  /\ \/ plugged /\ held' = {"path"} /\ GoOn("file")
     \/ Return(OpenStatus, <<>>) /\ UNCHANGED held
  /\ UNCHANGED <<reading, tool, plugged, pipes, queried, tried, found>>

\* All but the probe free the path at once, whatever CreateFileW returned.
PathAfter == IF tool = "probe" THEN {"path"} ELSE {}

CreateFile ==
  /\ at = "file"
  /\ \/ plugged /\ held' = PathAfter \cup {"handle"} /\ GoOn("interface")
     \/ held' = PathAfter /\ OpenFailed
  /\ UNCHANGED <<reading, tool, plugged, pipes, queried, tried, found>>

Initialize ==
  /\ at = "interface"
  /\ \/ plugged /\ held' = held \cup {"winusb"} /\ GoOn("settings")
     \/ OpenFailed /\ UNCHANGED held
  /\ UNCHANGED <<reading, tool, plugged, pipes, queried, tried, found>>

QuerySettings ==
  /\ at = "settings"
  /\ \/ pipes' \in Interfaces /\ GoOn("pipes")
     \/ OpenFailed /\ UNCHANGED pipes
  /\ UNCHANGED <<reading, tool, plugged, held, queried, tried, found>>

Matches_ById(pipe) == pipe # "other"
Matches(pipe) == pipe = "expected"

QueryPipe ==
  /\ at = "pipes" /\ queried < Len(pipes)
  /\ \/ /\ queried' = queried + 1 /\ GoOn("pipes")
        /\ found' = (found \/ Matches(pipes[queried']))
     \/ OpenFailed /\ UNCHANGED <<queried, found>>
  /\ UNCHANGED <<reading, tool, plugged, held, pipes, tried>>

NextAfterOpen == CASE tool = "monitor" -> "reading"
                   [] tool = "control" -> "transfer"
                   [] OTHER            -> "probes"

\* The probe is done, endpoint or not; the others need the endpoint.
EndOfPipes ==
  /\ at = "pipes" /\ queried = Len(pipes)
  /\ \/ tool = "probe" /\ Quit(0)
     \/ tool # "probe" /\ found /\ GoOn(NextAfterOpen)
     \/ tool # "probe" /\ ~found /\ OpenFailed
  /\ UNCHANGED <<reading, tool, plugged, opening>>

-----------------------------------------------------------------------------
(* Control transfers *)

\* The one the command line asks for: nothing is read after it failed.
Transfer ==
  /\ at = "transfer" /\ tried' = 1
  /\ \/ plugged /\ GoOn("reading")
     \/ Quit(3)
  /\ UNCHANGED <<reading, tool, plugged, held, pipes, queried, found>>

\* Those of inProbes, then those of outProbes; a failure is printed.
ControlProbe ==
  /\ at = "probes" /\ tried' = tried + 1
  /\ GoOn(IF tried' = Controls THEN "reading" ELSE "probes")
  /\ UNCHANGED <<reading, tool, plugged, held, pipes, queried, found>>

-----------------------------------------------------------------------------
(* Reading and closing *)

\* The driver ends the request itself: nothing is outstanding afterwards, and
\* a packet that comes in later stays in the dongle.
SyncTimeout ==
  /\ req' = Append(req, [st |-> "aborted", pkt |-> 0]) /\ Report("timeout")
  /\ UNCHANGED <<ov, sent>>

SyncRead ==
  /\ pc = "main" /\ MoreReads
  /\ CompletedAtOnce \/ SyncTimeout \/ Refused
  /\ UNCHANGED <<aborting, shown>>

ReadStep ==
  IF tool = "init" THEN SyncRead \/ Collect \/ Close ELSE Host

Read ==
  /\ at = "reading" /\ ReadStep /\ (sent' # sent => plugged)
  /\ UNCHANGED <<tool, at, plugged, opening, status, todo>>

\* WaitForSingleObject or WinUsb_GetOverlappedResult fails.
WaitFails ==
  /\ at = "reading" /\ tool # "init" /\ (WaitFailed \/ ResultFails)
  /\ UNCHANGED <<tool, at, plugged, opening, status, todo>>

\* Nothing completes once WinUsb_Free has returned.
DriverStep ==
  /\ "winusb" \in held /\ Driver /\ (sent' # sent => plugged)
  /\ UNCHANGED <<tool, at, plugged, opening, status, todo>>

\* The loop over the reads is left, early if one of them returned FALSE.
ReadError == said # <<>> /\ Last(said) = "error"
StatusAfterReads_AsInit == IF ReadError /\ tool = "control" THEN 4 ELSE 0
StatusAfterReads ==
  IF ReadError THEN CASE tool = "monitor" -> 2
                      [] tool = "control" -> 4
                      [] OTHER            -> 0
  ELSE 0

EndOfReads ==
  /\ at = "reading" /\ pc = "closed" /\ Quit(StatusAfterReads)
  /\ UNCHANGED <<reading, tool, plugged, opening>>

\* Each release is made only of what is there to release.
Release ==
  /\ at = "release" /\ todo # <<>>
  /\ held' = held \ {Head(todo)} /\ todo' = Tail(todo)
  /\ UNCHANGED <<reading, tool, at, plugged, pipes, queried, tried, found, status>>

Exit ==
  /\ at = "release" /\ todo = <<>> /\ at' = "exit"
  /\ UNCHANGED <<reading, tool, plugged, opening, status, todo>>

Program ==
  \/ BadArguments \/ GetDevicePath \/ CreateFile \/ Initialize
  \/ QuerySettings \/ QueryPipe \/ EndOfPipes
  \/ Transfer \/ ControlProbe \/ Read \/ EndOfReads \/ Release \/ Exit

ToolNext == Pull \/ DriverStep \/ WaitFails \/ Program

\* The program runs as long as it can.  No call of it waits for ever: the
\* reads have a timeout, and a driver ends a control transfer to a dongle that
\* is gone.  Nothing is asked of the dongle, of the user or of the driver.
ToolSpec == ToolInit /\ [][ToolNext]_toolvars /\ WF_toolvars(Program)

-----------------------------------------------------------------------------
(* Properties *)

Needs ==
  CASE at = "file" -> {"path"}
    [] at = "interface" -> {"handle"}
    [] at \in {"settings", "pipes", "transfer", "probes", "reading"} -> {"handle", "winusb"}
    [] OTHER -> {}

\* Every call is made with what it needs, a WinUSB handle never outlives the
\* file handle it was made from, no request is made or looked at without one,
\* only the probe has the path while it queries; and wherever main stopped, the
\* releases it then makes leave nothing.
HandlesInUse ==
  /\ Needs \subseteq held
  /\ "winusb" \in held => "handle" \in held
  /\ InCall => "winusb" \in held
  /\ "path" \in held /\ "handle" \in held => tool = "probe"
  /\ at = "exit" => held = {}

\* Status 0 says that every read of the monitor or the control test came to a
\* packet, a timeout or an abort; of the probe, that every endpoint was queried; of the
\* init sequence only that all its control transfers were tried.
StatusTells ==
  at = "exit" =>
    (status = 0 <=>
       \/ tool \in {"monitor", "control"} /\ Len(said) = Iterations /\ ~ReadError
       \/ tool = "probe" /\ queried = Len(pipes)
       \/ tool = "init" /\ tried = Controls)

\* An endpoint is read only if the interface has an interrupt endpoint 0x81,
\* and the probe's summary tells whether it has one.
EndpointTrue ==
  /\ said # <<>> \/ InCall => "expected" \in ToSet(pipes)
  /\ tool = "probe" /\ at = "exit" /\ status = 0 =>
       (found <=> "expected" \in ToSet(pipes))

\* Each tool is a listener of the endpoint that ends by itself: it prints
\* packets in the order sent, each at most once, and comes to its end whatever
\* the dongle, the driver or the user does.
Feed == INSTANCE PacketFeed WITH stopping <- TRUE, open <- at # "exit"
IsAFeed == Feed!Spec
=============================================================================
