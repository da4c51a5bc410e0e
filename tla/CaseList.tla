------------------------------ MODULE CaseList ------------------------------
(***************************************************************************)
(* The two programs that send the dongle a list of cases and look what it  *)
(* answers: tools/linux/ks959_ir_led_finder.c ("led"), which builds its    *)
(* twelve cases partly by copying earlier ones and sends each of them a    *)
(* number of times, and tools/ks959_tx_probe.c ("tx"), which sends each of *)
(* six once and polls before the first.  After each case the dongle is     *)
(* polled once, for PollSize bytes, and "led" pauses for 1.5 s before the  *)
(* next; the dongle (external) may hand over fewer than it holds, and what *)
(* it keeps stays there, but to a poll that succeeds it hands over at      *)
(* least one byte if it holds any.  A poll's bytes are printed whole:      *)
(* hex_dump goes as far as 64 bytes and further.                           *)
(*                                                                         *)
(* The bytes the dongle receives (Arrive, external) are known by the case  *)
(* under way when they arrived.                                            *)
(***************************************************************************)
EXTENDS Naturals, Sequences

CONSTANTS
  Repeats,   \* bound: repeat_count of every case of "led": 8 to 120
  PollSize,  \* bytes a poll asks for: 64
  MaxBytes   \* bound: bytes that arrive

ASSUME CaseListAssumption ==
  Repeats \in Nat \ {0} /\ PollSize \in Nat \ {0} /\ MaxBytes \in Nat

VARIABLES
  tool,     \* "led" or "tx"
  cases,    \* the table, as far as it is built
  pc,       \* "build", "send", "poll", "pause" (from a poll to what follows), "exit"
  at,       \* the case under way; 0 before the first
  sent,     \* how often it was sent
  fifo,     \* bytes in the dongle, as the case under way when they arrived
  arrived,  \* how many did
  out,      \* the transfer made last, under which name
  polls,    \* polls made
  result,   \* of the last one: "data", "empty" or "failed"; "none" yet
  oldest,   \* history: the case under way when a poll last came back empty, or
            \* that of the byte printed last if it is a later one
  shown     \* history: what the last poll printed under which case; and, from
            \* before that poll, oldest and result

table == <<tool, cases>>
dongle == <<fifo, arrived>>
seen == <<polls, result, oldest, shown>>
vars == <<table, pc, at, sent, dongle, out, seen>>

-----------------------------------------------------------------------------
(* The cases.  A payload is the pattern that fills it, with its length.    *)

Case(name, fill, len, wValue, wIndex) ==
  [name |-> name, fill |-> fill, len |-> len, wValue |-> wValue, wIndex |-> wIndex]

\* A name tells what is sent under it.
Name(fill, len, wValue, wIndex) == <<fill, len, wValue, wIndex>>
Named(fill, len, wValue, wIndex) ==
  Case(Name(fill, len, wValue, wIndex), fill, len, wValue, wIndex)

\* A copy of an earlier case, with its own name and one field set on top;
\* fill_repeated sets as many bytes as it is told.
Renamed(base, name) == [base EXCEPT !.name = name]
WithFill_NameOnly(base, name, fill) == Renamed(base, name)
WithFill(base, name, fill) == [Renamed(base, name) EXCEPT !.fill = fill]
WithValue(base, name, wValue) == [Renamed(base, name) EXCEPT !.wValue = wValue]
WithIndex(base, name, wIndex) == [Renamed(base, name) EXCEPT !.wIndex = wIndex]

LedCase(k, built) ==
  CASE k = 1 -> Named("9600", 8, 512, 0)
    [] k = 2 -> WithValue(built[1], Name("9600", 8, 0, 0), 0)
    [] k = 3 -> Named("FF", 1, 1, 0)
    [] k = 4 -> WithFill(built[3], Name("00", 1, 1, 0), "00")
    [] k = 5 -> Named("FF", 16, 16, 0)
    [] k = 6 -> WithFill(built[5], Name("00", 16, 16, 0), "00")
    [] k = 7 -> WithFill(built[5], Name("AA", 16, 16, 0), "AA")
    [] k = 8 -> WithFill(built[5], Name("55", 16, 16, 0), "55")
    [] k = 9 -> Named("ramp", 32, 32, 0)
    [] k = 10 -> Named("none", 0, 0, 0)
    [] k = 11 -> WithValue(built[10], Name("none", 0, 512, 0), 512)
    [] k = 12 -> WithIndex(built[1], Name("9600", 8, 512, 1), 1)

TxCase(k) ==
  << Named("9600", 8, 0, 0), Named("9600", 8, 512, 0), Named("00", 8, 512, 0),
     Named("patternA", 16, 16, 0), Named("patternB", 16, 16, 0),
     Named("ramp", 32, 32, 0) >>[k]

CaseCount == IF tool = "led" THEN 12 ELSE 6
RepeatCount == IF tool = "led" THEN Repeats ELSE 1

Init ==
  /\ tool \in {"led", "tx"} /\ cases = <<>> /\ pc = "build" /\ at = 0
  /\ sent = 0 /\ fifo = <<>> /\ arrived = 0 /\ out = <<>>
  /\ polls = 0
  /\ result = "none" /\ oldest = 0
  /\ shown = [bytes |-> <<>>, under |-> 0, oldest |-> 0, after |-> "none"]

Arrive ==
  /\ arrived < MaxBytes /\ pc # "exit"
  /\ fifo' = Append(fifo, at) /\ arrived' = arrived + 1
  /\ UNCHANGED <<table, pc, at, sent, out, seen>>

BuildCase ==
  /\ pc = "build" /\ Len(cases) < CaseCount
  /\ cases' = Append(cases, IF tool = "led" THEN LedCase(Len(cases) + 1, cases)
                            ELSE TxCase(Len(cases) + 1))
  /\ UNCHANGED <<tool, pc, at, sent, dongle, out, seen>>

-----------------------------------------------------------------------------
(* The session *)

FirstPoll == pc' = "poll" /\ UNCHANGED at
FirstCase == pc' = "send" /\ at' = 1

Open ==
  /\ pc = "build" /\ Len(cases) = CaseCount
  /\ \/ IF tool = "tx" THEN FirstPoll ELSE FirstCase
     \/ pc' = "exit" /\ UNCHANGED at
  /\ UNCHANGED <<table, sent, dongle, out, seen>>

\* Whether the transfer fails is printed, and changes nothing.
AfterSend == pc' = IF sent' < RepeatCount THEN "send" ELSE "poll"

Send_NoPollOnError ==
  /\ pc = "send" /\ out' = cases[at]
  /\ \/ sent' = sent + 1 /\ AfterSend
     \/ sent' = sent /\ pc' = "pause"
  /\ UNCHANGED <<table, at, dongle, seen>>

Send ==
  /\ pc = "send" /\ out' = cases[at]
  /\ sent' = sent + 1 /\ AfterSend
  /\ UNCHANGED <<table, at, dongle, seen>>

AfterFailedPoll_Ends == "exit"
AfterFailedPoll == "pause"

\* What one call of rx_poll_once prints; nobody looks at what it returns.
Printed(bytes, how) ==
  /\ polls' = polls + 1 /\ result' = how
  /\ shown' = [bytes |-> bytes, under |-> at, oldest |-> oldest, after |-> result]

\* The first k bytes leave the dongle with a poll.
Taken(k) == k <= PollSize /\ fifo' = SubSeq(fifo, k + 1, Len(fifo))

PollData ==
  /\ pc = "poll" /\ pc' = "pause"
  /\ \E k \in 1 .. Len(fifo) :
       Taken(k) /\ Printed(SubSeq(fifo, 1, k), "data") /\ oldest' = fifo[k]
  /\ UNCHANGED <<table, at, sent, arrived, out>>

PollEmpty ==
  /\ pc = "poll" /\ pc' = "pause" /\ fifo = <<>>
  /\ Printed(<<>>, "empty") /\ oldest' = at
  /\ UNCHANGED <<table, at, sent, dongle, out>>

\* A transfer that fails may have taken bytes from the dongle.
PollError ==
  /\ pc = "poll" /\ pc' = AfterFailedPoll
  /\ \E k \in 0 .. Len(fifo) : Taken(k)
  /\ Printed(<<>>, "failed")
  /\ UNCHANGED <<table, at, sent, arrived, out, oldest>>

\* The pause is over: the next case, or close_ks959.
EndPause ==
  /\ pc = "pause"
  /\ sent' = 0
  /\ \/ at < CaseCount /\ pc' = "send" /\ at' = at + 1
     \/ at = CaseCount /\ pc' = "exit" /\ UNCHANGED at
  /\ UNCHANGED <<table, dongle, out, seen>>

Poll == PollData \/ PollEmpty \/ PollError

Program == BuildCase \/ Open \/ Send \/ Poll \/ EndPause

Next == Arrive \/ Program

\* The program runs as long as it can; each transfer has a timeout.
Spec == Init /\ [][Next]_vars /\ WF_vars(Program)

-----------------------------------------------------------------------------
(* Properties *)

\* What goes out under a name is what the name says, also for the cases that
\* began as a copy of another: payload, length, wValue and wIndex.
SentAsNamed ==
  out # <<>> => out.name = <<out.fill, out.len, out.wValue, out.wIndex>>

\* Bytes may be printed under a later case than the one they arrived in, but
\* they come in the order they arrived, across all polls, and from no case
\* before the one under way when a poll last came back empty.  If that was the
\* poll before, it was the poll of the case before: what is printed under a case
\* arrived during that case or in the pause that led to it.
ShownIsRecent ==
  /\ \A k \in DOMAIN shown.bytes :
       shown.oldest <= shown.bytes[k] /\ shown.bytes[k] <= shown.under
  /\ \A j, k \in DOMAIN shown.bytes : j < k => shown.bytes[j] <= shown.bytes[k]
  /\ shown.after = "empty" => shown.under <= shown.oldest + 1

\* Every run comes to its end, and one that opened the dongle has by then sent
\* every case and polled after each ("tx" also before the first), whatever
\* failed.
AllPolls == CaseCount + (IF tool = "tx" THEN 1 ELSE 0)
ComesToItsEnd ==
  <>[](pc = "exit" /\ <<at, polls>> \in {<<0, 0>>, <<CaseCount, AllPolls>>})
=============================================================================
