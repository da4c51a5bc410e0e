----------------------------- MODULE PacketFeed -----------------------------
(***************************************************************************)
(* What a program that listens to the interrupt endpoint promises: it      *)
(* prints packets the dongle sent, each at most once, in the order they    *)
(* were sent and none that was not sent; some it may miss.  A run of       *)
(* packets may be printed at once.  When it is to stop, it does, and       *)
(* prints nothing more.                                                    *)
(***************************************************************************)
EXTENDS Naturals, Sequences

VARIABLES
  sent,      \* packets the dongle sent: 1, 2, ...
  shown,     \* those printed
  stopping,  \* the program was told to end, or is one that ends by itself
  open       \* it has not ended yet

vars == <<sent, shown, stopping, open>>

LastShown == IF shown = <<>> THEN 0 ELSE shown[Len(shown)]

Init == sent = 0 /\ shown = <<>> /\ stopping \in BOOLEAN /\ open = TRUE

Send ==
  /\ sent' = sent + 1
  /\ UNCHANGED <<shown, stopping, open>>

Show ==
  /\ open
  /\ \E first \in (LastShown + 1) .. sent : \E last \in first .. sent :
       shown' = shown \o [k \in 1 .. (last - first + 1) |-> first + k - 1]
  /\ UNCHANGED <<sent, stopping, open>>

Stop ==
  /\ stopping' = TRUE
  /\ UNCHANGED <<sent, shown, open>>

Finish ==
  /\ stopping /\ open
  /\ open' = FALSE
  /\ UNCHANGED <<sent, shown, stopping>>

Next == Send \/ Show \/ Stop \/ Finish

Spec == Init /\ [][Next]_vars /\ WF_vars(Finish)
=============================================================================
