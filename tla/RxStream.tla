------------------------------ MODULE RxStream ------------------------------
(***************************************************************************)
(* What the receive path of the KS-959 promises to the user of one tool    *)
(* session: the clear bytes the dongle received are handed over in the     *)
(* order it received them, each one once, none altered and none missing,   *)
(* in groups.  Of each group the first DumpMax bytes are shown and the     *)
(* rest is only counted.  Clear byte number k of a session is represented  *)
(* by k.  Nothing is said here of masks, filler slots, polls or buffers:   *)
(* they are RxMonitor's.                                                   *)
(***************************************************************************)
EXTENDS Naturals, Sequences

CONSTANT DumpMax     \* bytes shown of a group

VARIABLES sent,       \* clear bytes the dongle received in this session
          delivered,  \* those handed over: which, and whether it was shown
          stopping    \* no session, or one that was told to stop

vars == <<sent, delivered, stopping>>

Init == sent = 0 /\ delivered = <<>> /\ stopping = TRUE

Receive == sent' = sent + 1 /\ UNCHANGED <<delivered, stopping>>

\* The bytes after those delivered, up to number n.
Deliver ==
  \E n \in (Len(delivered) + 1) .. sent :
    /\ delivered' =
         [k \in 1 .. n |->
            IF k <= Len(delivered) THEN delivered[k]
            ELSE [byte |-> k, shown |-> k <= Len(delivered) + DumpMax]]
    /\ UNCHANGED <<sent, stopping>>

NewSession == sent' = 0 /\ delivered' = <<>> /\ stopping' = FALSE

Stop == stopping' = TRUE /\ UNCHANGED <<sent, delivered>>

Next == Receive \/ Deliver \/ NewSession \/ Stop

SafeSpec == Init /\ [][Next]_vars

\* As long as the session is not told to stop, what is received is delivered.
Spec == SafeSpec /\ WF_vars(~stopping /\ Deliver)
=============================================================================
