---------------------------- MODULE ListenerProofs ---------------------------
(***************************************************************************)
(* Proofs about the programs that listen to the interrupt endpoint: the    *)
(* Windows tools, for any number of reads, packets, endpoints and control  *)
(* transfers, and the Linux monitor, for any number of packets and         *)
(* messages and a buffer of any size.                                      *)
(*                                                                         *)
(* The Windows reads come first: what the driver keeps of them, what is in *)
(* the stack frame and what was printed; then the program around them.     *)
(***************************************************************************)
EXTENDS WinTools, Ep81Monitor, SequenceTheorems, WellFoundedInduction, TLAPS

Statuses == {"pending", "data", "failed", "aborted"}
Reports == {"data", "timeout", "aborted", "error"}

ReadsTyped ==
  /\ pc \in {"main", "wait", "timed_out", "collect", "closed"}
  /\ req \in Seq([st : Statuses, pkt : Nat]) /\ sent \in Nat
  /\ ov \in [st : Statuses \cup {"none"}, pkt : Nat]
  /\ said \in Seq(Reports) /\ shown \in Seq(Nat)
  /\ Len(req) = Len(said) + (IF InCall THEN 1 ELSE 0)
  /\ Len(req) <= Iterations

\* An abort is never for the read in progress, nor for one that is answered.
AbortsGivenUp ==
  /\ aborting \subseteq Outstanding
  /\ InCall => Current \notin aborting

\* Packets go to the requests in order, none to two of them, none is lost, and
\* none overtakes a request that waits.
PacketsInOrder ==
  /\ \A k \in DOMAIN req : req[k].st = "data" => req[k].pkt \in 1 .. sent
  /\ \A p \in 1 .. sent : \E k \in DOMAIN req : req[k] = Data(p)
  /\ \A j, k \in DOMAIN req :
       j < k /\ req[k].st = "data" =>
         /\ req[j].st # "pending"
         /\ req[j].st = "data" => req[j].pkt < req[k].pkt

\* Once the read in progress is answered no other request is left that could
\* write over its frame, and the frame holds its answer.
FrameIsCurrents ==
  InCall /\ Current \notin Outstanding =>
    /\ Outstanding = {}
    /\ ov.st = req[Current].st
    /\ ov.st = "data" => ov.pkt = req[Current].pkt

SignalledIsAnswered == pc = "collect" => Current \notin Outstanding

ReadInv ==
  /\ ReadsTyped /\ AbortsGivenUp /\ PacketsInOrder /\ FrameIsCurrents
  /\ SignalledIsAnswered /\ ShownIsOwn

-----------------------------------------------------------------------------
(* The driver *)

\* A completion is of a request that waits, and of the oldest one if it is the
\* one in progress or brings a packet.
Answers(k, st, pkt) ==
  /\ k \in Outstanding /\ st \in Statuses \ {"pending"}
  /\ Complete(k, st, pkt)
  /\ k = Current /\ InCall => Oldest(k)
  /\ \/ st = "data" /\ pkt = sent + 1 /\ sent' = sent + 1 /\ Oldest(k)
     \/ st # "data" /\ pkt = 0 /\ sent' = sent

LEMMA DriverAnswers ==
  ASSUME ReadInv, Driver
  PROVE  \E k, st, pkt : Answers(k, st, pkt)
<1>1. CASE Deliver
  <2>1. PICK k \in Outstanding : Oldest(k) /\ Complete(k, "data", sent + 1)
    BY <1>1 DEF Deliver
  <2>2. Answers(k, "data", sent + 1)
    BY <1>1, <2>1 DEF Deliver, Answers, Statuses
  <2> QED
    BY <2>2
<1>2. CASE Fail
  <2>1. PICK k \in Outstanding, st \in {"failed", "aborted"} : Oldest(k) /\ Complete(k, st, 0)
    BY <1>2 DEF Fail
  <2>2. Answers(k, st, 0)
    BY <1>2, <2>1 DEF Fail, Answers, Statuses
  <2> QED
    BY <2>2
<1>3. CASE FinishAbort
  <2>1. PICK k \in aborting : Complete(k, "aborted", 0)
    BY <1>3 DEF FinishAbort
  <2>2. k \in Outstanding /\ (InCall => k # Current)
    BY <2>1 DEF ReadInv, AbortsGivenUp
  <2>3. Answers(k, "aborted", 0)
    BY <1>3, <2>1, <2>2 DEF FinishAbort, Answers, Statuses
  <2> QED
    BY <2>3
<1> QED
  BY <1>1, <1>2, <1>3 DEF Driver

LEMMA DriverKeeps ==
  ASSUME ReadInv, Driver
  PROVE  ReadInv' /\ UNCHANGED host
<1>1. PICK k, st, pkt : Answers(k, st, pkt)
  BY DriverAnswers
<1>2. /\ k \in DOMAIN req /\ req[k].st = "pending" /\ st \in Statuses \ {"pending"}
      /\ pkt \in Nat /\ sent' \in Nat /\ sent' >= sent
      /\ req' = [req EXCEPT ![k] = [st |-> st, pkt |-> pkt]]
      /\ aborting' = aborting \ {k}
      /\ UNCHANGED <<pc, said, shown>>
  BY <1>1 DEF Answers, Complete, Outstanding, host, ReadInv, ReadsTyped
<1>3. /\ DOMAIN req = 1 .. Len(req) /\ DOMAIN req' = DOMAIN req /\ Len(req') = Len(req)
      /\ req' \in Seq([st : Statuses, pkt : Nat])
      /\ req'[k] = [st |-> st, pkt |-> pkt]
      /\ \A j \in DOMAIN req : j # k => req'[j] = req[j]
      /\ InCall' = InCall /\ Current' = Current
  <2>1. req \in Seq([st : Statuses, pkt : Nat]) /\ [st |-> st, pkt |-> pkt] \in [st : Statuses, pkt : Nat]
    BY <1>2 DEF ReadInv, ReadsTyped
  <2>2. /\ DOMAIN req = 1 .. Len(req) /\ DOMAIN req' = DOMAIN req /\ Len(req') = Len(req)
        /\ req' \in Seq([st : Statuses, pkt : Nat])
        /\ req'[k] = [st |-> st, pkt |-> pkt]
        /\ \A j \in DOMAIN req : j # k => req'[j] = req[j]
    BY <1>2, <2>1
  <2>3. InCall' = InCall /\ Current' = Current
    BY <1>2, <2>2 DEF InCall, Current
  <2> QED
    BY <2>2, <2>3
<1>11. sent \in Nat /\ \A j \in DOMAIN req : req[j] \in [st : Statuses, pkt : Nat]
  <2>1. req \in Seq([st : Statuses, pkt : Nat]) /\ sent \in Nat
    BY DEF ReadInv, ReadsTyped
  <2> QED
    BY <1>3, <2>1, ElementOfSeq
<1>4. Outstanding' = Outstanding \ {k}
  BY <1>2, <1>3 DEF Outstanding
<1>5. ReadsTyped'
  <2>1. ov' \in [st : Statuses \cup {"none"}, pkt : Nat]
    BY <1>1, <1>2 DEF Answers, Complete, ReadInv, ReadsTyped
  <2> QED
    BY <1>2, <1>3, <2>1 DEF ReadInv, ReadsTyped
<1>6. AbortsGivenUp'
  BY <1>2, <1>3, <1>4 DEF ReadInv, AbortsGivenUp
<1>7. PacketsInOrder'
  <2>1. ASSUME NEW j \in DOMAIN req, req'[j].st = "data"
        PROVE  req'[j].pkt \in 1 .. sent'
    <3>1. CASE j = k
      <4>1. st = "data" /\ req'[j].pkt = pkt
        BY <1>3, <2>1, <3>1
      <4>2. pkt = sent + 1 /\ sent' = sent + 1
        BY <1>1, <4>1 DEF Answers
      <4> QED
        BY <1>11, <4>1, <4>2
    <3>2. CASE j # k
      <4>1. req'[j] = req[j] /\ req[j].pkt \in 1 .. sent
        BY <1>3, <2>1, <3>2 DEF ReadInv, PacketsInOrder
      <4> QED
        BY <1>2, <1>11, <4>1
    <3> QED
      BY <3>1, <3>2
  <2>2. ASSUME NEW p \in 1 .. sent' PROVE \E j \in DOMAIN req : req'[j] = Data(p)
    <3>1. CASE p \in 1 .. sent
      <4>1. PICK j \in DOMAIN req : req[j] = Data(p)
        BY <3>1 DEF ReadInv, PacketsInOrder
      <4>2. j # k
        BY <1>2, <4>1 DEF Data
      <4> QED
        BY <1>3, <4>1, <4>2
    <3>2. CASE p \notin 1 .. sent
      <4>1. st = "data" /\ pkt = p
        BY <1>1, <1>2, <3>2 DEF Answers, ReadInv, ReadsTyped
      <4> QED
        BY <1>2, <1>3, <4>1 DEF Data
    <3> QED
      BY <3>1, <3>2
  <2>3. ASSUME NEW i \in DOMAIN req, NEW j \in DOMAIN req, i < j, req'[j].st = "data"
        PROVE  /\ req'[i].st # "pending"
               /\ req'[i].st = "data" => req'[i].pkt < req'[j].pkt
    <3>1. CASE j = k
      <4>1. st = "data" /\ pkt = sent + 1 /\ Oldest(k)
        BY <1>1, <1>3, <2>3, <3>1 DEF Answers
      <4>2. req'[i] = req[i] /\ i \notin Outstanding
        BY <1>2, <1>3, <2>3, <3>1, <4>1 DEF Oldest
      <4>3. req[i].st = "data" => req[i].pkt <= sent
        BY <1>11 DEF ReadInv, PacketsInOrder
      <4>4. req'[j].pkt = sent + 1
        BY <1>3, <3>1, <4>1
      <4>6. req[i] \in [st : Statuses, pkt : Nat] /\ sent \in Nat
        BY <1>11
      <4>5. req[i].st # "pending"
        BY <4>2 DEF Outstanding
      <4> QED
        BY <4>2, <4>3, <4>4, <4>5, <4>6
    <3>2. CASE j # k
      <4>1. req[j].st = "data" /\ req'[j] = req[j]
        BY <1>3, <2>3, <3>2
      <4>2. req[i].st # "pending" /\ i # k
        BY <1>2, <2>3, <4>1 DEF ReadInv, PacketsInOrder
      <4> QED
        BY <1>3, <2>3, <4>1, <4>2 DEF ReadInv, PacketsInOrder
    <3> QED
      BY <3>1, <3>2
  <2> QED
    BY <1>3, <2>1, <2>2, <2>3 DEF PacketsInOrder
<1>8. FrameIsCurrents'
  <2> SUFFICES ASSUME InCall, Current \notin Outstanding'
               PROVE  /\ Outstanding' = {}
                      /\ ov'.st = req'[Current].st
                      /\ ov'.st = "data" => ov'.pkt = req'[Current].pkt
    BY <1>3 DEF FrameIsCurrents
  <2>1. k = Current
    BY <1>1, <1>4 DEF Answers, ReadInv, FrameIsCurrents
  <2>2. Oldest(k)
    BY <1>1, <2>1 DEF Answers
  <2>3. Outstanding = {k}
    BY <1>1, <1>3, <2>1, <2>2 DEF Answers, Oldest, Outstanding, Current, ReadInv, ReadsTyped
  <2>4. ov' = [st |-> st, pkt |-> IF st = "data" THEN pkt ELSE ov.pkt]
    BY <1>1, <2>1 DEF Answers, Complete
  <2> QED
    BY <1>3, <1>4, <2>1, <2>3, <2>4
<1>9. SignalledIsAnswered'
  BY <1>2, <1>3, <1>4 DEF ReadInv, SignalledIsAnswered
<1>10. ShownIsOwn'
  <2>1. ReadsWithData' = ReadsWithData /\ shown' = shown
    BY <1>2 DEF ReadsWithData
  <2>2. ASSUME NEW j \in ReadsWithData
        PROVE  j \in DOMAIN req /\ req[j].st = "data" /\ j # k
    <3>1. Len(req) \in Nat /\ Len(said) \in Nat /\ Len(said) <= Len(req)
      BY DEF ReadInv, ReadsTyped
    <3>2. DOMAIN said = 1 .. Len(said) /\ DOMAIN req = 1 .. Len(req)
      BY DEF ReadInv, ReadsTyped
    <3>3. j \in DOMAIN req
      BY <3>1, <3>2 DEF ReadsWithData
    <3>4. req[j].st = "data"
      BY DEF ReadInv, ShownIsOwn
    <3> QED
      BY <1>2, <3>3, <3>4
  <2>3. \A j \in ReadsWithData : req'[j] = req[j]
    BY <1>3, <2>2
  <2> QED
    BY <2>1, <2>2, <2>3 DEF ReadInv, ShownIsOwn
<1> QED
  BY <1>2, <1>5, <1>6, <1>7, <1>8, <1>9, <1>10 DEF ReadInv, host

-----------------------------------------------------------------------------
(* The reads *)

\* Every request and packet so far is what its set says.
LEMMA Elements ==
  ASSUME ReadsTyped
  PROVE  /\ DOMAIN req = 1 .. Len(req) /\ DOMAIN said = 1 .. Len(said)
         /\ DOMAIN shown = 1 .. Len(shown)
         /\ \A k \in DOMAIN req : req[k] \in [st : Statuses, pkt : Nat]
         /\ \A k \in DOMAIN said : said[k] \in Reports
         /\ \A k \in DOMAIN shown : shown[k] \in Nat
<1>1. req \in Seq([st : Statuses, pkt : Nat]) /\ said \in Seq(Reports) /\ shown \in Seq(Nat)
  BY DEF ReadsTyped
<1>2. /\ DOMAIN req = 1 .. Len(req) /\ DOMAIN said = 1 .. Len(said)
      /\ DOMAIN shown = 1 .. Len(shown)
  BY <1>1
<1>3. \A k \in DOMAIN req : req[k] \in [st : Statuses, pkt : Nat]
  BY <1>1, <1>2, ElementOfSeq
<1>4. \A k \in DOMAIN said : said[k] \in Reports
  BY <1>1, <1>2, ElementOfSeq
<1>5. \A k \in DOMAIN shown : shown[k] \in Nat
  BY <1>1, <1>2, ElementOfSeq
<1> QED
  BY <1>2, <1>3, <1>4, <1>5

\* A report other than "data" changes nothing of what is printed and why.
LEMMA OtherReport ==
  ASSUME ReadInv, NEW what \in Reports \ {"data"},
         said' = Append(said, what), UNCHANGED shown,
         \A k \in DOMAIN said : k \in DOMAIN req /\ req'[k] = req[k]
  PROVE  ShownIsOwn'
<1>1. ReadsWithData' = ReadsWithData
  BY Elements DEF ReadInv, ReadsTyped, ReadsWithData
<1>2. \A k \in ReadsWithData : req'[k] = req[k]
  BY DEF ReadsWithData
<1> QED
  BY <1>1, <1>2 DEF ReadInv, ShownIsOwn

\* What a new request is, and what is said of it at once.
LEMMA NewRequest ==
  ASSUME ReadInv, Submit \/ SyncRead
  PROVE  /\ pc = "main" /\ Len(said) < Iterations
         /\ UNCHANGED <<aborting, shown>>
         /\ \/ /\ req' = Append(req, Pending) /\ pc' = "wait" /\ ov' = Pending
               /\ UNCHANGED <<said, sent>>
            \/ /\ Outstanding = {} /\ sent' = sent + 1 /\ req' = Append(req, Data(sent + 1))
               /\ pc' = "collect" /\ ov' = Data(sent + 1) /\ UNCHANGED said
            \/ \E st \in {"failed", "aborted"}, what \in {"error", "timeout"} :
                 /\ req' = Append(req, [st |-> st, pkt |-> 0])
                 /\ said' = Append(said, what) /\ pc' \in {"main", "closed"}
                 /\ UNCHANGED <<ov, sent>>
  BY DEF Submit, SyncRead, LeftPending, CompletedAtOnce, Refused, SyncTimeout, Stop, Report, MoreReads

LEMMA NewRequestKeeps ==
  ASSUME ReadInv, Submit \/ SyncRead
  PROVE  ReadInv'
<1> DEFINE n == Len(req) + 1
<1>1. /\ pc = "main" /\ Len(said) < Iterations /\ Len(req) = Len(said) /\ ~InCall
      /\ UNCHANGED <<aborting, shown>>
  BY NewRequest DEF ReadInv, ReadsTyped, InCall
<1>2. PICK r \in [st : Statuses, pkt : Nat] :
        /\ req' = Append(req, r) /\ sent' \in Nat
        /\ \/ r = Pending /\ pc' = "wait" /\ ov' = r /\ UNCHANGED <<said, sent>>
           \/ /\ Outstanding = {} /\ sent' = sent + 1 /\ r = Data(sent + 1)
              /\ pc' = "collect" /\ ov' = r /\ UNCHANGED said
           \/ /\ r.st \in {"failed", "aborted"} /\ pc' \in {"main", "closed"}
              /\ \E what \in Reports \ {"data"} : said' = Append(said, what)
              /\ UNCHANGED <<ov, sent>>
  <2>1. sent \in Nat /\ sent + 1 \in Nat
    BY DEF ReadInv, ReadsTyped
  <2>2. /\ Pending \in [st : Statuses, pkt : Nat] /\ Data(sent + 1) \in [st : Statuses, pkt : Nat]
        /\ \A st \in {"failed", "aborted"} : [st |-> st, pkt |-> 0] \in [st : Statuses, pkt : Nat]
    BY <2>1 DEF Pending, Data, Statuses
  <2>3. CASE req' = Append(req, Pending) /\ pc' = "wait" /\ ov' = Pending /\ UNCHANGED <<said, sent>>
    BY <2>1, <2>2, <2>3
  <2>4. CASE /\ Outstanding = {} /\ sent' = sent + 1 /\ req' = Append(req, Data(sent + 1))
             /\ pc' = "collect" /\ ov' = Data(sent + 1) /\ UNCHANGED said
    BY <2>1, <2>2, <2>4
  <2>5. ASSUME NEW st \in {"failed", "aborted"}, NEW what \in {"error", "timeout"},
               req' = Append(req, [st |-> st, pkt |-> 0]), said' = Append(said, what),
               pc' \in {"main", "closed"}, UNCHANGED <<ov, sent>>
        PROVE  \E r \in [st : Statuses, pkt : Nat] :
                 /\ req' = Append(req, r) /\ sent' \in Nat
                 /\ r.st \in {"failed", "aborted"} /\ pc' \in {"main", "closed"}
                 /\ \E w \in Reports \ {"data"} : said' = Append(said, w)
                 /\ UNCHANGED <<ov, sent>>
    <3>1. what \in Reports \ {"data"}
      BY DEF Reports
    <3>2. [st |-> st, pkt |-> 0] \in [st : Statuses, pkt : Nat]
      BY <2>2
    <3>3. [st |-> st, pkt |-> 0].st \in {"failed", "aborted"}
      OBVIOUS
    <3> QED
      BY <2>1, <2>5, <3>1, <3>2, <3>3
  <2> QED
    BY <2>3, <2>4, <2>5, NewRequest
<1>3. /\ DOMAIN req = 1 .. Len(req) /\ Len(req) \in Nat
      /\ Len(req') = n /\ DOMAIN req' = 1 .. n /\ req'[n] = r
      /\ \A k \in DOMAIN req : k < n /\ req'[k] = req[k]
      /\ \A k \in DOMAIN req' : k = n \/ k \in DOMAIN req
      /\ req' \in Seq([st : Statuses, pkt : Nat])
      /\ Current' = n
  <2>1. /\ req \in Seq([st : Statuses, pkt : Nat]) /\ Len(req) \in Nat
        /\ DOMAIN req = 1 .. Len(req) /\ n = Len(req) + 1
    BY <1>1 DEF ReadInv, ReadsTyped, Current
  <2>2. /\ req' \in Seq([st : Statuses, pkt : Nat]) /\ Len(req') = Len(req) + 1
        /\ req'[Len(req) + 1] = r /\ \A k \in 1 .. Len(req) : req'[k] = req[k]
    BY <1>2, <2>1, AppendProperties
  <2>3. DOMAIN req' = 1 .. Len(req')
    BY <2>2, LenProperties
  <2>4. /\ \A k \in DOMAIN req : k < n
        /\ \A k \in DOMAIN req' : k = n \/ k \in DOMAIN req
    BY <2>1, <2>2, <2>3
  <2>5. Current' = n
    BY <2>1, <2>2 DEF Current
  <2> QED
    BY <2>1, <2>2, <2>3, <2>4, <2>5
<1>4. Outstanding' = Outstanding \cup (IF r.st = "pending" THEN {n} ELSE {})
  BY <1>3 DEF Outstanding
<1>5. \A k \in DOMAIN req : req[k] \in [st : Statuses, pkt : Nat]
  BY Elements DEF ReadInv
<1>6. ReadsTyped'
  <2>1. sent \in Nat /\ ov \in [st : Statuses \cup {"none"}, pkt : Nat] /\ said \in Seq(Reports)
        /\ shown' \in Seq(Nat) /\ Iterations \in Nat
    BY <1>1, OverlappedAssumption DEF ReadInv, ReadsTyped
  <2>2. ov' \in [st : Statuses \cup {"none"}, pkt : Nat]
    BY <1>2, <2>1
  <2>3. said' \in Seq(Reports) /\ Len(req') = Len(said') + (IF InCall' THEN 1 ELSE 0)
    <3>1. Len(said) \in Nat /\ \A what \in Reports : /\ Append(said, what) \in Seq(Reports)
                                                   /\ Len(Append(said, what)) = Len(said) + 1
      BY <2>1
    <3>2. CASE pc' \in {"wait", "collect"} /\ UNCHANGED said
      BY <1>1, <1>3, <2>1, <3>1, <3>2 DEF InCall
    <3>3. CASE pc' \in {"main", "closed"} /\ \E what \in Reports \ {"data"} : said' = Append(said, what)
      BY <1>1, <1>3, <2>1, <3>1, <3>3 DEF InCall
    <3> QED
      BY <1>2, <3>2, <3>3
  <2>4. Len(req') <= Iterations
    BY <1>1, <1>3, <2>1
  <2> QED
    BY <1>2, <1>3, <2>1, <2>2, <2>3, <2>4 DEF ReadsTyped
<1>7. AbortsGivenUp'
  BY <1>1, <1>3, <1>4 DEF ReadInv, AbortsGivenUp, Outstanding
<1>8. PacketsInOrder'
  <2>1. sent \in Nat /\ PacketsInOrder
    BY DEF ReadInv, ReadsTyped
  <2>2. r.st = "data" => Outstanding = {} /\ r = Data(sent + 1) /\ sent' = sent + 1
    BY <1>2 DEF Pending, Data
  <2>3. r.st # "data" => sent' = sent
    BY <1>2 DEF Data
  <2>4. ASSUME NEW k \in DOMAIN req', req'[k].st = "data" PROVE req'[k].pkt \in 1 .. sent'
    <3>1. CASE k = n
      BY <1>3, <2>1, <2>2, <2>4, <3>1 DEF Data
    <3>2. CASE k # n
      <4>1. req[k].pkt \in 1 .. sent /\ req'[k] = req[k]
        BY <1>3, <2>1, <2>4, <3>2 DEF PacketsInOrder
      <4> QED
        BY <2>1, <2>2, <2>3, <4>1
    <3> QED
      BY <3>1, <3>2
  <2>5. ASSUME NEW p \in 1 .. sent' PROVE \E k \in DOMAIN req' : req'[k] = Data(p)
    <3>1. CASE p \in 1 .. sent
      BY <1>3, <2>1, <3>1 DEF PacketsInOrder
    <3>2. CASE p \notin 1 .. sent
      <4>1. r = Data(p)
        BY <2>1, <2>2, <2>3, <3>2
      <4>2. n \in DOMAIN req'
        BY <1>3
      <4> QED
        BY <1>3, <4>1, <4>2
    <3> QED
      BY <3>1, <3>2
  <2>6. ASSUME NEW j \in DOMAIN req', NEW k \in DOMAIN req', j < k, req'[k].st = "data"
        PROVE  /\ req'[j].st # "pending"
               /\ req'[j].st = "data" => req'[j].pkt < req'[k].pkt
    <3>1. j \in DOMAIN req /\ req'[j] = req[j]
      BY <1>3, <2>6
    <3>2. CASE k = n
      <4>1. Outstanding = {} /\ r.pkt = sent + 1
        BY <1>3, <2>2, <2>6, <3>2 DEF Data
      <4>2. req[j].st = "data" => req[j].pkt \in 1 .. sent
        BY <2>1, <3>1 DEF PacketsInOrder
      <4>3. req[j].st # "pending"
        BY <3>1, <4>1 DEF Outstanding
      <4> QED
        BY <1>3, <2>1, <3>1, <3>2, <4>1, <4>2, <4>3
    <3>3. CASE k # n
      BY <1>3, <2>1, <2>6, <3>1, <3>3 DEF PacketsInOrder
    <3> QED
      BY <3>2, <3>3
  <2> QED
    BY <2>4, <2>5, <2>6 DEF PacketsInOrder
<1>9. FrameIsCurrents' /\ SignalledIsAnswered'
  <2>1. CASE r = Pending
    <3>1. n \in Outstanding' /\ pc' = "wait"
      BY <1>2, <1>4, <2>1 DEF Pending, Data
    <3> QED
      BY <1>3, <3>1 DEF FrameIsCurrents, SignalledIsAnswered
  <2>2. CASE r = Data(sent + 1)
    <3>1. Outstanding' = {} /\ ov' = r
      BY <1>2, <1>4, <2>2 DEF Pending, Data
    <3> QED
      BY <1>3, <3>1 DEF FrameIsCurrents, SignalledIsAnswered
  <2>3. CASE r.st \in {"failed", "aborted"}
    <3>1. pc' \in {"main", "closed"}
      BY <1>2, <2>3 DEF Pending, Data
    <3> QED
      BY <3>1 DEF FrameIsCurrents, SignalledIsAnswered, InCall
  <2> QED
    BY <1>2, <2>1, <2>2, <2>3
<1>10. ShownIsOwn'
  <2>1. \A k \in DOMAIN said : k \in DOMAIN req /\ req'[k] = req[k]
    BY <1>1, <1>3, Elements DEF ReadInv
  <2>2. CASE UNCHANGED said
    <3>1. ReadsWithData' = ReadsWithData /\ \A k \in ReadsWithData : req'[k] = req[k]
      BY <2>1, <2>2 DEF ReadsWithData
    <3> QED
      BY <1>1, <3>1 DEF ReadInv, ShownIsOwn
  <2>3. CASE \E what \in Reports \ {"data"} : said' = Append(said, what)
    BY <1>1, <2>1, <2>3, OtherReport
  <2> QED
    BY <1>2, <2>2, <2>3
<1> QED
  BY <1>6, <1>7, <1>8, <1>9, <1>10 DEF ReadInv

\* The steps of a read that ask nothing of the driver.
Waiting == WaitSignalled \/ WaitTimeout \/ GiveUp \/ Collect \/ Close \/ WaitFailed \/ ResultFails

\* What a finished read reports: nothing but what it has, and then it prints
\* the packet it was given.
LEMMA ReportOf ==
  ASSUME ReadInv, Waiting
  PROVE  /\ UNCHANGED <<req, sent, ov>> /\ aborting' \in {aborting, Outstanding}
         /\ \/ /\ InCall /\ pc' \in {"timed_out", "collect"} /\ UNCHANGED <<said, shown, aborting>>
               /\ pc' = "collect" => Current \notin Outstanding
            \/ pc = "main" /\ pc' = "closed" /\ UNCHANGED <<said, shown>>
            \/ /\ InCall /\ pc' \in {"main", "closed"} /\ UNCHANGED shown
               /\ \E what \in Reports \ {"data"} : said' = Append(said, what)
            \/ /\ InCall /\ pc' = "main" /\ said' = Append(said, "data")
               /\ req[Current].st = "data" /\ shown' = Append(shown, req[Current].pkt)
<1> USE DEF InCall, Reports
<1>1. CASE WaitSignalled \/ WaitTimeout
  BY <1>1 DEF WaitSignalled, WaitTimeout
<1>2. CASE GiveUp \/ WaitFailed \/ ResultFails
  BY <1>2 DEF GiveUp, WaitFailed, ResultFails, Report, Stop
<1>3. CASE Close
  BY <1>3 DEF Close
<1>4. CASE Collect
  <2>1. ov.st = "data" => req[Current].st = "data" /\ ov.pkt = req[Current].pkt
    BY <1>4 DEF Collect, ReadInv, SignalledIsAnswered, FrameIsCurrents
  <2>2. shown \in Seq(Nat)
    BY DEF ReadInv, ReadsTyped
  <2>3. CASE HasData /\ shown' = shown \o Printed(ov.pkt) /\ Report("data")
    <3>1. req[Current] \in [st : Statuses, pkt : Nat]
      <4>1. Current \in DOMAIN req
        BY <1>4, Elements DEF Collect, Current, ReadInv, ReadsTyped
      <4> QED
        BY <4>1, Elements DEF ReadInv
    <3>2. shown \o <<req[Current].pkt>> = Append(shown, req[Current].pkt)
      BY <2>2, <3>1
    <3> QED
      BY <1>4, <2>1, <2>3, <3>2 DEF Collect, HasData, Printed, Report
  <2>4. CASE ~HasData
    BY <1>4, <2>4 DEF Collect, HasData, Report, Stop
  <2>5. CASE ov.st = "failed" /\ Stop /\ UNCHANGED shown
    BY <1>4, <2>5 DEF Collect, Stop
  <2> QED
    BY <1>4, <2>3, <2>4, <2>5 DEF Collect
<1> QED
  BY <1>1, <1>2, <1>3, <1>4 DEF Waiting

LEMMA WaitingKeeps ==
  ASSUME ReadInv, Waiting
  PROVE  ReadInv'
<1>1. /\ UNCHANGED <<req, sent, ov, Outstanding, Current>> /\ aborting' \in {aborting, Outstanding}
      /\ InCall' => InCall
  BY ReportOf DEF Outstanding, Current, InCall
<1>2. PacketsInOrder'
  BY <1>1 DEF ReadInv, PacketsInOrder
<1>3. FrameIsCurrents'
  BY <1>1 DEF ReadInv, FrameIsCurrents
<1>4. SignalledIsAnswered'
  BY <1>1, ReportOf DEF ReadInv, SignalledIsAnswered
<1>5. AbortsGivenUp'
  BY <1>1, ReportOf DEF ReadInv, AbortsGivenUp, InCall
<1>6. /\ Len(said) \in Nat /\ Len(req) \in Nat /\ Current = Len(req)
      /\ said \in Seq(Reports) /\ shown \in Seq(Nat)
      /\ DOMAIN said = 1 .. Len(said) /\ DOMAIN shown = 1 .. Len(shown)
      /\ InCall => Current = Len(said) + 1 /\ Current \in DOMAIN req
      /\ ~InCall => Len(req) = Len(said)
  BY Elements DEF ReadInv, ReadsTyped, Current
<1>7. ReadsTyped' /\ ShownIsOwn'
  <2>1. CASE InCall /\ pc' \in {"timed_out", "collect"} /\ UNCHANGED <<said, shown, aborting>>
    <3>1. ReadsTyped'
      BY <1>1, <2>1 DEF ReadInv, ReadsTyped, InCall
    <3>2. ReadsWithData' = ReadsWithData
      BY <2>1 DEF ReadsWithData
    <3> QED
      BY <1>1, <2>1, <3>1, <3>2 DEF ReadInv, ShownIsOwn
  <2>2. CASE pc = "main" /\ pc' = "closed" /\ UNCHANGED <<said, shown>>
    <3>1. ReadsTyped'
      BY <1>1, <2>2 DEF ReadInv, ReadsTyped, InCall
    <3>2. ReadsWithData' = ReadsWithData
      BY <2>2 DEF ReadsWithData
    <3> QED
      BY <1>1, <2>2, <3>1, <3>2 DEF ReadInv, ShownIsOwn
  <2>3. CASE InCall /\ pc' \in {"main", "closed"} /\ UNCHANGED shown
             /\ \E what \in Reports \ {"data"} : said' = Append(said, what)
    <3>1. PICK what \in Reports \ {"data"} : said' = Append(said, what)
      BY <2>3
    <3>2. said' \in Seq(Reports) /\ Len(said') = Len(said) + 1
      BY <1>6, <3>1
    <3>3. ReadsTyped'
      <4>1. ~InCall' /\ pc' \in {"main", "closed"}
        BY <2>3 DEF InCall
      <4>2. Len(req') = Len(said')
        BY <1>1, <1>6, <2>3, <3>2
      <4> QED
        BY <1>1, <2>3, <3>2, <4>1, <4>2 DEF ReadInv, ReadsTyped
    <3>4. \A k \in DOMAIN said : k \in DOMAIN req /\ req'[k] = req[k]
      BY <1>1, <1>6, <2>3, Elements DEF ReadInv
    <3> QED
      BY <2>3, <3>1, <3>3, <3>4, OtherReport
  <2>4. CASE /\ InCall /\ pc' = "main" /\ said' = Append(said, "data")
             /\ req[Current].st = "data" /\ shown' = Append(shown, req[Current].pkt)
    <3> DEFINE p == req[Current].pkt
    <3>1. p \in Nat
      <4>1. req[Current] \in [st : Statuses, pkt : Nat]
        BY <1>6, <2>4, Elements DEF ReadInv
      <4> QED
        BY <4>1
    <3>2. said' \in Seq(Reports) /\ Len(said') = Len(said) + 1
      BY <1>6, <2>4 DEF Reports
    <3>3. /\ shown' \in Seq(Nat) /\ DOMAIN shown' = 1 .. (Len(shown) + 1)
          /\ shown'[Len(shown) + 1] = p
          /\ \A n \in DOMAIN shown : shown'[n] = shown[n]
      BY <1>6, <2>4, <3>1
    <3>4. ReadsTyped'
      <4>1. ~InCall' /\ pc' = "main"
        BY <2>4 DEF InCall
      <4>2. Len(req') = Len(said')
        BY <1>1, <1>6, <2>4, <3>2
      <4> QED
        BY <1>1, <3>2, <3>3, <4>1, <4>2 DEF ReadInv, ReadsTyped
    <3>5. ReadsWithData' = ReadsWithData \cup {Current}
      BY <1>6, <2>4 DEF ReadsWithData
    <3>6. \A k \in ReadsWithData : /\ k \in DOMAIN req /\ k < Current /\ req[k].st = "data"
                                   /\ req[k].pkt < p
      <4>1. \A k \in ReadsWithData : k \in DOMAIN req /\ k < Current /\ req[k].st = "data"
        BY <1>6, <2>4, Elements DEF ReadsWithData, ReadInv, ShownIsOwn
      <4> QED
        BY <1>6, <2>4, <4>1 DEF ReadInv, PacketsInOrder
    <3>7. \A n \in DOMAIN shown : shown[n] < p
      <4>1. \A n \in DOMAIN shown : shown[n] \in ToSet(shown)
        BY DEF ToSet
      <4> QED
        BY <3>6, <4>1 DEF ReadInv, ShownIsOwn
    <3>8. ToSet(shown') = ToSet(shown) \cup {p}
      <4>1. ASSUME NEW n \in DOMAIN shown' PROVE shown'[n] \in ToSet(shown) \cup {p}
        <5>1. DOMAIN shown = 1 .. Len(shown) /\ Len(shown) \in Nat
          BY <1>6
        <5>2. n \in DOMAIN shown \/ n = Len(shown) + 1
          BY <3>3, <5>1
        <5> QED
          BY <3>3, <5>2 DEF ToSet
      <4>2. ASSUME NEW n \in DOMAIN shown PROVE shown[n] \in ToSet(shown')
        <5>1. n \in DOMAIN shown' /\ shown'[n] = shown[n]
          BY <1>6, <3>3
        <5> QED
          BY <5>1 DEF ToSet
      <4>3. p \in ToSet(shown')
        <5>1. Len(shown) + 1 \in DOMAIN shown'
          BY <1>6, <3>3
        <5> QED
          BY <3>3, <5>1 DEF ToSet
      <4> QED
        BY <4>1, <4>2, <4>3 DEF ToSet
    <3>9. ToSet(shown') = {req'[k].pkt : k \in ReadsWithData'}
      BY <1>1, <3>5, <3>8 DEF ReadInv, ShownIsOwn
    <3>10. \A k \in ReadsWithData' : req'[k].st = "data"
      BY <1>1, <2>4, <3>5, <3>6
    <3>11. ASSUME NEW m \in DOMAIN shown', NEW n \in DOMAIN shown', m < n
           PROVE  shown'[m] < shown'[n]
      <4>1. m \in DOMAIN shown
        BY <1>6, <3>3, <3>11
      <4>2. CASE n \in DOMAIN shown
        BY <3>3, <3>11, <4>1, <4>2 DEF ReadInv, ShownIsOwn
      <4>3. CASE n = Len(shown) + 1
        BY <3>3, <3>7, <4>1, <4>3
      <4> QED
        BY <1>6, <3>3, <4>2, <4>3
    <3> QED
      BY <3>4, <3>9, <3>10, <3>11 DEF ShownIsOwn
  <2> QED
    BY <2>1, <2>2, <2>3, <2>4, ReportOf
<1> QED
  BY <1>2, <1>3, <1>4, <1>5, <1>7 DEF ReadInv

LEMMA ReadInvStays ==
  ASSUME ReadInv, UNCHANGED reading
  PROVE  ReadInv'
<1>1. UNCHANGED <<pc, req, aborting, sent, ov, said, shown>>
  BY DEF reading, vars
<1>2. UNCHANGED <<Outstanding, InCall, Current, ReadsWithData>>
  BY <1>1 DEF Outstanding, InCall, Current, ReadsWithData
<1>3. ReadsTyped' /\ AbortsGivenUp' /\ SignalledIsAnswered' /\ FrameIsCurrents'
  BY <1>1, <1>2 DEF ReadInv, ReadsTyped, AbortsGivenUp, SignalledIsAnswered, FrameIsCurrents
<1>4. PacketsInOrder' /\ ShownIsOwn'
  BY <1>1, <1>2 DEF ReadInv, PacketsInOrder, ShownIsOwn
<1> QED
  BY <1>3, <1>4 DEF ReadInv

\* A packet the driver was given belongs to a request; if that read is over, it
\* reported the packet and it was printed, or it reported something else.
LEMMA NoneLost ==
  ASSUME ReadInv
  PROVE  LossIsReported
<1> SUFFICES ASSUME NEW p \in 1 .. sent
             PROVE  \E k \in DOMAIN req :
                      /\ req[k] = Data(p)
                      /\ \/ k > Len(said)
                         \/ said[k] = "data" /\ p \in ToSet(shown)
                         \/ said[k] \in {"timeout", "aborted", "error"}
  BY DEF LossIsReported
<1>1. PICK k \in DOMAIN req : req[k] = Data(p)
  BY DEF ReadInv, PacketsInOrder
<1>2. k > Len(said) \/ k \in DOMAIN said
  BY Elements DEF ReadInv, ReadsTyped
<1>3. CASE k \in DOMAIN said /\ said[k] = "data"
  <2>1. k \in ReadsWithData /\ req[k].pkt = p
    BY <1>1, <1>3 DEF ReadsWithData, Data
  <2> QED
    BY <1>1, <1>3, <2>1 DEF ReadInv, ShownIsOwn
<1>4. CASE k \in DOMAIN said /\ said[k] # "data"
  BY <1>1, <1>4, Elements DEF ReadInv, Reports
<1> QED
  BY <1>1, <1>2, <1>3, <1>4

-----------------------------------------------------------------------------
(* The program *)

BeforeQueries == {"start", "file", "interface", "settings"}
Opened == {"transfer", "probes", "reading"}

ToolsTyped ==
  /\ tool \in {"probe", "monitor", "control", "init"}
  /\ at \in BeforeQueries \cup {"pipes"} \cup Opened \cup {"release", "exit"}
  /\ held \subseteq {"path", "handle", "winusb"}
  /\ pipes \in Seq(Endpoints \cup {"unasked"}) /\ queried \in 0 .. Len(pipes)
  /\ found \in BOOLEAN

\* What was done when the program is where it is.
Progress ==
  /\ at = "start" => held = {}
  /\ at \notin {"reading", "release", "exit"} => pc = "main" /\ said = <<>>
  /\ InCall => at = "reading"
  /\ at \in BeforeQueries => queried = 0 /\ pipes = Unasked
  /\ at \in BeforeQueries \cup {"pipes", "transfer"} => tried = 0
  /\ at = "probes" => tried \in 0 .. (Controls - 1)
  /\ at \in Opened => tool # "probe"
  /\ at = "transfer" => tool = "control"
  /\ at = "probes" => tool = "init"
  /\ at = "reading" /\ tool = "init" => tried = Controls

\* The interface was asked for what is read.
Queried ==
  /\ found <=> \E k \in 1 .. queried : pipes[k] = "expected"
  /\ at \in Opened \/ said # <<>> => found

Verdict ==
  status = 0 <=>
    \/ tool \in {"monitor", "control"} /\ Len(said) = Iterations /\ ~ReadError
    \/ tool = "probe" /\ queried = Len(pipes)
    \/ tool = "init" /\ tried = Controls

VerdictKnown ==
  /\ pc = "closed" => ReadError \/ Len(said) = Iterations
  /\ at \in {"release", "exit"} => Verdict

\* What is held when main is on its way out is on the list, in its order.
ReleasesCover ==
  /\ at \in {"release", "exit"} =>
       \/ todo = <<"winusb", "handle", "path">>
       \/ todo = <<"winusb", "handle">> /\ "path" \notin held
       \/ todo = <<"handle", "path">> /\ "winusb" \notin held
       \/ todo = <<"handle">> /\ held \subseteq {"handle"}
       \/ todo = <<"path">> /\ held \subseteq {"path"}
       \/ todo = <<>> /\ held = {}
  /\ at = "exit" => todo = <<>>

ToolInv ==
  /\ ReadInv /\ HandlesInUse /\ ToolsTyped /\ Progress /\ Queried /\ VerdictKnown
  /\ ReleasesCover

LEMMA InitToolInv == ToolInit => ToolInv
<1> SUFFICES ASSUME ToolInit PROVE ToolInv
  OBVIOUS
<1> USE DEF ToolInit, Init
<1>1. Outstanding = {} /\ ~InCall /\ ReadsWithData = {}
  BY DEF Outstanding, InCall, ReadsWithData
<1>2. ReadsTyped
  BY <1>1, OverlappedAssumption DEF ReadsTyped, Statuses
<1>3. AbortsGivenUp /\ FrameIsCurrents /\ SignalledIsAnswered
  BY <1>1 DEF AbortsGivenUp, FrameIsCurrents, SignalledIsAnswered
<1>4. PacketsInOrder
  BY DEF PacketsInOrder
<1>5. ShownIsOwn
  BY <1>1 DEF ShownIsOwn, ToSet
<1>6. HandlesInUse
  BY <1>1 DEF HandlesInUse, Needs
<1>7. ToolsTyped
  <2>1. Unasked \in Seq(Endpoints \cup {"unasked"})
    BY DEF Unasked
  <2>2. 0 \in 0 .. Len(Unasked)
    BY DEF Unasked
  <2> QED
    BY <2>1, <2>2 DEF ToolsTyped, BeforeQueries
<1>8. Progress /\ Queried /\ VerdictKnown /\ ReleasesCover
  BY <1>1 DEF Progress, Queried, VerdictKnown, ReleasesCover, BeforeQueries, Opened
<1> QED
  BY <1>2, <1>3, <1>4, <1>5, <1>6, <1>7, <1>8 DEF ReadInv, ToolInv

\* Nothing of the reads moves when the program is at another call.
LEMMA Quiet ==
  ASSUME ToolInv, UNCHANGED reading
  PROVE  /\ ReadInv' /\ UNCHANGED <<pc, said, InCall, ReadError>>
         /\ Len(said) \in Nat /\ (said = <<>> => Len(said) = 0)
         /\ Iterations \in Nat \ {0} /\ Controls \in Nat \ {0}
<1>1. ReadInv' /\ UNCHANGED <<pc, said>>
  BY ReadInvStays DEF ToolInv, reading, vars
<1>2. said \in Seq(Reports)
  BY DEF ToolInv, ReadInv, ReadsTyped
<1> QED
  BY <1>1, <1>2, OverlappedAssumption, ToolsAssumption DEF InCall, ReadError

\* What main has when it leaves is what ks959_close, or the probe's cleanup,
\* releases.
LEMMA QuitCovers ==
  ASSUME ToolsTyped, Return(status', ReleaseOrder), UNCHANGED tool,
         held' \subseteq {"path", "handle", "winusb"}, "path" \in held' => tool = "probe"
  PROVE  ReleasesCover'
<1>1. at' = "release" /\ todo' = ReleaseOrder
  BY DEF Return
<1>2. CASE tool = "probe"
  BY <1>1, <1>2 DEF ReleaseOrder, ReleasesCover
<1>3. CASE tool # "probe"
  BY <1>1, <1>3 DEF ReleaseOrder, ReleasesCover
<1> QED
  BY <1>2, <1>3

\* Until the endpoints are all queried nothing was read or tried, so that a
\* failure gives no tool the work it would report.
LEMMA OpeningStep ==
  ASSUME ToolInv, Pull \/ BadArguments \/ GetDevicePath \/ CreateFile \/ Initialize
  PROVE  ToolInv'
<1> USE DEF ToolInv, OpenFailed, Quit, Return, GoOn, OpenStatus, BeforeQueries, Opened, opening
<1>1. /\ ReadInv' /\ UNCHANGED <<pc, said, InCall, ReadError, tool, pipes, queried, tried, found>>
      /\ Len(said) \in Nat /\ (said = <<>> => Len(said) = 0)
      /\ Iterations \in Nat \ {0} /\ Controls \in Nat \ {0}
  BY Quiet DEF Pull, BadArguments, GetDevicePath, CreateFile, Initialize
<1>2. \/ UNCHANGED <<at, held, status, todo>>
      \/ at = "start" /\ held = {} /\ at' = "file" /\ held' = {"path"} /\ UNCHANGED status
      \/ at = "file" /\ at' = "interface" /\ held' = PathAfter \cup {"handle"} /\ UNCHANGED status
      \/ at = "interface" /\ at' = "settings" /\ held' = held \cup {"winusb"} /\ UNCHANGED status
      \/ /\ at \in BeforeQueries /\ at' = "release" /\ status' \in {1, 2}
         /\ held' \in {held, PathAfter} /\ (at \in {"start", "interface"} => held' = held)
  BY DEF Pull, BadArguments, GetDevicePath, CreateFile, Initialize, Progress
<1>7. ReleasesCover'
  <2>1. CASE UNCHANGED <<at, held, todo>>
    BY <2>1 DEF ReleasesCover
  <2>2. CASE at' \in BeforeQueries
    BY <2>2 DEF ReleasesCover
  <2>3. CASE at = "start" /\ at' = "release" /\ todo' = <<>> /\ held' = held
    BY <2>3 DEF ReleasesCover, Progress
  <2>4. CASE at = "file" /\ Return(status', ReleaseOrder) /\ held' = PathAfter
    BY <1>1, <2>4, QuitCovers DEF PathAfter
  <2>5. CASE at = "interface" /\ Return(status', ReleaseOrder) /\ held' = held
    <3>1. held \subseteq {"path", "handle", "winusb"} /\ ("path" \in held => tool = "probe")
      BY <2>5 DEF ToolsTyped, HandlesInUse, Needs
    <3> QED
      BY <1>1, <2>5, <3>1, QuitCovers
  <2>6. \/ UNCHANGED <<at, held, todo>>
        \/ at' \in BeforeQueries
        \/ at = "start" /\ at' = "release" /\ todo' = <<>> /\ held' = held
        \/ at = "file" /\ Return(status', ReleaseOrder) /\ held' = PathAfter
        \/ at = "interface" /\ Return(status', ReleaseOrder) /\ held' = held
    BY DEF Pull, BadArguments, GetDevicePath, CreateFile, Initialize
  <2> QED
    BY <2>1, <2>2, <2>3, <2>4, <2>5, <2>6
<1>3. HandlesInUse'
  BY <1>1, <1>2 DEF HandlesInUse, Needs, PathAfter, Progress
<1>4. ToolsTyped'
  BY <1>1, <1>2 DEF ToolsTyped, PathAfter
<1>5. Progress' /\ Queried'
  BY <1>1, <1>2 DEF Progress, Queried
<1>6. VerdictKnown'
  <2>1. pc = "closed" => ReadError \/ Len(said) = Iterations
    BY DEF VerdictKnown
  <2>2. CASE UNCHANGED <<at, held, status>>
    BY <1>1, <2>2 DEF VerdictKnown, Verdict
  <2>3. CASE at' \in BeforeQueries
    BY <1>1, <2>1, <2>3 DEF VerdictKnown
  <2>4. CASE at \in BeforeQueries /\ at' = "release" /\ status' \in {1, 2}
    <3>1. queried = 0 /\ Len(pipes) = 1 /\ tried = 0 /\ Len(said) = 0
      BY <1>1, <2>4 DEF Progress, Unasked
    <3> QED
      BY <1>1, <2>1, <2>4, <3>1 DEF VerdictKnown, Verdict
  <2> QED
    BY <1>2, <2>2, <2>3, <2>4
<1> QED
  BY <1>1, <1>3, <1>4, <1>5, <1>6, <1>7

LEMMA QueryStep ==
  ASSUME ToolInv, QuerySettings \/ QueryPipe \/ EndOfPipes
  PROVE  ToolInv'
<1> USE DEF ToolInv, OpenFailed, Quit, Return, GoOn, OpenStatus, BeforeQueries, Opened, opening
<1>1. /\ ReadInv' /\ UNCHANGED <<pc, said, InCall, ReadError, tool, held, tried>>
      /\ Len(said) \in Nat /\ (said = <<>> => Len(said) = 0)
      /\ Iterations \in Nat \ {0} /\ Controls \in Nat \ {0}
  BY Quiet DEF QuerySettings, QueryPipe, EndOfPipes
<1>2. /\ at \in {"settings", "pipes"} /\ said = <<>> /\ pc = "main" /\ tried = 0
      /\ (at = "settings" => queried = 0 /\ pipes = Unasked /\ Len(pipes) = 1)
  BY DEF QuerySettings, QueryPipe, EndOfPipes, Progress, Unasked
<1>3. /\ pipes \in Seq(Endpoints \cup {"unasked"}) /\ Len(pipes) \in Nat /\ queried \in Nat
      /\ queried <= Len(pipes)
  BY DEF ToolsTyped
<1>4. \/ at = "settings" /\ at' = "pipes" /\ pipes' \in Seq(Endpoints) /\ UNCHANGED <<queried, found, status>>
      \/ /\ at = "pipes" /\ at' = "pipes" /\ queried' = queried + 1 /\ queried < Len(pipes)
         /\ found' = (found \/ pipes[queried + 1] = "expected") /\ UNCHANGED <<pipes, status>>
      \/ /\ at' = "release" /\ status' \in {1, 2} /\ UNCHANGED <<pipes, queried, found>>
         /\ (tool = "probe" => queried < Len(pipes))
      \/ /\ at = "pipes" /\ tool = "probe" /\ at' = "release" /\ status' = 0 /\ queried = Len(pipes)
         /\ UNCHANGED <<pipes, queried, found>>
      \/ /\ at = "pipes" /\ tool # "probe" /\ found /\ at' = NextAfterOpen
         /\ UNCHANGED <<pipes, queried, found, status>>
  <2>1. CASE QuerySettings
    <3>1. Interfaces \subseteq Seq(Endpoints)
      BY ToolsAssumption DEF Interfaces, BoundedSeq, SeqOf
    <3> QED
      BY <1>2, <2>1, <3>1 DEF QuerySettings
  <2>2. CASE QueryPipe
    BY <2>2 DEF QueryPipe, Matches
  <2>3. CASE EndOfPipes
    BY <2>3 DEF EndOfPipes
  <2> QED
    BY <2>1, <2>2, <2>3
<1>5. at' \in {"pipes", "release"} \cup Opened
  BY <1>4 DEF NextAfterOpen
<1>6. HandlesInUse'
  <2>1. {"handle", "winusb"} \subseteq held
    BY <1>2 DEF HandlesInUse, Needs
  <2> QED
    BY <1>1, <1>2, <1>5, <2>1 DEF HandlesInUse, Needs
<1>7. ToolsTyped'
  <2>1. pipes' \in Seq(Endpoints \cup {"unasked"})
    BY <1>3, <1>4
  <2>2. queried' \in 0 .. Len(pipes')
    <3>1. Len(pipes') \in Nat
      BY <2>1
    <3> QED
      BY <1>2, <1>3, <1>4, <3>1
  <2>3. found' \in BOOLEAN
    <3>1. found \in BOOLEAN
      BY DEF ToolsTyped
    <3> QED
      BY <1>4, <3>1
  <2> QED
    BY <1>1, <1>5, <2>1, <2>2, <2>3 DEF ToolsTyped
<1>8. Progress'
  BY <1>1, <1>2, <1>4 DEF Progress, NextAfterOpen, ToolsTyped
<1>9. Queried'
  <2>1. found' <=> \E k \in 1 .. queried' : pipes'[k] = "expected"
    <3>1. CASE at = "settings" /\ at' = "pipes" /\ UNCHANGED <<queried, found, status>>
      BY <1>2, <3>1 DEF Queried
    <3>2. CASE /\ queried' = queried + 1 /\ UNCHANGED pipes
               /\ found' = (found \/ pipes[queried + 1] = "expected")
      <4>1. \A k : k \in 1 .. (queried + 1) <=> k \in 1 .. queried \/ k = queried + 1
        BY <1>3
      <4>2. found <=> \E k \in 1 .. queried : pipes[k] = "expected"
        BY DEF Queried
      <4> QED
        BY <3>2, <4>1, <4>2
    <3>3. CASE UNCHANGED <<pipes, queried, found>>
      BY <3>3 DEF Queried
    <3> QED
      BY <1>4, <3>1, <3>2, <3>3
  <2>2. at' \in Opened => found'
    BY <1>4
  <2> QED
    BY <1>1, <1>2, <2>1, <2>2 DEF Queried
<1>10. VerdictKnown'
  <2>1. at' = "release" => Verdict'
    <3>1. CASE status' \in {1, 2} /\ UNCHANGED <<pipes, queried>> /\ (tool = "probe" => queried < Len(pipes))
      BY <1>1, <1>2, <1>3, <3>1 DEF Verdict
    <3>2. CASE tool = "probe" /\ status' = 0 /\ queried = Len(pipes) /\ UNCHANGED <<pipes, queried>>
      BY <1>1, <3>2 DEF Verdict
    <3> QED
      BY <1>4, <3>1, <3>2 DEF NextAfterOpen
  <2> QED
    BY <1>1, <1>2, <1>5, <2>1 DEF VerdictKnown
<1>11. ReleasesCover'
  <2>1. CASE at' = "release" /\ Return(status', ReleaseOrder)
    <3>1. held \subseteq {"path", "handle", "winusb"} /\ ("path" \in held => tool = "probe")
      BY <1>2 DEF ToolsTyped, HandlesInUse, Needs
    <3> QED
      BY <1>1, <2>1, <3>1, QuitCovers
  <2>2. at' = "release" => Return(status', ReleaseOrder)
    BY DEF QuerySettings, QueryPipe, EndOfPipes, NextAfterOpen
  <2>3. CASE at' \notin {"release", "exit"}
    BY <2>3 DEF ReleasesCover
  <2> QED
    BY <1>5, <2>1, <2>2, <2>3
<1> QED
  BY <1>1, <1>6, <1>7, <1>8, <1>9, <1>10, <1>11

LEMMA ProbeStep ==
  ASSUME ToolInv, Transfer \/ ControlProbe
  PROVE  ToolInv'
<1> USE DEF ToolInv, Quit, Return, GoOn, BeforeQueries, Opened
<1>1. /\ ReadInv' /\ UNCHANGED <<pc, said, InCall, ReadError, tool, held, pipes, queried, found>>
      /\ Len(said) \in Nat /\ (said = <<>> => Len(said) = 0)
      /\ Iterations \in Nat \ {0} /\ Controls \in Nat \ {0}
  BY Quiet DEF Transfer, ControlProbe
<1>2. /\ said = <<>> /\ pc = "main" /\ found /\ {"handle", "winusb"} \subseteq held
  BY DEF Transfer, ControlProbe, Progress, Queried, HandlesInUse, Needs
<1>3. \/ tool = "control" /\ at' = "reading"
      \/ tool = "control" /\ at' = "release" /\ status' = 3
      \/ tool = "init" /\ at' = "probes" /\ tried' \in 0 .. (Controls - 1)
      \/ tool = "init" /\ at' = "reading" /\ tried' = Controls
  <2>1. CASE Transfer
    BY <2>1 DEF Transfer, Progress
  <2>2. CASE ControlProbe
    <3>1. tool = "init" /\ tried \in 0 .. (Controls - 1) /\ tried' = tried + 1
      BY <2>2 DEF ControlProbe, Progress
    <3>2. tried' \in 0 .. Controls
      BY <1>1, <3>1
    <3> QED
      BY <1>1, <2>2, <3>1, <3>2 DEF ControlProbe
  <2> QED
    BY <2>1, <2>2
<1>4. HandlesInUse'
  BY <1>1, <1>2, <1>3 DEF HandlesInUse, Needs
<1>5. ToolsTyped'
  BY <1>1, <1>3 DEF ToolsTyped
<1>6. Progress' /\ Queried'
  <2>1. ~InCall'
    BY <1>1, <1>2 DEF InCall
  <2>2. Progress'
    BY <1>1, <1>2, <1>3, <2>1 DEF Progress
  <2> QED
    BY <1>1, <1>2, <2>2 DEF Queried
<1>7. VerdictKnown'
  BY <1>1, <1>2, <1>3 DEF VerdictKnown, Verdict
<1>8. ReleasesCover'
  <2>1. at' = "release" => Return(status', ReleaseOrder)
    BY DEF Transfer, ControlProbe
  <2>2. CASE at' = "release"
    <3>1. held \subseteq {"path", "handle", "winusb"} /\ ("path" \in held => tool = "probe")
      BY <1>2 DEF ToolsTyped, HandlesInUse
    <3> QED
      BY <1>1, <2>1, <2>2, <3>1, QuitCovers
  <2>3. CASE at' \notin {"release", "exit"}
    BY <2>3 DEF ReleasesCover
  <2> QED
    BY <1>3, <2>2, <2>3
<1> QED
  BY <1>1, <1>4, <1>5, <1>6, <1>7, <1>8

\* A read that fails is the last one; if none did, all were made.
LEMMA LastRead ==
  ASSUME ReadInv, Submit \/ SyncRead \/ Waiting, pc' = "closed"
  PROVE  ReadError' \/ Len(said') = Iterations
<1>1. said \in Seq(Reports) /\ Len(said) \in Nat /\ Len(said) <= Len(req) /\ Len(req) \in Nat
      /\ Len(req) <= Iterations /\ Iterations \in Nat
  BY OverlappedAssumption DEF ReadInv, ReadsTyped
<1>2. \/ Stop
      \/ UNCHANGED said /\ ~MoreReads
  BY DEF Submit, SyncRead, LeftPending, CompletedAtOnce, Refused, SyncTimeout, Report,
         Waiting, WaitSignalled, WaitTimeout, GiveUp, Collect, Close, WaitFailed, ResultFails
<1>3. CASE Stop
  <2>1. said' = Append(said, "error") /\ "error" \in Reports
    BY <1>3 DEF Stop, Reports
  <2>2. said' # <<>> /\ Last(said') = "error"
    BY <1>1, <2>1 DEF Last
  <2> QED
    BY <2>2 DEF ReadError
<1>4. CASE UNCHANGED said /\ ~MoreReads
  BY <1>1, <1>4 DEF MoreReads
<1> QED
  BY <1>2, <1>3, <1>4

LEMMA ReadingStep ==
  ASSUME ToolInv, Read \/ WaitFails
  PROVE  ToolInv'
<1> USE DEF ToolInv
<1>1. /\ at = "reading" /\ UNCHANGED <<tool, at, held, pipes, queried, tried, found, status, todo>>
      /\ Submit \/ SyncRead \/ Waiting
  BY DEF Read, ReadStep, Host, WaitFails, Waiting, opening
<1>2. ReadInv'
  BY <1>1, NewRequestKeeps, WaitingKeeps
<1>3. HandlesInUse'
  BY <1>1 DEF HandlesInUse, Needs
<1>4. ToolsTyped'
  BY <1>1 DEF ToolsTyped
<1>5. Progress' /\ Queried'
  BY <1>1 DEF Progress, Queried, BeforeQueries, Opened
<1>6. VerdictKnown'
  BY <1>1, LastRead DEF VerdictKnown
<1>7. ReleasesCover'
  BY <1>1 DEF ReleasesCover
<1> QED
  BY <1>2, <1>3, <1>4, <1>5, <1>6, <1>7

LEMMA DriversStep ==
  ASSUME ToolInv, DriverStep
  PROVE  ToolInv'
<1> USE DEF ToolInv
<1>1. /\ UNCHANGED <<pc, said, tool, at, held, pipes, queried, tried, found, status, todo>>
      /\ ReadInv'
  BY DriverKeeps DEF DriverStep, host, opening
<1>2. UNCHANGED <<InCall, ReadError>>
  BY <1>1 DEF InCall, ReadError
<1>3. HandlesInUse' /\ Progress'
  BY <1>1, <1>2 DEF HandlesInUse, Needs, Progress
<1>4. ToolsTyped' /\ Queried'
  BY <1>1 DEF ToolsTyped, Queried
<1>5. VerdictKnown' /\ ReleasesCover'
  BY <1>1, <1>2 DEF VerdictKnown, Verdict, ReleasesCover
<1> QED
  BY <1>1, <1>3, <1>4, <1>5

LEMMA ClosingStep ==
  ASSUME ToolInv, EndOfReads \/ Release \/ Exit
  PROVE  ToolInv'
<1> USE DEF ToolInv, Quit, Return
<1>1. /\ ReadInv' /\ UNCHANGED <<pc, said, InCall, ReadError, tool, pipes, queried, tried, found>>
      /\ Iterations \in Nat \ {0}
  BY Quiet DEF EndOfReads, Release, Exit, opening
<1>2. \/ at = "reading" /\ pc = "closed" /\ at' = "release" /\ status' = StatusAfterReads /\ UNCHANGED held
      \/ /\ at = "release" /\ UNCHANGED <<at, status>> /\ held' \subseteq held
         /\ "winusb" \in held' => "handle" \in held'
      \/ at = "release" /\ at' = "exit" /\ held = {} /\ UNCHANGED <<status, held>>
  <2>1. CASE EndOfReads
    BY <2>1 DEF EndOfReads, opening
  <2>2. CASE Release
    <3>1. at = "release" /\ todo # <<>> /\ held' = held \ {Head(todo)} /\ UNCHANGED <<at, status>>
      BY <2>2 DEF Release
    <3>2. Head(todo) = "handle" => "winusb" \notin held
      BY <3>1 DEF ReleasesCover
    <3>3. "winusb" \in held => "handle" \in held
      BY DEF HandlesInUse
    <3> QED
      BY <3>1, <3>2, <3>3
  <2>3. CASE Exit
    BY <2>3 DEF Exit, opening, ReleasesCover
  <2> QED
    BY <2>1, <2>2, <2>3
<1>3. HandlesInUse'
  <2>1. ~InCall'
    BY <1>1, <1>2 DEF InCall, Progress
  <2> QED
    BY <1>1, <1>2, <2>1 DEF HandlesInUse, Needs
<1>4. ToolsTyped'
  BY <1>1, <1>2 DEF ToolsTyped
<1>5. Progress' /\ Queried'
  <2>1. ~InCall'
    BY <1>1, <1>2 DEF InCall, Progress
  <2> QED
    BY <1>1, <1>2, <2>1 DEF Progress, Queried, BeforeQueries, Opened
<1>6. VerdictKnown'
  <2>1. CASE at = "reading" /\ pc = "closed" /\ at' = "release" /\ status' = StatusAfterReads
    <3>1. /\ ReadError \/ Len(said) = Iterations
          /\ tool \in {"monitor", "control", "init"}
          /\ tool = "init" => tried = Controls
      BY <2>1 DEF VerdictKnown, ToolsTyped, Progress, Opened
    <3> QED
      BY <1>1, <2>1, <3>1 DEF VerdictKnown, Verdict, StatusAfterReads
  <2>2. CASE at = "release" /\ UNCHANGED status
    BY <1>1, <2>2 DEF VerdictKnown, Verdict
  <2> QED
    BY <1>2, <2>1, <2>2
<1>7. ReleasesCover'
  <2>1. CASE EndOfReads
    <3>1. /\ Return(status', ReleaseOrder) /\ held' = held
          /\ held \subseteq {"path", "handle", "winusb"} /\ ("path" \in held => tool = "probe")
      BY <2>1 DEF EndOfReads, opening, ToolsTyped, HandlesInUse, Needs
    <3> QED
      BY <1>1, <3>1, QuitCovers
  <2>2. CASE Release
    <3>1. /\ at = "release" /\ at' = at /\ todo # <<>>
          /\ held' = held \ {Head(todo)} /\ todo' = Tail(todo)
      BY <2>2 DEF Release
    <3>2. held \subseteq {"path", "handle", "winusb"}
      BY DEF ToolsTyped
    <3>3. \A a, b, c : /\ Head(<<a>>) = a /\ Tail(<<a>>) = <<>>
                       /\ Head(<<a, b>>) = a /\ Tail(<<a, b>>) = <<b>>
                       /\ Head(<<a, b, c>>) = a /\ Tail(<<a, b, c>>) = <<b, c>>
      OBVIOUS
    <3>4. \/ todo = <<"winusb", "handle", "path">>
          \/ todo = <<"winusb", "handle">> /\ "path" \notin held
          \/ todo = <<"handle", "path">> /\ "winusb" \notin held
          \/ todo = <<"handle">> /\ held \subseteq {"handle"}
          \/ todo = <<"path">> /\ held \subseteq {"path"}
      BY <3>1 DEF ReleasesCover
    <3>5. \/ Head(todo) = "winusb" /\ Tail(todo) = <<"handle", "path">>
          \/ Head(todo) = "winusb" /\ Tail(todo) = <<"handle">> /\ "path" \notin held
          \/ Head(todo) = "handle" /\ Tail(todo) = <<"path">> /\ "winusb" \notin held
          \/ Tail(todo) = <<>> /\ held \subseteq {Head(todo)}
      <4>1. CASE todo = <<"winusb", "handle", "path">>
        <5>1. /\ Head(<<"winusb", "handle", "path">>) = "winusb"
              /\ Tail(<<"winusb", "handle", "path">>) = <<"handle", "path">>
          BY <3>3
        <5> QED
          BY <4>1, <5>1, Zenon
      <4>2. CASE todo = <<"winusb", "handle">> /\ "path" \notin held
        BY <4>2, <3>3, Zenon
      <4>3. CASE todo = <<"handle", "path">> /\ "winusb" \notin held
        BY <4>3, <3>3, Zenon
      <4>4. ASSUME NEW r, todo = <<r>>, held \subseteq {r}
            PROVE  Tail(todo) = <<>> /\ held \subseteq {Head(todo)}
        <5>1. Head(todo) = r /\ Tail(todo) = <<>>
          BY <4>4, <3>3, Zenon
        <5> QED
          BY <4>4, <5>1
      <4> QED
        BY <3>4, <4>1, <4>2, <4>3, <4>4, Zenon
    <3>6. \/ todo' = <<"handle", "path">> /\ "winusb" \notin held'
          \/ todo' = <<"handle">> /\ held' \subseteq {"handle"}
          \/ todo' = <<"path">> /\ held' \subseteq {"path"}
          \/ todo' = <<>> /\ held' = {}
      BY <3>1, <3>2, <3>5
    <3> QED
      BY <3>1, <3>6 DEF ReleasesCover
  <2>3. CASE Exit
    BY <2>3 DEF Exit, opening, ReleasesCover
  <2> QED
    BY <2>1, <2>2, <2>3
<1> QED
  BY <1>1, <1>3, <1>4, <1>5, <1>6, <1>7

LEMMA StepToolInv == ToolInv /\ [ToolNext]_toolvars => ToolInv'
<1> SUFFICES ASSUME ToolInv, [ToolNext]_toolvars PROVE ToolInv'
  OBVIOUS
<1>1. CASE UNCHANGED toolvars
  <2>1. /\ ReadInv' /\ UNCHANGED <<InCall, ReadError, pc, said>>
        /\ UNCHANGED <<tool, at, held, pipes, queried, tried, found, status, todo>>
    BY <1>1, Quiet DEF toolvars, opening
  <2> QED
    BY <2>1 DEF ToolInv, HandlesInUse, Needs, ToolsTyped, Progress, Queried, VerdictKnown, Verdict,
                ReleasesCover
<1>2. CASE ToolNext
  BY <1>2, OpeningStep, QueryStep, ProbeStep, ReadingStep, DriversStep, ClosingStep
  DEF ToolNext, Program
<1> QED
  BY <1>1, <1>2

-----------------------------------------------------------------------------
(* Theorems *)

LEMMA Inductive == ToolSpec => []ToolInv
<1> QED
  BY InitToolInv, StepToolInv, PTL DEF ToolSpec

\* Every call has the handles it needs, they are given back in order, and what
\* ks959_close and the probe's cleanup release leaves nothing, wherever the
\* opening stopped.
THEOREM HandlesAreInUse == ToolSpec => []HandlesInUse
<1>1. ToolInv => HandlesInUse
  BY DEF ToolInv
<1> QED
  BY <1>1, Inductive, PTL

\* What the exit status 0 of each tool says of the work it did.
THEOREM StatusDoesTell == ToolSpec => []StatusTells
<1>1. ToolInv => StatusTells
  BY DEF ToolInv, VerdictKnown, Verdict, StatusTells
<1> QED
  BY <1>1, Inductive, PTL

\* Only an interface with an interrupt endpoint 0x81 is read, and the probe's
\* summary is true.
THEOREM EndpointIsTrue == ToolSpec => []EndpointTrue
<1>1. ASSUME ToolInv PROVE EndpointTrue
  <2>1. /\ pipes \in Seq(Endpoints \cup {"unasked"}) /\ queried \in 0 .. Len(pipes)
        /\ found <=> \E k \in 1 .. queried : pipes[k] = "expected"
    BY <1>1 DEF ToolInv, ToolsTyped, Queried
  <2>2. DOMAIN pipes = 1 .. Len(pipes) /\ Len(pipes) \in Nat
    BY <2>1
  <2>3. found => "expected" \in ToSet(pipes)
    BY <2>1, <2>2 DEF ToSet
  <2>4. said # <<>> \/ InCall => found
    BY <1>1 DEF ToolInv, Queried, Progress, Opened
  <2>5. ASSUME tool = "probe", at = "exit", status = 0, "expected" \in ToSet(pipes)
        PROVE  found
    <3>1. queried = Len(pipes)
      BY <1>1, <2>5 DEF ToolInv, VerdictKnown, Verdict
    <3> QED
      BY <2>1, <2>2, <2>5, <3>1 DEF ToSet
  <2> QED
    BY <2>3, <2>4, <2>5 DEF EndpointTrue
<1> QED
  BY <1>1, Inductive, PTL

\* Whatever the completions of abandoned reads overwrite, a read that reports
\* data prints the packet the driver gave it.
THEOREM ShownIsTheReads == ToolSpec => []ShownIsOwn
<1>1. ToolInv => ShownIsOwn
  BY DEF ToolInv, ReadInv
<1> QED
  BY <1>1, Inductive, PTL

\* A packet that is not printed went to a read that reported something else.
THEOREM LossIsAlwaysReported == ToolSpec => []LossIsReported
<1>1. ToolInv => LossIsReported
  BY NoneLost DEF ToolInv
<1> QED
  BY <1>1, Inductive, PTL

-----------------------------------------------------------------------------
(* The refinement *)

LEMMA PrintedIsNext ==
  ASSUME ReadInv, Waiting, ~UNCHANGED shown
  PROVE  \E p \in (Feed!LastShown + 1) .. sent : shown' = Append(shown, p)
<1> DEFINE p == req[Current].pkt
<1>1. InCall /\ req[Current].st = "data" /\ shown' = Append(shown, p)
  BY ReportOf
<1>2. Current \in DOMAIN req /\ sent \in Nat /\ shown \in Seq(Nat)
  BY <1>1, Elements DEF ReadInv, ReadsTyped, Current
<1>3. p \in 1 .. sent
  BY <1>1, <1>2 DEF ReadInv, PacketsInOrder
<1>4. Feed!LastShown \in Nat /\ Feed!LastShown < p
  <2>1. CASE shown = <<>>
    BY <1>2, <1>3, <2>1 DEF Feed!LastShown
  <2>2. CASE shown # <<>>
    <3>1. Len(shown) \in DOMAIN shown /\ Len(shown) \in Nat
      BY <1>2, <2>2
    <3>2. shown[Len(shown)] \in Nat
      BY <1>2, <3>1, Elements DEF ReadInv
    <3>3. /\ Len(shown) \in DOMAIN shown' /\ Len(shown) + 1 \in DOMAIN shown'
          /\ shown'[Len(shown)] = shown[Len(shown)] /\ shown'[Len(shown) + 1] = p
          /\ Len(shown) < Len(shown) + 1
      BY <1>1, <1>2, <1>3, <3>1
    <3>4. shown'[Len(shown)] < shown'[Len(shown) + 1]
      BY <3>3, WaitingKeeps DEF ReadInv, ShownIsOwn
    <3> QED
      BY <2>2, <3>2, <3>3, <3>4 DEF Feed!LastShown
  <2> QED
    BY <2>1, <2>2
<1> QED
  BY <1>1, <1>2, <1>3, <1>4

LEMMA StepFeeds == ToolInv /\ [ToolNext]_toolvars => [Feed!Next]_(Feed!vars)
<1> SUFFICES ASSUME ToolInv, [ToolNext]_toolvars PROVE [Feed!Next]_(Feed!vars)
  OBVIOUS
<1> USE DEF Feed!vars, Feed!Next, Feed!Send, Feed!Show, Feed!Finish
<1>1. ReadInv /\ sent \in Nat /\ shown \in Seq(Nat)
  BY DEF ToolInv, ReadInv, ReadsTyped
<1>2. CASE UNCHANGED reading /\ (at' = "exit" <=> at = "exit")
  BY <1>2 DEF reading, vars
<1>3. CASE UNCHANGED reading /\ at = "release" /\ at' = "exit"
  BY <1>3 DEF reading, vars
<1>4. CASE DriverStep
  <2>1. UNCHANGED <<shown, at>> /\ sent' \in {sent, sent + 1}
    BY <1>1, <1>4, DriverKeeps DEF DriverStep, host, Driver, Deliver, Fail, FinishAbort
  <2> QED
    BY <2>1
<1>5. CASE Read \/ WaitFails
  <2>1. at = "reading" /\ at' = "reading" /\ (Submit \/ SyncRead \/ Waiting)
    BY <1>5 DEF Read, ReadStep, Host, WaitFails, Waiting
  <2>2. CASE Submit \/ SyncRead
    <3>1. UNCHANGED shown /\ sent' \in {sent, sent + 1}
      BY <1>1, <2>2, NewRequest
    <3> QED
      BY <2>1, <3>1
  <2>3. CASE Waiting /\ UNCHANGED shown
    BY <1>1, <2>1, <2>3, ReportOf
  <2>4. CASE Waiting /\ ~UNCHANGED shown
    <3>1. PICK p \in (Feed!LastShown + 1) .. sent : shown' = Append(shown, p)
      BY <1>1, <2>4, PrintedIsNext
    <3>2. UNCHANGED sent
      BY <1>1, <2>4, ReportOf
    <3>3. p \in Int
      OBVIOUS
    <3>4. [k \in 1 .. (p - p + 1) |-> p + k - 1] = <<p>>
      BY <3>3
    <3>5. shown' = shown \o [k \in 1 .. (p - p + 1) |-> p + k - 1]
      BY <1>1, <3>1, <3>4
    <3>6. p \in p .. sent
      BY <1>1, <3>1
    <3> QED
      BY <2>1, <3>1, <3>2, <3>5, <3>6
  <2> QED
    BY <2>1, <2>2, <2>3, <2>4
<1>6. \/ UNCHANGED reading /\ (at' = "exit" <=> at = "exit")
      \/ UNCHANGED reading /\ at = "release" /\ at' = "exit"
      \/ DriverStep \/ Read \/ WaitFails
  <2>1. CASE UNCHANGED toolvars
    BY <2>1 DEF toolvars
  <2>2. CASE Pull \/ BadArguments \/ GetDevicePath \/ CreateFile \/ Initialize \/ QuerySettings
    BY <2>2 DEF Pull, BadArguments, GetDevicePath, CreateFile, Initialize, QuerySettings,
                OpenFailed, Quit, Return, GoOn
  <2>3. CASE QueryPipe \/ EndOfPipes \/ Transfer \/ ControlProbe \/ EndOfReads
    BY <2>3 DEF QueryPipe, EndOfPipes, Transfer, ControlProbe, EndOfReads, NextAfterOpen,
                OpenFailed, Quit, Return, GoOn
  <2>4. CASE Release \/ Exit
    BY <2>4 DEF Release, Exit
  <2> QED
    BY <2>1, <2>2, <2>3, <2>4 DEF ToolNext, Program
<1> QED
  BY <1>2, <1>3, <1>4, <1>5, <1>6

\* Each tool implements PacketFeed, but for its liveness: packets are printed
\* in the order sent, each at most once and none after the end.
THEOREM ToolsAreFeeds == ToolSpec => Feed!Init /\ [][Feed!Next]_(Feed!vars)
<1>1. ToolInit => Feed!Init
  BY DEF ToolInit, Init, Feed!Init
<1> QED
  BY <1>1, Inductive, StepFeeds, PTL DEF ToolSpec

(***************************************************************************)
(* The Linux monitor.                                                      *)
(* What it has printed is FlattenSeq of its blocks, a recursive function:  *)
(* what that function does with one block more comes first, by induction   *)
(* on the number of blocks.                                                *)
(***************************************************************************)

\* A set with 0 that has n + 1 with every n has all natural numbers: the least
\* one outside it would have one before it.
LEMMA Induction ==
  ASSUME NEW S, 0 \in S, \A n \in Nat : n \in S => n + 1 \in S
  PROVE  Nat \subseteq S
<1> SUFFICES ASSUME Nat \ S # {} PROVE FALSE
  OBVIOUS
<1>1. IsWellFoundedOn(OpToRel(<, Nat), Nat)
  BY NatLessThanWellFounded
<1> DEFINE T == Nat \ S
           R == OpToRel(<, Nat)
<1>2. PICK x \in T : \A y \in T : ~ (<<y, x>> \in R)
  <2> HIDE DEF R
  <2>1. T \subseteq Nat /\ T # {}
    OBVIOUS
  <2>2. IsWellFoundedOn(R, Nat)
    BY <1>1 DEF R
  <2> HIDE DEF T
  <2> QED BY <2>1, <2>2, WFMin
<1>3. x # 0 /\ x \in Nat
  OBVIOUS
<1>4. x - 1 \in Nat /\ (x - 1) + 1 = x
  BY <1>3
<1>5. x - 1 \in T
  BY <1>4
<1>6. <<x - 1, x>> \in R
  BY <1>3, <1>4, x - 1 < x DEF OpToRel
<1> QED
  BY <1>2, <1>5, <1>6

\* The function behind FlattenSeq, on the first n of seqs.
Flattens(f, seqs, n) ==
  f = [i \in 1 .. n |-> IF i = 1 THEN seqs[i] ELSE f[i - 1] \o seqs[i]]

\* There is such a function, however many sequences there are.
LEMMA FlattenExists ==
  ASSUME NEW seqs, NEW m \in Nat
  PROVE  \E f : Flattens(f, seqs, m)
<1> DEFINE S == {n \in Nat : \E f : Flattens(f, seqs, n)}
<1>1. 0 \in S
  <2>1. Flattens([i \in 1 .. 0 |-> 0], seqs, 0)
    BY 1 .. 0 = {} DEF Flattens
  <2> QED
    BY <2>1
<1>2. ASSUME NEW n \in Nat, n \in S PROVE n + 1 \in S
  <2>1. PICK g : Flattens(g, seqs, n)
    BY <1>2
  <2> DEFINE f == [i \in 1 .. (n + 1) |->
                     IF i <= n THEN g[i] ELSE IF i = 1 THEN seqs[i] ELSE g[i - 1] \o seqs[i]]
  <2>2. ASSUME NEW i \in 1 .. (n + 1)
        PROVE  f[i] = IF i = 1 THEN seqs[i] ELSE f[i - 1] \o seqs[i]
    <3>1. CASE i <= n
      <4>1. i \in 1 .. n /\ f[i] = g[i]
        BY <3>1
      <4>2. g[i] = IF i = 1 THEN seqs[i] ELSE g[i - 1] \o seqs[i]
        <5> HIDE DEF f
        <5> QED
          BY <2>1, <4>1 DEF Flattens
      <4>3. i # 1 => i - 1 \in 1 .. (n + 1) /\ i - 1 <= n
        BY <3>1
      <4>4. i # 1 => f[i - 1] = g[i - 1]
        BY <4>3
      <4> QED
        BY <4>1, <4>2, <4>4
    <3>2. CASE i = n + 1
      <4>1. ~(i <= n) /\ (i # 1 => i - 1 \in 1 .. (n + 1) /\ i - 1 <= n)
        BY <3>2
      <4>2. i # 1 => f[i - 1] = g[i - 1]
        BY <4>1
      <4> QED
        BY <4>1, <4>2
    <3> QED
      BY <3>1, <3>2
  <2>3. f = [i \in 1 .. (n + 1) |-> f[i]]
    OBVIOUS
  <2> HIDE DEF f
  <2>4. Flattens(f, seqs, n + 1)
    BY <2>2, <2>3 DEF Flattens
  <2> QED
    BY <2>4
<1> HIDE DEF S
<1>3. m \in S
  BY <1>1, <1>2, Induction
<1> QED
  BY <1>3 DEF S

\* Two such functions agree where their sequences do.
LEMMA FlattenUnique ==
  ASSUME NEW s, NEW t, NEW f, NEW g, NEW n \in Nat, NEW l \in Nat,
         Flattens(f, s, n), Flattens(g, t, l), n <= l, \A i \in 1 .. n : s[i] = t[i]
  PROVE  \A i \in 1 .. n : f[i] = g[i]
<1> DEFINE S == {m \in Nat : m \in 1 .. n => f[m] = g[m]}
<1>1. 0 \in S
  OBVIOUS
<1>2. ASSUME NEW m \in Nat, m \in S PROVE m + 1 \in S
  <2> SUFFICES ASSUME m + 1 \in 1 .. n PROVE f[m + 1] = g[m + 1]
    OBVIOUS
  <2>1. /\ f[m + 1] = IF m + 1 = 1 THEN s[m + 1] ELSE f[(m + 1) - 1] \o s[m + 1]
        /\ g[m + 1] = IF m + 1 = 1 THEN t[m + 1] ELSE g[(m + 1) - 1] \o t[m + 1]
    <3>1. m + 1 \in 1 .. l
      OBVIOUS
    <3> QED
      BY <3>1 DEF Flattens
  <2>2. m + 1 # 1 => f[m] = g[m]
    BY <1>2
  <2>3. (m + 1) - 1 = m
    OBVIOUS
  <2> QED
    BY <2>1, <2>2, <2>3
<1> HIDE DEF S
<1>3. Nat \subseteq S
  BY <1>1, <1>2, Induction
<1> QED
  BY <1>3 DEF S

\* The function behind FlattenSeq.
LEMMA FlattenIs ==
  ASSUME NEW seqs, Len(seqs) \in Nat \ {0}
  PROVE  \E f : Flattens(f, seqs, Len(seqs)) /\ FlattenSeq(seqs) = f[Len(seqs)]
<1> DEFINE f == CHOOSE f : Flattens(f, seqs, Len(seqs))
<1>1. Flattens(f, seqs, Len(seqs))
  BY FlattenExists
<1>2. FlattenSeq(seqs) = f[Len(seqs)]
  BY DEF FlattenSeq, Flattens
<1> QED
  BY <1>1, <1>2

\* A sequence more comes in at the end.
LEMMA FlattenAppend ==
  ASSUME NEW s \in Seq(Seq(Nat)), NEW b \in Seq(Nat)
  PROVE  FlattenSeq(Append(s, b)) = FlattenSeq(s) \o b
<1> DEFINE t == Append(s, b)
           n == Len(s)
<1>1. /\ n \in Nat /\ Len(t) = n + 1 /\ t[n + 1] = b
      /\ \A i \in 1 .. n : t[i] = s[i]
  BY AppendProperties
<1> HIDE DEF t
<1>2. PICK g : Flattens(g, t, n + 1) /\ FlattenSeq(t) = g[n + 1]
  <2>1. Len(t) \in Nat \ {0}
    BY <1>1
  <2>2. \E g : Flattens(g, t, Len(t)) /\ FlattenSeq(t) = g[Len(t)]
    BY <2>1, FlattenIs
  <2> QED
    BY <1>1, <2>2
<1>3. CASE n = 0
  <2>1. s = <<>> /\ FlattenSeq(s) = <<>>
    BY <1>3, EmptySeq DEF FlattenSeq
  <2>2. g[n + 1] = b
    BY <1>1, <1>2, <1>3 DEF Flattens
  <2> QED
    BY <1>2, <2>1, <2>2 DEF t
<1>4. CASE n > 0
  <2>1. PICK f : Flattens(f, s, n) /\ FlattenSeq(s) = f[n]
    BY <1>1, <1>4, FlattenIs
  <2>2. f[n] = g[n]
    <3>1. \A i \in 1 .. n : f[i] = g[i]
      <4> HIDE DEF n
      <4> QED
        BY <1>1, <1>2, <2>1, FlattenUnique, n + 1 \in Nat, n <= n + 1
    <3> QED
      BY <3>1, <1>1, <1>4
  <2>3. g[n + 1] = g[n] \o b
    <3>1. n + 1 \in 1 .. (n + 1) /\ n + 1 # 1 /\ (n + 1) - 1 = n
      BY <1>1, <1>4
    <3> HIDE DEF n
    <3> QED
      BY <1>1, <1>2, <3>1 DEF Flattens
  <2> QED
    BY <1>2, <2>1, <2>2, <2>3 DEF t
<1> QED
  BY <1>1, <1>3, <1>4

\* What a packet is to a transfer.
Kinds == {"full", "short", "empty"}

MonitorTyped ==
  /\ phase \in {"open", "failed", "preinit", "loop", "transfer", "closing", "exit"}
  /\ stop_flag \in BOOLEAN
  /\ kinds \in Seq(Kinds) /\ first \in 1 .. (Len(kinds) + 1)
  /\ blocks \in Seq(Seq(Nat))
  /\ phase = "closing" => stop_flag

\* What a transfer has gathered fits the buffer, and none but its last packet
\* is short of full.
Filling ==
  phase = "transfer" =>
    /\ Len(kinds) - first < BufferPackets
    /\ \A p \in first .. (Len(kinds) - 1) : kinds[p] = "full"

\* A block shows packets that follow one another, and ends where a message or
\* the buffer did.
IsBlock(b, packets) ==
  /\ Len(b) \in 1 .. BufferPackets /\ b[1] >= 1
  /\ \A k \in 1 .. Len(b) : b[k] = b[1] + k - 1 /\ b[k] <= Len(packets)
  /\ \A k \in 1 .. (Len(b) - 1) : packets[b[k]] = "full"
  /\ Len(b) < BufferPackets => packets[b[Len(b)]] # "full"

BlocksWhole == \A j \in DOMAIN blocks : IsBlock(blocks[j], kinds)

\* The packets printed are those of the blocks, all from before this transfer.
Flat == FlattenSeq(blocks)
LastFlat == IF Flat = <<>> THEN 0 ELSE Flat[Len(Flat)]
Behind ==
  /\ Flat \in Seq(Nat)
  /\ LastFlat <= Len(kinds) /\ (phase = "transfer" => LastFlat < first)

MonitorInv == MonitorTyped /\ Filling /\ BlocksWhole /\ Behind

\* Of every packet with bytes it is known where it went.
Account ==
  \A p \in 1 .. Len(kinds) :
    kinds[p] # "empty" => InABlock(p) \/ p \in lost \/ InTransfer(p)

\* Of no sequences there is nothing.
LEMMA FlattenEmpty == FlattenSeq(<<>>) = <<>>
  BY DEF FlattenSeq

\* Nothing has been sent or printed when the monitor begins.
LEMMA MonitorInvInit ==
  ASSUME MonitorInit PROVE MonitorInv
<1>1. MonitorTyped
  <2>1. kinds = <<>> /\ blocks = <<>> /\ first = 1 /\ phase = "open" /\ stop_flag = FALSE
    BY DEF MonitorInit
  <2>2. kinds \in Seq(Kinds) /\ blocks \in Seq(Seq(Nat)) /\ Len(kinds) = 0
    BY <2>1, EmptySeq
  <2>3. first \in 1 .. (Len(kinds) + 1)
    BY <2>1, <2>2
  <2> QED
    BY <2>1, <2>2, <2>3 DEF MonitorTyped
<1>2. Flat = <<>>
  BY FlattenEmpty DEF MonitorInit, Flat
<1>3. BlocksWhole /\ Filling
  BY DEF MonitorInit, BlocksWhole, Filling
<1>4. LastFlat = 0
  BY <1>2 DEF LastFlat
<1> QED
  BY <1>1, <1>2, <1>3, <1>4, EmptySeq DEF MonitorInv, Behind, MonitorInit

\* A packet more leaves those sent before as they were.
LEMMA PacketStep ==
  ASSUME MonitorInv, Packet PROVE MonitorInv'
<1>1. PICK kind \in Kinds : kinds' = Append(kinds, kind)
  BY DEF Packet, Kinds
<1>2. /\ Len(kinds) \in Nat /\ Len(kinds') = Len(kinds) + 1 /\ kinds' \in Seq(Kinds)
      /\ \A p \in 1 .. Len(kinds) : kinds'[p] = kinds[p]
  BY <1>1, AppendProperties DEF MonitorInv, MonitorTyped
<1>3. UNCHANGED <<phase, stop_flag, first, blocks>> /\ phase = "transfer"
  BY DEF Packet
<1>4. first \in 1 .. (Len(kinds) + 1) /\ first \in Nat
  BY <1>2 DEF MonitorInv, MonitorTyped
<1>5. MonitorTyped'
  BY <1>2, <1>3, <1>4 DEF MonitorInv, MonitorTyped
<1>6. Filling'
  <2>1. Gathered = [k \in 1 .. (Len(kinds) - first + 1) |-> first + k - 1]
    BY DEF Gathered, Sent
  <2>2. Len(kinds) - first + 1 \in Nat
    BY <1>2, <1>4
  <2>3. Len(Gathered) = Len(kinds) - first + 1
    BY <2>1, <2>2
  <2>4. CASE first = Len(kinds) + 1
    <3>1. Len(kinds') - first' < BufferPackets
      BY <1>2, <1>3, <1>4, <2>4, Ep81Assumption
    <3>2. first' .. (Len(kinds') - 1) = {}
      BY <1>2, <1>3, <1>4, <2>4
    <3> QED
      BY <3>1, <3>2 DEF Filling
  <2>5. CASE first # Len(kinds) + 1
    <3>1. Gathered # <<>>
      BY <1>2, <1>4, <2>3, <2>5
    <3>2. kinds[Len(kinds)] = "full" /\ Len(kinds) - first + 1 # BufferPackets
      BY <2>3, <3>1 DEF Packet, TransferComplete, Sent
    <3> QED
      <4>1. Len(kinds) - first < BufferPackets /\ \A p \in first .. (Len(kinds) - 1) : kinds[p] = "full"
        BY <1>3 DEF Filling, MonitorInv
      <4>2. Len(kinds') - first' < BufferPackets
        <5>1. BufferPackets \in Nat
          BY Ep81Assumption
        <5>2. Len(kinds) - first + 1 < BufferPackets
          <6>1. ASSUME NEW n \in Nat, NEW f \in Nat, n - f < BufferPackets, n - f + 1 # BufferPackets
                PROVE  n - f + 1 < BufferPackets
            BY <5>1, <6>1
          <6> QED
            BY <1>2, <1>4, <3>2, <4>1, <6>1
        <5>3. first' = first
          BY <1>3
        <5> QED
          BY <1>2, <1>4, <5>1, <5>2, <5>3
      <4>3. ASSUME NEW p \in first' .. (Len(kinds') - 1) PROVE kinds'[p] = "full"
        <5>1. p \in 1 .. Len(kinds) /\ (p = Len(kinds) \/ p \in first .. (Len(kinds) - 1))
          BY <1>2, <1>3, <1>4
        <5> QED
          BY <1>2, <3>2, <4>1, <5>1
      <4> QED
        BY <4>2, <4>3 DEF Filling
  <2> QED
    BY <2>4, <2>5
<1>7. BlocksWhole'
  <2>1. ASSUME NEW b \in Seq(Nat), IsBlock(b, kinds) PROVE IsBlock(b, kinds')
    <3>1. /\ Len(b) \in 1 .. BufferPackets /\ b[1] >= 1
          /\ \A k \in 1 .. Len(b) : b[k] = b[1] + k - 1 /\ b[k] <= Len(kinds)
          /\ \A k \in 1 .. (Len(b) - 1) : kinds[b[k]] = "full"
          /\ Len(b) < BufferPackets => kinds[b[Len(b)]] # "full"
      BY <2>1 DEF IsBlock
    <3>2. \A k \in 1 .. Len(b) : b[k] \in Nat
      BY <2>1, ElementOfSeq
    <3>3. ASSUME NEW k \in 1 .. Len(b) PROVE b[k] \in 1 .. Len(kinds) /\ b[k] <= Len(kinds')
      <4>1. 1 \in 1 .. Len(b)
        BY <3>1, Ep81Assumption
      <4>2. b[1] \in Nat /\ b[k] \in Nat /\ b[1] >= 1 /\ b[k] = b[1] + k - 1 /\ b[k] <= Len(kinds)
        BY <3>1, <3>2, <4>1
      <4> QED
        BY <1>2, <4>2
    <3>4. Len(b) \in 1 .. Len(b) /\ \A k \in 1 .. (Len(b) - 1) : k \in 1 .. Len(b)
      BY <3>1, Ep81Assumption
    <3>5. \A k \in 1 .. Len(b) : kinds'[b[k]] = kinds[b[k]]
      BY <1>2, <3>3
    <3> QED
      BY <3>1, <3>3, <3>4, <3>5 DEF IsBlock
  <2> QED
    BY <1>3, <2>1 DEF BlocksWhole, MonitorInv, MonitorTyped
<1>8. Behind'
  <2>1. Flat' = Flat /\ LastFlat' = LastFlat
    BY <1>3 DEF Flat, LastFlat
  <2>2. LastFlat \in Nat
    BY DEF LastFlat, Behind, MonitorInv
  <2> QED
    BY <1>2, <1>3, <2>1, <2>2 DEF Behind, MonitorInv
<1> QED
  BY <1>5, <1>6, <1>7, <1>8 DEF MonitorInv

\* A step that touches neither packets nor blocks.
LEMMA OthersStep ==
  ASSUME MonitorInv, UNCHANGED <<kinds, first, blocks>>,
         phase' \in {"open", "failed", "preinit", "loop", "transfer", "closing", "exit"},
         stop_flag' \in BOOLEAN, phase' = "transfer" => phase = "transfer",
         phase' = "closing" => stop_flag'
  PROVE  MonitorInv'
<1>1. MonitorTyped'
  BY DEF MonitorInv, MonitorTyped
<1>2. Filling'
  BY DEF MonitorInv, Filling
<1>3. BlocksWhole'
  BY DEF MonitorInv, BlocksWhole
<1>4. Behind'
  BY DEF MonitorInv, Behind, LastFlat, Flat
<1> QED
  BY <1>1, <1>2, <1>3, <1>4 DEF MonitorInv

\* A transfer begins with the next packet to be sent.
LEMMA StartStep ==
  ASSUME MonitorInv, StartTransfer PROVE MonitorInv'
<1>1. /\ UNCHANGED <<stop_flag, kinds, blocks>> /\ phase' = "transfer" /\ first' = Len(kinds) + 1
      /\ Len(kinds) \in Nat
  BY LenProperties DEF StartTransfer, Sent, MonitorInv, MonitorTyped
<1>2. MonitorTyped'
  <2>1. first' \in 1 .. (Len(kinds') + 1)
    BY <1>1
  <2> QED
    BY <1>1, <2>1 DEF MonitorInv, MonitorTyped
<1>3. Filling'
  BY <1>1, Ep81Assumption DEF Filling
<1>4. BlocksWhole'
  BY <1>1 DEF MonitorInv, BlocksWhole
<1>5. Behind'
  <2>1. Flat' = Flat /\ LastFlat' = LastFlat /\ LastFlat \in Nat
    BY <1>1 DEF Flat, LastFlat, Behind, MonitorInv
  <2> QED
    BY <1>1, <2>1 DEF Behind, MonitorInv
<1> QED
  BY <1>2, <1>3, <1>4, <1>5 DEF MonitorInv

\* What a complete transfer holds is a block.
LEMMA GatheredIsBlock ==
  ASSUME MonitorInv, phase = "transfer", TransferComplete
  PROVE  /\ Gathered \in Seq(Nat) /\ IsBlock(Gathered, kinds)
         /\ Gathered = [k \in 1 .. (Len(kinds) - first + 1) |-> first + k - 1]
         /\ first \in 1 .. Len(kinds) /\ Len(kinds) \in Nat
<1> DEFINE g == Gathered
           n == Len(kinds) - first + 1
<1>1. Len(kinds) \in Nat /\ first \in 1 .. (Len(kinds) + 1)
  BY LenProperties DEF MonitorInv, MonitorTyped
<1>2. g = [k \in 1 .. n |-> first + k - 1]
  BY DEF Gathered, Sent
<1>3. g # <<>> /\ (kinds[Len(kinds)] # "full" \/ Len(g) = BufferPackets)
  BY DEF TransferComplete, Sent
<1>4. /\ n <= BufferPackets
      /\ \A p \in first .. (Len(kinds) - 1) : kinds[p] = "full"
  <2>1. /\ Len(kinds) - first < BufferPackets
        /\ \A p \in first .. (Len(kinds) - 1) : kinds[p] = "full"
    BY DEF MonitorInv, Filling
  <2> QED
    BY <1>1, <2>1, Ep81Assumption
<1>5. n \in Nat
  BY <1>1
<1> HIDE DEF g
<1>6. g \in Seq(Nat) /\ Len(g) = n /\ \A k \in 1 .. n : g[k] = first + k - 1
  <2>1. \A k \in 1 .. n : first + k - 1 \in Nat
    BY <1>1
  <2> HIDE DEF n
  <2> QED
    BY <1>2, <1>5, <2>1
<1>7. n \in 1 .. BufferPackets
  <2>1. n # 0
    BY <1>3, <1>6, EmptySeq
  <2> QED
    BY <1>4, <1>5, <2>1, Ep81Assumption
<1>8. IsBlock(g, kinds)
  <2>1. g[1] = first /\ g[n] = Len(kinds)
    <3>1. 1 \in 1 .. n /\ n \in 1 .. n /\ first + n - 1 = Len(kinds) /\ first + 1 - 1 = first
      BY <1>1, <1>5, <1>7, Ep81Assumption
    <3> HIDE DEF n
    <3> QED
      BY <1>6, <3>1
  <2>2. \A k \in 1 .. n : g[k] = g[1] + k - 1 /\ g[k] <= Len(kinds)
    BY <1>1, <1>6, <2>1
  <2>3. ASSUME NEW k \in 1 .. (n - 1) PROVE kinds[g[k]] = "full"
    <3>1. k \in 1 .. n /\ first + k - 1 \in first .. (Len(kinds) - 1)
      BY <1>1
    <3> QED
      BY <1>4, <1>6, <3>1
  <2>4. n < BufferPackets => kinds[g[n]] # "full"
    BY <1>3, <1>6, <1>7, <2>1, Ep81Assumption
  <2>5. g[1] >= 1
    BY <1>1, <2>1
  <2> HIDE DEF n
  <2> QED
    BY <1>6, <1>7, <2>2, <2>3, <2>4, <2>5 DEF IsBlock
<1> QED
  BY <1>1, <1>2, <1>6, <1>7, <1>8 DEF g

\* A transfer ends: its packets are one block, behind those printed before.
LEMMA TransferredStep ==
  ASSUME MonitorInv, Transferred PROVE MonitorInv'
<1> DEFINE g == Gathered
<1>1. /\ phase = "transfer" /\ TransferComplete /\ phase' = "loop"
      /\ UNCHANGED <<stop_flag, kinds, first>> /\ blocks' = blocks \o PrintedBlock
  BY DEF Transferred
<1>2. /\ g \in Seq(Nat) /\ IsBlock(g, kinds)
      /\ g = [k \in 1 .. (Len(kinds) - first + 1) |-> first + k - 1]
      /\ first \in 1 .. Len(kinds) /\ Len(kinds) \in Nat
  BY <1>1, GatheredIsBlock
<1>3. blocks \in Seq(Seq(Nat))
  BY DEF MonitorInv, MonitorTyped
<1>4. PrintedBlock = <<g>> \/ PrintedBlock = <<>>
  BY DEF PrintedBlock
<1> HIDE DEF g
<1>5. CASE PrintedBlock = <<>>
  <2>1. blocks' = blocks
    BY <1>1, <1>3, <1>5
  <2> QED
    BY <1>1, <2>1, OthersStep DEF MonitorInv, MonitorTyped
<1>6. CASE PrintedBlock = <<g>>
  <2>1. blocks' = Append(blocks, g)
    BY <1>1, <1>2, <1>3, <1>6
  <2>2. /\ blocks' \in Seq(Seq(Nat)) /\ Len(blocks') = Len(blocks) + 1
        /\ \A j \in 1 .. Len(blocks') : blocks'[j] = IF j <= Len(blocks) THEN blocks[j] ELSE g
    BY <1>2, <1>3, <2>1, AppendProperties
  <2>3. MonitorTyped'
    BY <1>1, <2>2 DEF MonitorInv, MonitorTyped
  <2>4. Filling'
    BY <1>1 DEF Filling
  <2>5. BlocksWhole'
    <3>2. ASSUME NEW j \in 1 .. Len(blocks') PROVE IsBlock(blocks'[j], kinds)
      <4>1. CASE j <= Len(blocks)
        <5>1. j \in DOMAIN blocks
          BY <1>3, <2>2, <4>1, LenProperties
        <5> QED
          BY <2>2, <4>1, <5>1 DEF BlocksWhole, MonitorInv
      <4>2. CASE ~(j <= Len(blocks))
        BY <1>2, <2>2, <4>2
      <4> QED
        BY <4>1, <4>2
    <3>3. DOMAIN blocks' = 1 .. Len(blocks')
      BY <2>2, LenProperties
    <3> QED
      BY <1>1, <3>2, <3>3 DEF BlocksWhole
  <2>6. Behind'
    <3>1. Flat' = Flat \o g /\ Flat \in Seq(Nat)
      BY <1>2, <1>3, <2>1, FlattenAppend DEF Flat, Behind, MonitorInv
    <3> DEFINE n == Len(kinds) - first + 1
    <3>2. n \in Nat \ {0} /\ first + n - 1 = Len(kinds)
      BY <1>2
    <3>3. Len(g) = n /\ g[n] = first + n - 1
      <4> HIDE DEF n
      <4> QED
        BY <1>2, <3>2 DEF n
    <3>4. /\ Flat' \in Seq(Nat) /\ Len(Flat') = Len(Flat) + n
          /\ Flat'[Len(Flat) + n] = g[n]
      <4>1. Len(Flat) \in Nat
        BY <3>1, LenProperties
      <4> HIDE DEF n
      <4>2. Len(Flat) + n \in 1 .. (Len(Flat) + n) /\ ~(Len(Flat) + n <= Len(Flat))
            /\ (Len(Flat) + n) - Len(Flat) = n
        BY <3>2, <4>1
      <4>3. /\ Flat' \in Seq(Nat) /\ Len(Flat') = Len(Flat) + Len(g)
            /\ \A j \in 1 .. (Len(Flat) + Len(g)) :
                 Flat'[j] = IF j <= Len(Flat) THEN Flat[j] ELSE g[j - Len(Flat)]
        BY <1>2, <3>1, ConcatProperties
      <4> QED
        BY <3>3, <4>2, <4>3
    <3>5. LastFlat' = Len(kinds)
      <4>1. Flat' # <<>>
        BY <3>1, <3>2, <3>4, LenProperties, EmptySeq
      <4> QED
        BY <3>2, <3>3, <3>4, <4>1 DEF LastFlat
    <3> QED
      BY <1>1, <1>2, <3>4, <3>5 DEF Behind
  <2> QED
    BY <2>3, <2>4, <2>5, <2>6 DEF MonitorInv
<1> QED
  BY <1>4, <1>5, <1>6

\* No step breaks the invariant.
LEMMA MonitorStep ==
  ASSUME MonitorInv, [MonitorNext]_monitorvars PROVE MonitorInv'
<1>1. CASE Packet
  BY <1>1, PacketStep
<1>2. CASE StartTransfer
  BY <1>2, StartStep
<1>3. CASE Transferred
  BY <1>3, TransferredStep
<1>4. CASE OnSigint
  BY <1>4, OthersStep DEF OnSigint, MonitorInv, MonitorTyped
<1>5. CASE Open \/ Preinit
  BY <1>5, OthersStep DEF Open, Preinit, MonitorInv, MonitorTyped
<1>6. CASE Timeout \/ TransferError
  BY <1>6, OthersStep DEF Timeout, TransferError, MonitorInv, MonitorTyped
<1>7. CASE StopLoop \/ MonitorExit
  BY <1>7, OthersStep DEF StopLoop, MonitorExit, MonitorInv, MonitorTyped
<1>8. CASE UNCHANGED monitorvars
  BY <1>8, OthersStep DEF monitorvars, MonitorInv, MonitorTyped
<1> QED
  BY <1>1, <1>2, <1>3, <1>4, <1>5, <1>6, <1>7, <1>8 DEF MonitorNext, Monitor

\* A packet of the transfer that ends is in the block printed of it, unless all
\* of them were empty.
LEMMA TransferredAccount ==
  ASSUME MonitorInv, Account, Transferred PROVE Account'
<1> DEFINE g == Gathered
<1>1. /\ phase = "transfer" /\ TransferComplete
      /\ UNCHANGED <<kinds, first, lost>> /\ blocks' = blocks \o PrintedBlock
  BY DEF Transferred
<1>2. /\ g \in Seq(Nat) /\ g = [k \in 1 .. (Len(kinds) - first + 1) |-> first + k - 1]
      /\ first \in 1 .. Len(kinds) /\ Len(kinds) \in Nat
  BY <1>1, GatheredIsBlock
<1>3. blocks \in Seq(Seq(Nat))
  BY DEF MonitorInv, MonitorTyped
<1>4. ASSUME NEW p \in 1 .. Len(kinds), InTransfer(p), kinds[p] # "empty"
      PROVE  /\ PrintedBlock = <<g>>
             /\ \E k \in DOMAIN g : g[k] = p
  <2>1. p >= first
    BY <1>4 DEF InTransfer
  <2>2. p - first + 1 \in 1 .. (Len(kinds) - first + 1) /\ first + (p - first + 1) - 1 = p
    BY <1>2, <2>1
  <2>3. p - first + 1 \in DOMAIN g /\ g[p - first + 1] = p
    BY <1>2, <2>2
  <2>4. \E k \in DOMAIN Gathered : kinds[Gathered[k]] # "empty"
    BY <1>4, <2>3
  <2> QED
    BY <2>3, <2>4 DEF PrintedBlock
<1> HIDE DEF g
<1>5. PrintedBlock = <<g>> \/ PrintedBlock = <<>>
  BY DEF PrintedBlock, g
<1>6. CASE PrintedBlock = <<>>
  <2>1. blocks' = blocks
    BY <1>1, <1>3, <1>6
  <2>2. \A p \in 1 .. Len(kinds) : kinds[p] # "empty" => ~InTransfer(p)
    BY <1>4, <1>6
  <2>3. ASSUME NEW p \in 1 .. Len(kinds), kinds[p] # "empty" PROVE InABlock(p)' \/ p \in lost'
    BY <1>1, <2>1, <2>2, <2>3 DEF Account, InABlock
  <2> QED
    BY <1>1, <2>3 DEF Account
<1>7. CASE PrintedBlock = <<g>>
  <2>1. blocks' = Append(blocks, g)
    BY <1>1, <1>2, <1>3, <1>7
  <2>2. /\ DOMAIN blocks' = 1 .. (Len(blocks) + 1) /\ DOMAIN blocks = 1 .. Len(blocks)
        /\ Len(blocks) \in Nat /\ blocks'[Len(blocks) + 1] = g
        /\ \A j \in 1 .. Len(blocks) : blocks'[j] = blocks[j]
    BY <1>2, <1>3, <2>1, AppendProperties, LenProperties
  <2>3. ASSUME NEW p, InABlock(p) PROVE InABlock(p)'
    <3>1. PICK j \in DOMAIN blocks : \E k \in DOMAIN blocks[j] : blocks[j][k] = p
      BY <2>3 DEF InABlock
    <3>2. j \in DOMAIN blocks' /\ blocks'[j] = blocks[j]
      BY <2>2
    <3> QED
      BY <3>1, <3>2 DEF InABlock
  <2>4. ASSUME NEW p, \E k \in DOMAIN g : g[k] = p PROVE InABlock(p)'
    <3>1. Len(blocks) + 1 \in DOMAIN blocks'
      BY <2>2
    <3> QED
      BY <2>2, <2>4, <3>1 DEF InABlock
  <2>5. ASSUME NEW p \in 1 .. Len(kinds), kinds[p] # "empty" PROVE InABlock(p)' \/ p \in lost'
    <3>1. InABlock(p) \/ p \in lost \/ InTransfer(p)
      BY <2>5 DEF Account
    <3> QED
      BY <1>1, <1>4, <2>3, <2>4, <2>5, <3>1
  <2> QED
    BY <1>1, <2>5 DEF Account
<1> QED
  BY <1>5, <1>6, <1>7

\* Each packet with bytes is accounted for after every step.
LEMMA AccountStep ==
  ASSUME MonitorInv, Account, [MonitorNext]_monitorvars PROVE Account'
<1>1. CASE Transferred
  BY <1>1, TransferredAccount
<1>2. CASE Packet
  <2>1. PICK kind \in Kinds : kinds' = Append(kinds, kind)
    BY <1>2 DEF Packet, Kinds
  <2>2. /\ Len(kinds) \in Nat /\ Len(kinds') = Len(kinds) + 1
        /\ \A p \in 1 .. Len(kinds) : kinds'[p] = kinds[p]
    BY <2>1, AppendProperties DEF MonitorInv, MonitorTyped
  <2>3. UNCHANGED <<phase, first, blocks, lost>> /\ phase = "transfer" /\ first \in 1 .. (Len(kinds) + 1)
    BY <1>2 DEF Packet, MonitorInv, MonitorTyped
  <2>4. ASSUME NEW p \in 1 .. Len(kinds), kinds'[p] # "empty"
        PROVE  InABlock(p)' \/ p \in lost' \/ InTransfer(p)'
    <3>1. InABlock(p) \/ p \in lost \/ InTransfer(p)
      BY <2>2, <2>4 DEF Account
    <3> QED
      BY <2>3, <3>1 DEF InABlock, InTransfer
  <2>5. phase' = "transfer" /\ Len(kinds) + 1 >= first'
    BY <2>2, <2>3
  <2>6. \A p \in 1 .. Len(kinds') : p \in 1 .. Len(kinds) \/ p = Len(kinds) + 1
    BY <2>2
  <2> QED
    BY <2>4, <2>5, <2>6 DEF Account, InTransfer
<1>3. CASE Timeout \/ TransferError
  <2>1. /\ phase = "transfer" /\ UNCHANGED <<kinds, first, blocks>>
        /\ lost' = lost \cup ToSet(Gathered)
    BY <1>3 DEF Timeout, TransferError
  <2>2. Len(kinds) \in Nat /\ first \in 1 .. (Len(kinds) + 1)
    BY LenProperties DEF MonitorInv, MonitorTyped
  <2>3. ASSUME NEW p \in 1 .. Len(kinds), InTransfer(p) PROVE p \in ToSet(Gathered)
    <3>1. p >= first
      BY <2>3 DEF InTransfer
    <3>2. p - first + 1 \in 1 .. (Len(kinds) - first + 1) /\ first + (p - first + 1) - 1 = p
      BY <2>2, <3>1
    <3>3. p - first + 1 \in DOMAIN Gathered /\ Gathered[p - first + 1] = p
      BY <3>2 DEF Gathered, Sent
    <3> QED
      BY <3>3 DEF ToSet
  <2>4. ASSUME NEW p \in 1 .. Len(kinds), kinds[p] # "empty" PROVE InABlock(p)' \/ p \in lost'
    <3>1. InABlock(p) \/ p \in lost \/ InTransfer(p)
      BY <2>4 DEF Account
    <3> QED
      BY <2>1, <2>3, <3>1 DEF InABlock
  <2> QED
    BY <2>1, <2>4 DEF Account
<1>4. CASE \/ StartTransfer \/ OnSigint \/ Open \/ Preinit \/ StopLoop \/ MonitorExit
           \/ UNCHANGED monitorvars
  <2>1. /\ UNCHANGED <<kinds, blocks, lost>>
        /\ phase = "transfer" => UNCHANGED <<phase, first>>
    BY <1>4 DEF StartTransfer, OnSigint, Open, Preinit, StopLoop, MonitorExit, monitorvars
  <2>2. ASSUME NEW p \in 1 .. Len(kinds), kinds[p] # "empty"
        PROVE  InABlock(p)' \/ p \in lost' \/ InTransfer(p)'
    <3>1. InABlock(p) \/ p \in lost \/ InTransfer(p)
      BY <2>2 DEF Account
    <3> QED
      BY <2>1, <3>1 DEF InABlock, InTransfer
  <2> QED
    BY <2>1, <2>2 DEF Account
<1> QED
  BY <1>1, <1>2, <1>3, <1>4 DEF MonitorNext, Monitor

\* A transfer is filling, every block is whole, the blocks are in order, and of
\* every packet with bytes it is known where it went.
THEOREM MonitorInvariant == MonitorSpec => [](MonitorInv /\ Account)
<1>1. MonitorInit => MonitorInv /\ Account
  <2>1. MonitorInit => Len(kinds) = 0
    BY DEF MonitorInit
  <2> QED
    BY <2>1, MonitorInvInit DEF Account
<1>2. MonitorInv /\ Account /\ [MonitorNext]_monitorvars => MonitorInv' /\ Account'
  BY MonitorStep, AccountStep
<1> QED
  BY <1>1, <1>2, PTL DEF MonitorSpec

\* No block of the monitor runs two messages together or stops short of the end
\* of one while the buffer has room, and a packet with bytes that is in no block
\* went with a transfer that timed out or failed.
THEOREM BlocksAreWholeMessages == MonitorSpec => []BlocksAreMessages
<1>1. ASSUME MonitorInv, Account PROVE BlocksAreMessages
  <2> SUFFICES ASSUME NEW i \in DOMAIN blocks
               PROVE  LET b == blocks[i]
                      IN /\ Len(b) < BufferPackets => MessageEnd(Last(b))
                         /\ \A k \in 1 .. (Len(b) - 1) :
                              ~MessageEnd(b[k]) /\ b[k + 1] = b[k] + 1
    BY <1>1 DEF BlocksAreMessages, Account, Sent
  <2>1. blocks \in Seq(Seq(Nat)) /\ BlocksWhole /\ DOMAIN blocks = 1 .. Len(blocks) /\ Len(blocks) \in Nat
    BY <1>1, LenProperties DEF MonitorInv, MonitorTyped
  <2>2. ASSUME NEW j \in DOMAIN blocks
        PROVE  /\ Len(blocks[j]) \in 1 .. BufferPackets
               /\ \A k \in 1 .. Len(blocks[j]) : blocks[j][k] = blocks[j][1] + k - 1
               /\ \A k \in 1 .. Len(blocks[j]) : blocks[j][k] \in Nat \ {0}
               /\ \A k \in 1 .. (Len(blocks[j]) - 1) : ~MessageEnd(blocks[j][k])
               /\ Len(blocks[j]) < BufferPackets => MessageEnd(Last(blocks[j]))
    <3> DEFINE b == blocks[j]
    <3>1. b \in Seq(Nat) /\ IsBlock(b, kinds)
      BY <2>1, ElementOfSeq DEF BlocksWhole
    <3> HIDE DEF b
    <3>2. /\ Len(b) \in 1 .. BufferPackets /\ b[1] >= 1
          /\ \A k \in 1 .. Len(b) : b[k] = b[1] + k - 1
          /\ \A k \in 1 .. (Len(b) - 1) : kinds[b[k]] = "full"
          /\ Len(b) < BufferPackets => kinds[b[Len(b)]] # "full"
      BY <3>1 DEF IsBlock
    <3>3. \A k \in 1 .. Len(b) : b[k] \in Nat
      BY <3>1, ElementOfSeq
    <3>4. \A k \in 1 .. Len(b) : b[k] \in Nat \ {0}
      <4>1. Len(b) \in Nat /\ (\A k \in 1 .. Len(b) : 1 \in 1 .. Len(b))
        BY <3>2, Ep81Assumption
      <4>2. b[1] \in Nat \/ Len(b) = 0
        BY <3>3, <4>1
      <4> QED
        BY <3>2, <3>3, <4>1, <4>2
    <3>5. \A k \in 1 .. (Len(b) - 1) : k \in 1 .. Len(b)
      BY <3>2, Ep81Assumption
    <3> QED
      BY <3>2, <3>4, <3>5 DEF b, MessageEnd, Last
  <2> DEFINE b == blocks[i]
  <2>3. \A k \in 1 .. (Len(b) - 1) : b[k + 1] = b[k] + 1
    <3>1. Len(b) \in 1 .. BufferPackets /\ (\A k \in 1 .. Len(b) : b[k] = b[1] + k - 1) /\ b[1] \in Nat
      BY <2>2, Ep81Assumption
    <3> HIDE DEF b
    <3>2. ASSUME NEW k \in 1 .. (Len(b) - 1) PROVE b[k + 1] = b[k] + 1
      <4>1. k \in 1 .. Len(b) /\ k + 1 \in 1 .. Len(b)
        BY <3>1, Ep81Assumption
      <4>2. b[k] = b[1] + k - 1 /\ b[k + 1] = b[1] + (k + 1) - 1
        BY <3>1, <4>1
      <4>3. ASSUME NEW x \in Nat, NEW y, NEW z, y = x + k - 1, z = x + (k + 1) - 1
            PROVE  z = y + 1
        BY <4>3, <4>1
      <4> QED
        BY <3>1, <4>2, <4>3
    <3> QED
      BY <3>2
  <2> QED
    BY <2>2, <2>3
<1> QED
  BY <1>1, MonitorInvariant, PTL

\* Every step of the monitor is one of a listener's.
LEMMA MonitorFeeds ==
  ASSUME MonitorInv, [MonitorNext]_monitorvars
  PROVE  [Listener!Next]_(Listener!vars)
<1> DEFINE Stopping == stop_flag \/ phase \in {"failed", "exit"}
<1>0. stop_flag \in BOOLEAN /\ (phase = "closing" => stop_flag)
  BY DEF MonitorInv, MonitorTyped
<1>1. CASE Packet
  <2>1. Len(kinds') = Len(kinds) + 1
    BY <1>1, AppendProperties DEF Packet, MonitorInv, MonitorTyped, Kinds
  <2>2. UNCHANGED <<phase, stop_flag, blocks>>
    BY <1>1 DEF Packet
  <2>3. Listener!Send
    BY <2>1, <2>2 DEF Listener!Send, Sent
  <2> QED
    BY <2>3 DEF Listener!Next
<1>2. CASE Transferred
  <2> DEFINE g == Gathered
  <2>1. /\ phase = "transfer" /\ TransferComplete /\ phase' = "loop"
        /\ UNCHANGED <<stop_flag, kinds>> /\ blocks' = blocks \o PrintedBlock
    BY <1>2 DEF Transferred
  <2>2. /\ g \in Seq(Nat)
        /\ g = [k \in 1 .. (Len(kinds) - first + 1) |-> first + k - 1]
        /\ first \in 1 .. Len(kinds) /\ Len(kinds) \in Nat
    BY <2>1, GatheredIsBlock
  <2>3. blocks \in Seq(Seq(Nat)) /\ Flat \in Seq(Nat) /\ LastFlat < first
    BY <2>1 DEF MonitorInv, MonitorTyped, Behind
  <2>4. PrintedBlock = <<g>> \/ PrintedBlock = <<>>
    BY DEF PrintedBlock
  <2> HIDE DEF g
  <2>5. CASE PrintedBlock = <<>>
    <3>1. blocks' = blocks
      BY <2>1, <2>3, <2>5
    <3> QED
      BY <2>1, <3>1 DEF Listener!vars, Sent
  <2>6. CASE PrintedBlock = <<g>>
    <3>1. FlattenSeq(blocks') = Flat \o g
      <4>1. blocks' = Append(blocks, g)
        BY <2>1, <2>2, <2>3, <2>6
      <4> QED
        BY <2>2, <2>3, <4>1, FlattenAppend DEF Flat
    <3>2. Listener!LastShown = LastFlat
      BY DEF Listener!LastShown, LastFlat, Flat, FlattenSeq
    <3>3. first \in (Listener!LastShown + 1) .. Len(kinds) /\ Len(kinds) \in first .. Len(kinds)
      <4>1. LastFlat \in Nat
        BY <2>3 DEF LastFlat
      <4> QED
        BY <2>2, <2>3, <3>2, <4>1
    <3>4. Listener!Show
      <4>1. phase # "exit" /\ phase' # "exit" /\ phase # "failed" /\ phase' # "failed" /\ stop_flag' = stop_flag
        BY <2>1
      <4>2. FlattenSeq(blocks)' = FlattenSeq(blocks) \o g
        BY <3>1, Zenon DEF Flat, FlattenSeq
      <4>3. UNCHANGED <<Sent, stop_flag \/ phase \in {"failed", "exit"}, phase # "exit">>
        BY <2>1, <4>1 DEF Sent
      <4>4. \E from \in (Listener!LastShown + 1) .. Sent : \E to \in from .. Sent :
               FlattenSeq(blocks)'
                 = FlattenSeq(blocks) \o [k \in 1 .. (to - from + 1) |-> from + k - 1]
        BY <2>2, <3>3, <4>2 DEF Sent
      <4> QED
        BY <4>1, <4>3, <4>4, Zenon DEF Listener!Show
    <3> QED
      BY <3>4 DEF Listener!Next
  <2> QED
    BY <2>4, <2>5, <2>6
<1>3. CASE OnSigint
  <2>1. phase # "exit" /\ stop_flag' = TRUE /\ UNCHANGED <<phase, kinds, blocks>>
    BY <1>3 DEF OnSigint
  <2>2. Listener!Stop
    BY <2>1 DEF Listener!Stop, Sent
  <2> QED
    BY <2>2 DEF Listener!Next
<1>4. CASE Open
  <2>1. phase = "open" /\ phase' \in {"preinit", "failed"} /\ UNCHANGED <<stop_flag, kinds, blocks>>
    BY <1>4 DEF Open
  <2>2. CASE phase' = "failed"
    <3>1. Listener!Stop
      BY <2>1, <2>2 DEF Listener!Stop, Sent
    <3> QED
      BY <3>1 DEF Listener!Next
  <2>3. CASE phase' = "preinit"
    BY <2>1, <2>3 DEF Listener!vars, Sent
  <2> QED
    BY <2>1, <2>2, <2>3
<1>5. CASE Preinit \/ StartTransfer \/ Timeout \/ TransferError \/ StopLoop
  <2>1. /\ phase \notin {"failed", "exit"} /\ phase' \notin {"failed", "exit"}
        /\ UNCHANGED <<stop_flag, kinds, blocks>>
    BY <1>5 DEF Preinit, StartTransfer, Timeout, TransferError, StopLoop
  <2> QED
    BY <2>1 DEF Listener!vars, Sent
<1>6. CASE MonitorExit
  <2>1. /\ phase \in {"closing", "failed"} /\ phase' = "exit"
        /\ UNCHANGED <<stop_flag, kinds, blocks>>
    BY <1>6 DEF MonitorExit
  <2>2. Listener!Finish
    BY <1>0, <2>1 DEF Listener!Finish, Sent
  <2> QED
    BY <2>2 DEF Listener!Next
<1>7. CASE UNCHANGED monitorvars
  BY <1>7 DEF monitorvars, Listener!vars, Sent
<1> QED
  BY <1>1, <1>2, <1>3, <1>4, <1>5, <1>6, <1>7 DEF MonitorNext, Monitor

\* The monitor implements PacketFeed, but for its liveness: it prints packets in
\* the order sent, each at most once and none after the end.
THEOREM MonitorImplementsFeed == MonitorSpec => Listener!Init /\ [][Listener!Next]_(Listener!vars)
<1>1. MonitorInit => Listener!Init
  BY FlattenEmpty DEF MonitorInit, Listener!Init, Sent, FlattenSeq
<1>2. MonitorInv /\ [MonitorNext]_monitorvars => [Listener!Next]_(Listener!vars)
  BY MonitorFeeds
<1> QED
  BY <1>1, <1>2, MonitorInvariant, PTL DEF MonitorSpec
=============================================================================
