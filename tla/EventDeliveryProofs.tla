------------------------ MODULE EventDeliveryProofs ------------------------
(***************************************************************************)
(* Events keep their causal order on the way to the broker, for any number  *)
(* of requests, overlapping passes and faults; and the cache they feed      *)
(* converges when nothing overlaps and nothing is lost (second half).       *)
(*                                                                         *)
(* CausalOrder is not inductive: a pass publishes its first record whatever *)
(* that record's predecessors are.  It follows from what a pass has read: a *)
(* predecessor of a record of the pass was in the outbox when the pass      *)
(* began, so that it is published, given up, or still before the record in  *)
(* the pass.  For that, a record must never leave "published or given up":  *)
(* only a record that is published is marked SENT, and only a record nobody *)
(* else has seen is committed or rolled back.                               *)
(***************************************************************************)
EXTENDS EventDelivery, SequenceTheorems, TLAPS

Settled == published \union GivenUp

\* A request that is about to commit has a record that no one else has seen.
RecordsHeld ==
    \A r \in Requests : doing[r].step = "commit" =>
        /\ doing[r].record \in DOMAIN outbox
        /\ outbox[doing[r].record].status = "flushed"

\* No two requests have the same record.
RecordsDiffer ==
    \A r, q \in Requests :
        /\ r # q
        /\ doing[r].step = "commit"
        /\ doing[q].step = "commit"
        => doing[r].record # doing[q].record

\* Predecessors are older and were committed.
BeforeIsOlder ==
    \A i \in DOMAIN outbox :
        /\ outbox[i].before \subseteq Committed
        /\ \A j \in outbox[i].before : j < i

SentIsPublished == \A i \in DOMAIN outbox : outbox[i].status = "SENT" => i \in published

\* A pass works on committed records, and what it has sent is published.
PassesHold ==
    \A p \in Passes :
        /\ pass[p].todo \subseteq Committed
        /\ pass[p].sent => First(p) \subseteq published

\* What a pass has read covers the predecessors of its records.
PassesCover ==
    \A p \in Passes : \A i \in pass[p].todo :
        outbox[i].before \subseteq Settled \union pass[p].todo

Inv ==
    /\ TypeOK
    /\ RecordsHeld
    /\ RecordsDiffer
    /\ BeforeIsOlder
    /\ SentIsPublished
    /\ PassesHold
    /\ PassesCover
    /\ CausalOrder

LEMMA FaultType == ASSUME TypeOK, NEW kind, Fault(kind) PROVE faults' \in Nat
  BY DEF TypeOK, Fault

LEMMA InitInv == Init => Inv
<1> SUFFICES ASSUME Init PROVE Inv
  OBVIOUS
<1>1. TypeOK
  BY EmptySeq DEF Init, TypeOK, NoRequest, NoPass, Request, Pass, Steps, Kinds
<1> QED
  BY <1>1 DEF Init, Inv, RecordsHeld, RecordsDiffer, BeforeIsOlder, SentIsPublished,
     PassesHold, PassesCover, CausalOrder, NoRequest, NoPass

-----------------------------------------------------------------------------
(* Steps that leave the outbox alone.                                      *)

\* Any step of a request but its flush and its commit.
LEMMA RequestKeepsInv ==
  ASSUME Inv, NEW r \in Requests, NEW d \in Request,
         d.step # "commit",
         doing' = [doing EXCEPT ![r] = d],
         UNCHANGED <<outbox, pass, published>>,
         queue' \in Seq(Nat), faults' \in Nat, cached' \in BOOLEAN, orderly' \in BOOLEAN,
         life' \in {"absent", "live", "gone"}
  PROVE  Inv'
<1>1. doing' \in [Requests -> Request]
  BY DEF Inv, TypeOK
<1>2. \A q \in Requests : doing'[q].step = "commit" => doing'[q] = doing[q]
  BY DEF Inv, TypeOK
<1>3. TypeOK'
  BY <1>1 DEF Inv, TypeOK
<1>4. RecordsHeld' /\ RecordsDiffer'
  BY <1>2 DEF Inv, RecordsHeld, RecordsDiffer
<1> QED
  BY <1>3, <1>4 DEF Inv, BeforeIsOlder, SentIsPublished, PassesHold, PassesCover, CausalOrder,
     Committed, Settled, GivenUp, First

LEMMA StartPassKeepsInv ==
  ASSUME Inv, NEW p \in Passes, StartPass(p)
  PROVE  Inv'
<1> USE DEF StartPass, serviceVars
<1>1. Pending \subseteq Committed /\ Pending \subseteq Nat
  BY LenProperties DEF Inv, TypeOK, Pending, Committed
<1>2. \A i \in Pending : outbox[i].before \subseteq Settled \union Pending
  BY DEF Inv, BeforeIsOlder, SentIsPublished, Settled, GivenUp, Pending, Committed
<1>3. TypeOK'
  BY <1>1 DEF Inv, TypeOK, Pass
<1>4. PassesHold'
  BY <1>1 DEF Inv, TypeOK, PassesHold, First, Committed
<1>5. PassesCover'
  BY <1>2 DEF Inv, TypeOK, PassesCover, Settled, GivenUp
<1> QED
  BY <1>3, <1>4, <1>5 DEF Inv, RecordsHeld, RecordsDiffer, BeforeIsOlder, SentIsPublished,
     CausalOrder, Committed, GivenUp

\* The record a pass is at comes after its predecessors.
LEMMA FirstFollows ==
  ASSUME Inv, NEW p \in Passes, NEW i \in First(p)
  PROVE  outbox[i].before \subseteq Settled
<1>1. i \in DOMAIN outbox /\ i \in pass[p].todo
  BY DEF Inv, PassesHold, First, Committed
<1>2. ASSUME NEW j \in outbox[i].before PROVE j \notin pass[p].todo
  <2>1. j < i /\ i \in Nat /\ j \in Nat
    BY <1>1, <1>2, LenProperties DEF Inv, BeforeIsOlder, Committed, TypeOK
  <2> QED
    BY <2>1 DEF First
<1> QED
  BY <1>1, <1>2 DEF Inv, PassesCover

LEMMA ReachesKeepsInv ==
  ASSUME Inv, NEW p \in Passes, NEW i \in First(p), Reaches(p, i),
         \/ pass' = pass
         \/ pass' = [pass EXCEPT ![p].sent = TRUE],
         UNCHANGED <<doing, life, outbox, cached, orderly>>,
         faults' \in Nat
  PROVE  Inv'
<1>1. i \in DOMAIN outbox /\ i \in Nat
  BY LenProperties DEF Inv, PassesHold, First, Committed, TypeOK
<1>2. published' = published \union {i} /\ queue' = Append(queue, i)
  BY DEF Reaches
<1>3. pass' \in [Passes -> Pass] /\ \A q \in Passes : pass'[q].todo = pass[q].todo
  <2>1. pass \in [Passes -> Pass]
    BY DEF Inv, TypeOK
  <2>2. CASE pass' = pass
    BY <2>1, <2>2
  <2>3. CASE pass' = [pass EXCEPT ![p].sent = TRUE]
    BY <2>1, <2>3 DEF Pass
  <2> QED
    BY <2>2, <2>3
<1>4. TypeOK'
  BY <1>1, <1>2, <1>3 DEF Inv, TypeOK
<1>5. \A q \in Passes : First(q)' = First(q)
  BY <1>3 DEF First
<1>6. ASSUME NEW q \in Passes, pass'[q].sent PROVE First(q) \subseteq published'
  <2>1. CASE q = p
    <3>1. First(p) = {i}
      BY <1>1, LenProperties DEF First, Inv, TypeOK, Pass
    <3> QED
      BY <2>1, <3>1, <1>2
  <2>2. CASE q # p
    BY <2>2, <1>2, <1>6 DEF Inv, TypeOK, PassesHold, Pass
  <2> QED
    BY <2>1, <2>2
<1>7. PassesHold'
  BY <1>3, <1>5, <1>6 DEF Inv, PassesHold, Committed
<1>8. Settled \subseteq Settled'
  BY <1>2 DEF Settled, GivenUp
<1>9. PassesCover'
  BY <1>3, <1>8 DEF Inv, PassesCover
<1>10. CausalOrder'
  BY <1>2, <1>8, FirstFollows DEF Inv, CausalOrder, Settled
<1> QED
  BY <1>2, <1>4, <1>7, <1>9, <1>10 DEF Inv, RecordsHeld, RecordsDiffer, BeforeIsOlder,
     SentIsPublished, Committed

LEMMA PassFailsKeepsInv ==
  ASSUME Inv, NEW p \in Passes, PassFails(p)
  PROVE  Inv'
<1>1. pass' \in [Passes -> Pass] /\ \A q \in Passes : pass'[q] = pass[q] \/ pass'[q] = NoPass
  BY DEF PassFails, Inv, TypeOK, Pass, NoPass
<1>2. TypeOK'
  BY <1>1 DEF PassFails, Fault, serviceVars, Inv, TypeOK
<1>3. PassesHold' /\ PassesCover'
  BY <1>1 DEF PassFails, Inv, PassesHold, PassesCover, First, Committed, Settled, GivenUp, NoPass
<1> QED
  BY <1>2, <1>3 DEF PassFails, serviceVars, Inv, RecordsHeld, RecordsDiffer, BeforeIsOlder,
     SentIsPublished, CausalOrder, Committed, GivenUp

-----------------------------------------------------------------------------
(* Steps that write to the outbox.                                         *)

LEMMA FlushKeepsInv ==
  ASSUME Inv, NEW r \in Requests, FlushEvent(r)
  PROVE  Inv'
<1> DEFINE e == [kind |-> doing[r].kind, status |-> "flushed", before |-> Committed]
           n == Len(outbox) + 1
<1>1. e \in Record /\ n \in Nat
  <2>1. doing[r].kind \in Kinds
    BY DEF Inv, TypeOK, Request
  <2>2. Committed \subseteq Nat /\ n \in Nat
    BY LenProperties DEF Inv, TypeOK, Committed
  <2> QED
    BY <2>1, <2>2 DEF Record, Statuses
<1>2. outbox' = Append(outbox, e)
  BY DEF FlushEvent
<1>3. /\ outbox' \in Seq(Record)
      /\ DOMAIN outbox = 1 .. Len(outbox)
      /\ DOMAIN outbox' = 1 .. n
      /\ \A i \in DOMAIN outbox : outbox'[i] = outbox[i]
      /\ outbox'[n] = e
  <2> HIDE DEF e
  <2> QED
    BY <1>1, <1>2, LenProperties DEF Inv, TypeOK
<1>4. doing' = [doing EXCEPT ![r] = [step |-> "commit", kind |-> doing[r].kind, record |-> n]]
  BY DEF FlushEvent
<1>5. TypeOK'
  <2>1. doing' \in [Requests -> Request]
    BY <1>1, <1>4 DEF Inv, TypeOK, Request, Steps
  <2> QED
    BY <1>1, <1>3, <2>1 DEF FlushEvent, Inv, TypeOK
<1>6. Committed' = Committed /\ GivenUp' = GivenUp /\ Settled' = Settled
  BY <1>1, <1>3, LenProperties DEF FlushEvent, Committed, GivenUp, Settled, Inv, TypeOK
<1>7. RecordsHeld' /\ RecordsDiffer'
  BY <1>1, <1>3, <1>4 DEF Inv, TypeOK, RecordsHeld, RecordsDiffer
<1>8. BeforeIsOlder'
  BY <1>1, <1>3, <1>6 DEF Inv, BeforeIsOlder, Committed
<1>9. SentIsPublished'
  BY <1>1, <1>3 DEF FlushEvent, Inv, SentIsPublished
<1>10. PassesHold' /\ PassesCover'
  BY <1>3, <1>6 DEF FlushEvent, Inv, PassesHold, PassesCover, First, Committed
<1>11. CausalOrder'
  BY <1>3, <1>6 DEF FlushEvent, Inv, CausalOrder, TypeOK
<1> QED
  BY <1>5, <1>7, <1>8, <1>9, <1>10, <1>11 DEF Inv

\* A record changes its status only.
StatusOnly ==
    /\ outbox' \in Seq(Record)
    /\ DOMAIN outbox' = DOMAIN outbox
    /\ \A i \in DOMAIN outbox : outbox'[i].before = outbox[i].before

LEMMA MarkedIsStatusOnly ==
  ASSUME TypeOK, NEW i \in DOMAIN outbox, NEW s \in Statuses, Marked(i, s)
  PROVE  /\ StatusOnly
         /\ \A j \in DOMAIN outbox : outbox'[j].status = IF j = i THEN s ELSE outbox[j].status
<1>1. outbox \in Seq(Record) /\ i \in 1 .. Len(outbox) /\ DOMAIN outbox = 1 .. Len(outbox)
  BY LenProperties DEF TypeOK
<1> DEFINE e == [outbox[i] EXCEPT !.status = s]
<1>2. outbox[i] \in Record
  BY <1>1, ElementOfSeq
<1>3. e \in Record /\ e.before = outbox[i].before /\ e.status = s
  BY <1>2 DEF Record
<1>4. outbox' = [outbox EXCEPT ![i] = e]
  BY DEF Marked
<1> HIDE DEF e
<1>5. outbox' \in Seq(Record) /\ DOMAIN outbox' = DOMAIN outbox
  BY <1>1, <1>3, <1>4, ExceptSeq
<1>6. \A j \in DOMAIN outbox : outbox'[j] = IF j = i THEN e ELSE outbox[j]
  BY <1>1, <1>3, <1>4, ExceptSeq
<1> QED
  BY <1>3, <1>5, <1>6 DEF StatusOnly

\* What a change of statuses must keep for the parts of Inv about the outbox.
LEMMA StatusesKeepInv ==
  ASSUME Inv, StatusOnly,
         \A i \in Committed : outbox'[i].status \in {"PENDING", "SENT", "FAILED"},
         \A i \in GivenUp : outbox'[i].status = "FAILED" \/ i \in published,
         \A i \in DOMAIN outbox :
            outbox'[i].status = "SENT" => outbox[i].status = "SENT" \/ i \in published,
         published' = published
  PROVE  /\ Committed \subseteq Committed'
         /\ Settled \subseteq Settled'
         /\ BeforeIsOlder'
         /\ SentIsPublished'
         /\ CausalOrder'
<1>1. Committed \subseteq Committed'
  BY DEF StatusOnly, Committed
<1>2. Settled \subseteq Settled'
  BY DEF StatusOnly, Settled, GivenUp
<1>3. BeforeIsOlder'
  BY <1>1 DEF StatusOnly, Inv, BeforeIsOlder
<1>4. SentIsPublished'
  BY DEF StatusOnly, Inv, SentIsPublished
<1>5. CausalOrder'
  BY <1>2 DEF StatusOnly, Inv, CausalOrder, TypeOK, Settled
<1> QED
  BY <1>1, <1>2, <1>3, <1>4, <1>5

LEMMA CommitKeepsInv ==
  ASSUME Inv, NEW r \in Requests, CommitEvent(r)
  PROVE  Inv'
<1> DEFINE i == doing[r].record
<1>1. i \in DOMAIN outbox /\ outbox[i].status = "flushed"
  BY DEF CommitEvent, Inv, RecordsHeld
<1>2. StatusOnly /\ \A j \in DOMAIN outbox : outbox'[j].status = IF j = i THEN "PENDING" ELSE outbox[j].status
  BY <1>1, MarkedIsStatusOnly DEF CommitEvent, Inv, Statuses
<1> HIDE DEF i
<1>3. /\ Committed \subseteq Committed' /\ Settled \subseteq Settled'
      /\ BeforeIsOlder' /\ SentIsPublished' /\ CausalOrder'
  BY <1>1, <1>2, StatusesKeepInv DEF CommitEvent, Committed, GivenUp
<1>4. doing' = [doing EXCEPT ![r] = NoRequest]
  BY DEF CommitEvent, Ends
<1>5. TypeOK'
  BY <1>2, <1>4 DEF CommitEvent, Inv, TypeOK, StatusOnly, NoRequest, Request, Steps, Kinds
<1>6. RecordsHeld' /\ RecordsDiffer'
  <2>1. \A q \in Requests : doing'[q].step = "commit" => q # r /\ doing'[q] = doing[q]
    BY <1>4 DEF Inv, TypeOK, NoRequest
  <2>2. doing[r].step = "commit"
    BY DEF CommitEvent
  <2> QED
    BY <1>2, <2>1, <2>2 DEF Inv, RecordsHeld, RecordsDiffer, StatusOnly, i
<1>7. PassesHold' /\ PassesCover'
  BY <1>2, <1>3 DEF CommitEvent, Inv, PassesHold, PassesCover, First, StatusOnly, Committed
<1> QED
  BY <1>3, <1>5, <1>6, <1>7 DEF Inv

\* A rollback: of one request's record, or of every record not committed yet.
RolledBack(i) == [outbox[i] EXCEPT !.status = "rolled back"]

LEMMA RollbackIsStatusOnly ==
  ASSUME TypeOK, NEW S \in SUBSET DOMAIN outbox,
         outbox' = [i \in DOMAIN outbox |-> IF i \in S THEN RolledBack(i) ELSE outbox[i]]
  PROVE  /\ StatusOnly
         /\ \A j \in DOMAIN outbox :
               outbox'[j].status = IF j \in S THEN "rolled back" ELSE outbox[j].status
<1>1. outbox \in [1 .. Len(outbox) -> Record] /\ DOMAIN outbox = 1 .. Len(outbox) /\ Len(outbox) \in Nat
  BY LenProperties DEF TypeOK
<1>2. ASSUME NEW i \in DOMAIN outbox
      PROVE  /\ RolledBack(i) \in Record
             /\ RolledBack(i).before = outbox[i].before
             /\ RolledBack(i).status = "rolled back"
  BY <1>1 DEF RolledBack, Record, Statuses
<1>3. outbox' \in [1 .. Len(outbox) -> Record]
  BY <1>1, <1>2
<1>4. outbox' \in Seq(Record)
  BY <1>1, <1>3, SeqDef
<1> QED
  BY <1>1, <1>2, <1>4 DEF StatusOnly

LEMMA FailBetweenCommitsKeepsInv ==
  ASSUME Inv, NEW r \in Requests, FailBetweenCommits(r)
  PROVE  Inv'
<1> DEFINE S == {i \in DOMAIN outbox : doing[r].step = "commit" /\ i = doing[r].record}
<1>1. outbox' = [i \in DOMAIN outbox |-> IF i \in S THEN RolledBack(i) ELSE outbox[i]]
  BY DEF FailBetweenCommits, RolledBack
<1>2. \A i \in S : outbox[i].status = "flushed"
  BY DEF Inv, RecordsHeld
<1>3. S \subseteq DOMAIN outbox
  OBVIOUS
<1>4. \A q \in Requests \ {r} : doing[q].step = "commit" => doing[q].record \notin S
  BY DEF Inv, RecordsDiffer
<1> HIDE DEF S
<1>5. StatusOnly /\ \A j \in DOMAIN outbox :
        outbox'[j].status = IF j \in S THEN "rolled back" ELSE outbox[j].status
  BY <1>1, <1>3, RollbackIsStatusOnly DEF Inv
<1>a. /\ UNCHANGED <<life, pass, published, queue, cached>>
      /\ orderly' \in BOOLEAN /\ faults' \in Nat
  <2>1. orderly' \in BOOLEAN
    BY DEF FailBetweenCommits, Inv, TypeOK
  <2>2. faults' \in Nat
    BY FaultType DEF FailBetweenCommits, Inv
  <2> QED
    BY <2>1, <2>2 DEF FailBetweenCommits
<1>6. /\ Committed \subseteq Committed' /\ Settled \subseteq Settled'
      /\ BeforeIsOlder' /\ SentIsPublished' /\ CausalOrder'
  <2>1. \A i \in DOMAIN outbox \ S : outbox'[i].status = outbox[i].status
    BY <1>5
  <2>2. \A i \in S : outbox'[i].status = "rolled back"
    BY <1>3, <1>5
  <2>3. Committed \intersect S = {} /\ Committed \subseteq DOMAIN outbox
    BY <1>2 DEF Committed
  <2>4. GivenUp \subseteq Committed /\ \A i \in GivenUp : outbox[i].status = "FAILED"
    BY DEF GivenUp, Committed
  <2>5. \A i \in Committed : outbox'[i].status \in {"PENDING", "SENT", "FAILED"}
    BY <2>1, <2>3 DEF Committed
  <2>6. \A i \in GivenUp : outbox'[i].status = "FAILED"
    BY <2>1, <2>3, <2>4
  <2>7. \A i \in DOMAIN outbox : outbox'[i].status = "SENT" => outbox[i].status = "SENT"
    BY <2>1, <2>2
  <2> QED
    BY <1>5, <1>a, <2>5, <2>6, <2>7, StatusesKeepInv
<1>7. doing' = [doing EXCEPT ![r] = NoRequest]
  BY DEF FailBetweenCommits, Ends
<1>8. TypeOK'
  <2>1. doing' \in [Requests -> Request]
    BY <1>7 DEF Inv, TypeOK, NoRequest, Request, Steps, Kinds
  <2> QED
    BY <1>5, <1>a, <2>1 DEF Inv, TypeOK, StatusOnly
<1>9. RecordsHeld' /\ RecordsDiffer'
  <2>1. \A q \in Requests : doing'[q].step = "commit" => q # r /\ doing'[q] = doing[q]
    BY <1>7 DEF Inv, TypeOK, NoRequest
  <2>2. RecordsHeld'
    <3>1. ASSUME NEW q \in Requests, doing'[q].step = "commit"
          PROVE  doing[q].record \in DOMAIN outbox \ S /\ outbox[doing[q].record].status = "flushed"
      BY <1>4, <2>1, <3>1 DEF Inv, RecordsHeld
    <3> QED
      BY <1>5, <2>1, <3>1 DEF RecordsHeld, StatusOnly
  <2>3. RecordsDiffer'
    BY <2>1 DEF Inv, RecordsDiffer
  <2> QED
    BY <2>2, <2>3
<1>10. PassesHold' /\ PassesCover'
  BY <1>5, <1>6 DEF FailBetweenCommits, Inv, PassesHold, PassesCover, First, StatusOnly, Committed
<1> QED
  BY <1>6, <1>8, <1>9, <1>10 DEF Inv

LEMMA RestartKeepsInv ==
  ASSUME Inv, Restart
  PROVE  Inv'
<1> DEFINE S == {i \in DOMAIN outbox : outbox[i].status = "flushed"}
<1>1. outbox' = [i \in DOMAIN outbox |-> IF i \in S THEN RolledBack(i) ELSE outbox[i]]
  BY DEF Restart, RolledBack
<1>2. \A i \in S : outbox[i].status = "flushed"
  OBVIOUS
<1>3. S \subseteq DOMAIN outbox
  OBVIOUS
<1> HIDE DEF S
<1>4. StatusOnly /\ \A j \in DOMAIN outbox :
        outbox'[j].status = IF j \in S THEN "rolled back" ELSE outbox[j].status
  BY <1>1, <1>3, RollbackIsStatusOnly DEF Inv
<1>a. /\ UNCHANGED <<life, published, queue, cached>>
      /\ orderly' \in BOOLEAN /\ faults' \in Nat
  <2>1. orderly' \in BOOLEAN
    BY DEF Restart, Inv, TypeOK
  <2>2. faults' \in Nat
    BY FaultType DEF Restart, Inv
  <2> QED
    BY <2>1, <2>2 DEF Restart
<1>5. BeforeIsOlder' /\ SentIsPublished' /\ CausalOrder'
  <2>1. \A i \in DOMAIN outbox \ S : outbox'[i].status = outbox[i].status
    BY <1>4
  <2>2. \A i \in S : outbox'[i].status = "rolled back"
    BY <1>3, <1>4
  <2>3. Committed \intersect S = {} /\ Committed \subseteq DOMAIN outbox
    BY <1>2 DEF Committed
  <2>4. GivenUp \subseteq Committed /\ \A i \in GivenUp : outbox[i].status = "FAILED"
    BY DEF GivenUp, Committed
  <2>5. \A i \in Committed : outbox'[i].status \in {"PENDING", "SENT", "FAILED"}
    BY <2>1, <2>3 DEF Committed
  <2>6. \A i \in GivenUp : outbox'[i].status = "FAILED"
    BY <2>1, <2>3, <2>4
  <2>7. \A i \in DOMAIN outbox : outbox'[i].status = "SENT" => outbox[i].status = "SENT"
    BY <2>1, <2>2
  <2> QED
    BY <1>4, <1>a, <2>5, <2>6, <2>7, StatusesKeepInv
<1>6. /\ doing' = [r \in Requests |-> NoRequest]
      /\ pass' = [p \in Passes |-> NoPass]
  BY DEF Restart
<1>7. TypeOK'
  <2>1. doing' \in [Requests -> Request] /\ pass' \in [Passes -> Pass]
    BY <1>6 DEF NoRequest, NoPass, Request, Pass, Steps, Kinds
  <2> QED
    BY <1>4, <1>a, <2>1 DEF Inv, TypeOK, StatusOnly
<1>8. RecordsHeld' /\ RecordsDiffer' /\ PassesHold' /\ PassesCover'
  BY <1>6 DEF RecordsHeld, RecordsDiffer, PassesHold, PassesCover, NoRequest, NoPass
<1> QED
  BY <1>5, <1>7, <1>8 DEF Inv

\* A pass is done with a record that is published or given up.
LEMMA DoneKeepsInv ==
  ASSUME Inv, NEW p \in Passes, NEW i \in First(p), NEW s \in {"SENT", "FAILED"},
         Done(p, i, s),
         s = "SENT" => i \in published,
         UNCHANGED <<doing, life, published, queue, cached>>,
         orderly' \in BOOLEAN,
         faults' \in Nat
  PROVE  Inv'
<1>1. i \in pass[p].todo /\ i \in Committed /\ i \in DOMAIN outbox
  BY DEF First, Inv, PassesHold, Committed
<1>2. StatusOnly /\ \A j \in DOMAIN outbox : outbox'[j].status = IF j = i THEN s ELSE outbox[j].status
  <2>1. TypeOK /\ s \in Statuses /\ Marked(i, s)
    BY DEF Done, Inv, Statuses
  <2> QED
    BY <1>1, <2>1, MarkedIsStatusOnly
<1>3. /\ Committed \subseteq Committed' /\ Settled \subseteq Settled'
      /\ BeforeIsOlder' /\ SentIsPublished' /\ CausalOrder'
  BY <1>1, <1>2, StatusesKeepInv DEF Committed, GivenUp
<1>4. i \in Settled'
  BY <1>1, <1>2 DEF Settled, GivenUp, StatusOnly
<1>5. pass' = [pass EXCEPT ![p] = [todo |-> pass[p].todo \ {i}, sent |-> FALSE]]
  BY DEF Done
<1>6. pass' \in [Passes -> Pass]
  BY <1>5 DEF Inv, TypeOK, Pass
<1>7. TypeOK'
  BY <1>2, <1>6 DEF Inv, TypeOK, StatusOnly
<1>8. RecordsHeld' /\ RecordsDiffer'
  BY <1>1, <1>2 DEF Inv, RecordsHeld, RecordsDiffer, StatusOnly, Committed
<1>9. \A q \in Passes : /\ q # p => pass'[q] = pass[q]
                        /\ q = p => pass'[q].todo = pass[q].todo \ {i} /\ ~pass'[q].sent
  BY <1>5 DEF Inv, TypeOK
<1>10. PassesHold'
  BY <1>3, <1>9 DEF Inv, PassesHold, First
<1>11. PassesCover'
  BY <1>2, <1>3, <1>4, <1>9 DEF Inv, PassesCover, PassesHold, StatusOnly, Committed
<1> QED
  BY <1>3, <1>7, <1>8, <1>10, <1>11 DEF Inv

-----------------------------------------------------------------------------
\* The consumer changes its queue and its cache only.
LEMMA ConsumerKeepsInv ==
  ASSUME Inv, Consume \/ ConsumeFails \/ ConsumeAgain
  PROVE  Inv'
<1>1. queue' \in Seq(Nat)
  <2>1. CASE ConsumeAgain
    BY <2>1 DEF ConsumeAgain, Inv, TypeOK
  <2>2. CASE Consume \/ ConsumeFails
    <3>1. queue \in Seq(Nat) /\ queue # <<>> /\ queue' = Tail(queue)
      BY <2>2 DEF Consume, ConsumeFails, Inv, TypeOK
    <3> QED
      BY <3>1
  <2> QED
    BY <2>1, <2>2
<1>2. /\ UNCHANGED <<life, doing, outbox, pass, published>>
      /\ cached' \in BOOLEAN /\ orderly' \in BOOLEAN /\ faults' \in Nat
  <2>1. cached' \in BOOLEAN
    BY DEF Consume, ConsumeFails, ConsumeAgain, Applied, Inv, TypeOK
  <2>2. orderly' \in BOOLEAN
    BY DEF Consume, ConsumeFails, ConsumeAgain, Inv, TypeOK
  <2>4. faults' \in Nat
    BY FaultType DEF Consume, ConsumeFails, ConsumeAgain, Inv, TypeOK
  <2>3. UNCHANGED <<life, doing, outbox, pass, published>>
    BY DEF Consume, ConsumeFails, ConsumeAgain, serviceVars, listenerVars
  <2> QED
    BY <2>1, <2>2, <2>3, <2>4
<1> QED
  BY <1>1, <1>2 DEF Inv, TypeOK, RecordsHeld, RecordsDiffer, BeforeIsOlder, SentIsPublished,
     PassesHold, PassesCover, CausalOrder, Committed, Settled, GivenUp, First

LEMMA NextInv == Inv /\ [Next]_vars => Inv'
<1> SUFFICES ASSUME Inv, [Next]_vars PROVE Inv'
  OBVIOUS
<1>1. NoRequest \in Request /\ NoRequest.step # "commit"
  BY DEF NoRequest, Request, Steps, Kinds
<1>2. TypeOK
  BY DEF Inv
<1>3. ASSUME NEW r \in Requests,
             \/ CreateRow(r)
             \/ \E kind \in Kinds : ReadRow(r, kind)
      PROVE  Inv'
  <2>1. PICK d \in Request : d.step # "commit" /\ doing' = [doing EXCEPT ![r] = d]
    BY <1>3 DEF CreateRow, ReadRow, Begins, Request, Steps, Kinds
  <2> QED
    BY <1>2, <1>3, <2>1, RequestKeepsInv DEF CreateRow, ReadRow, Begins, TypeOK, listenerVars
<1>4. ASSUME NEW r \in Requests, UpdateRow(r) \/ DeleteRow(r) \/ Refresh(r) PROVE Inv'
  <2>1. PICK step \in {"refresh", "flush"} : Goes(r, step)
    BY <1>4 DEF UpdateRow, DeleteRow, Refresh
  <2>2. [doing[r] EXCEPT !.step = step] \in Request /\ [doing[r] EXCEPT !.step = step].step # "commit"
    BY <1>2 DEF TypeOK, Request, Steps
  <2>3. doing' = [doing EXCEPT ![r] = [doing[r] EXCEPT !.step = step]]
    BY <2>1, <1>2 DEF Goes, TypeOK
  <2> DEFINE d == [doing[r] EXCEPT !.step = step]
  <2>4. d \in Request /\ d.step # "commit" /\ doing' = [doing EXCEPT ![r] = d]
    BY <2>2, <2>3
  <2> HIDE DEF d
  <2> QED
    BY <1>2, <1>4, <2>4, RequestKeepsInv DEF UpdateRow, DeleteRow, Refresh, TypeOK, listenerVars
<1>5. ASSUME NEW r \in Requests, RowIsGone(r) \/ FailBeforeWrite(r) PROVE Inv'
  BY <1>1, <1>2, <1>5, RequestKeepsInv DEF RowIsGone, FailBeforeWrite, Ends, TypeOK, listenerVars
<1>6. ASSUME NEW r \in Requests, FlushEvent(r) \/ CommitEvent(r) \/ FailBetweenCommits(r) PROVE Inv'
  BY <1>6, FlushKeepsInv, CommitKeepsInv, FailBetweenCommitsKeepsInv
<1>7. ASSUME NEW p \in Passes, StartPass(p) \/ PassFails(p) PROVE Inv'
  BY <1>7, StartPassKeepsInv, PassFailsKeepsInv
<1>8. ASSUME NEW p \in Passes, Publish(p) \/ PublishUnconfirmed(p) PROVE Inv'
  <2>1. PICK i \in First(p) : Reaches(p, i)
    BY <1>8 DEF Publish, PublishUnconfirmed
  <2> QED
    BY <1>2, <1>8, <2>1, ReachesKeepsInv DEF Publish, PublishUnconfirmed, Fault, serviceVars, TypeOK
<1>9. ASSUME NEW p \in Passes, GiveUp(p) \/ MarkSent(p) PROVE Inv'
  <2>1. PICK i \in First(p), s \in {"SENT", "FAILED"} :
            Done(p, i, s) /\ (s = "SENT" => i \in published)
    BY <1>9 DEF GiveUp, MarkSent, Inv, PassesHold
  <2>2. UNCHANGED <<doing, life, published, queue, cached>>
    BY <1>9 DEF GiveUp, MarkSent, serviceVars
  <2>3. orderly' \in BOOLEAN
    BY <1>2, <1>9 DEF GiveUp, MarkSent, TypeOK
  <2>4. faults' \in Nat
    BY <1>2, <1>9, FaultType DEF GiveUp, MarkSent, TypeOK
  <2> QED
    BY <2>1, <2>2, <2>3, <2>4, DoneKeepsInv
<1>10. CASE Restart
  BY <1>10, RestartKeepsInv
<1>11. CASE Consume \/ ConsumeFails \/ ConsumeAgain
  BY <1>11, ConsumerKeepsInv
<1>12. CASE UNCHANGED vars
  BY <1>12 DEF vars, Inv, TypeOK, RecordsHeld, RecordsDiffer, BeforeIsOlder, SentIsPublished,
     PassesHold, PassesCover, CausalOrder, Committed, Settled, GivenUp, First
<1> QED
  BY <1>3, <1>4, <1>5, <1>6, <1>7, <1>8, <1>9, <1>10, <1>11, <1>12 DEF Next, ServiceStep, PassStep

LEMMA InvHolds == Spec => []Inv
  BY InitInv, NextInv, PTL DEF Spec

(***************************************************************************)
(* Requests, records, passes and the consumer's queue keep their types.      *)
(***************************************************************************)
THEOREM TypeCorrect == Spec => []TypeOK
  BY InvHolds, PTL DEF Inv

(***************************************************************************)
(* No event reaches the broker before one that was committed before it was  *)
(* written, unless that one is FAILED: for any number of requests, of        *)
(* overlapping passes of the listener and of faults.                         *)
(***************************************************************************)
THEOREM EventsKeepCausalOrder == Spec => []CausalOrder
  BY InvHolds, PTL DEF Inv

-----------------------------------------------------------------------------
(***************************************************************************)
(* The cache converges while requests and passes come one after another     *)
(* and no event is lost.  The newest record then tells what the row is,     *)
(* unless a request still owes its record; the records are published in     *)
(* their order; and the last message, in the queue or applied to the cache, *)
(* is that of the last record published.                                    *)
(***************************************************************************)

\* Requests and passes come one after another.
OneAtATime ==
    /\ \A r, q \in Requests :
          doing[r].step # "nothing" /\ doing[q].step # "nothing" => r = q
    /\ \A p, q \in Passes : ~Idle(p) /\ ~Idle(q) => p = q

Tells(kind) == life = IF kind = "Deleted" THEN "gone" ELSE "live"

\* A request whose record is not written, though its row is.
Owed == \E r \in Requests : doing[r].step \in {"refresh", "flush"}

\* The newest record tells what the row is, unless a request still owes it.
RowTold == Owed \/ IF outbox = <<>> THEN life = "absent" ELSE Tells(outbox[Len(outbox)].kind)

\* What a request under way knows of the row and of its record.
RequestsKnow ==
    \A r \in Requests :
        /\ doing[r].step = "write" => life = "live"
        /\ doing[r].step = "refresh" => doing[r].kind # "Deleted"
        /\ doing[r].step \in {"refresh", "flush"} => Tells(doing[r].kind)
        /\ doing[r].step = "commit" => doing[r].record = Len(outbox)

\* The consumer's last message, or the last it has applied, is that of record j.
LastIs(j) ==
    IF j = 0 THEN queue = <<>> /\ ~cached
    ELSE /\ j \in DOMAIN outbox
         /\ IF queue = <<>> THEN cached <=> Applied(j) ELSE queue[Len(queue)] = j

\* The first k records are SENT, and the others wait, the last perhaps for its commit.
SentUpTo(k) ==
    /\ \A i \in DOMAIN outbox : i <= k => outbox[i].status = "SENT"
    /\ \A i \in DOMAIN outbox : i > k /\ outbox[i].status # "PENDING" =>
          /\ outbox[i].status = "flushed"
          /\ i = Len(outbox)
          /\ \E r \in Requests : doing[r].step = "commit"

\* The pass under way is at the record after the first k, and the last message is
\* that of one of the two.
PassesAfter(k) ==
    /\ \A p \in Passes :
          ~Idle(p) => \E m \in (k + 1) .. Len(outbox) : pass[p].todo = (k + 1) .. m
    /\ \A p \in Passes : pass[p].sent => ~Idle(p) /\ LastIs(k + 1)
    /\ LastIs(k) \/ LastIs(k + 1)

InOrder == \E k \in 0 .. Len(outbox) : SentUpTo(k) /\ PassesAfter(k)

OrderlyInv == orderly => OneAtATime /\ RowTold /\ RequestsKnow /\ InOrder

LEMMA InitOrderly == Init => OrderlyInv
<1> SUFFICES ASSUME Init PROVE OrderlyInv
  OBVIOUS
<1>1. outbox = <<>> /\ Len(outbox) = 0 /\ DOMAIN outbox = {}
  BY EmptySeq DEF Init
<1>2. OneAtATime /\ RowTold /\ RequestsKnow
  BY <1>1 DEF Init, OneAtATime, RowTold, RequestsKnow, Idle, NoRequest, NoPass
<1>3. SentUpTo(0) /\ PassesAfter(0)
  BY <1>1 DEF Init, SentUpTo, PassesAfter, LastIs, Idle, NoPass
<1> QED
  BY <1>1, <1>2, <1>3 DEF OrderlyInv, InOrder

-----------------------------------------------------------------------------
(* Requests.                                                               *)

\* Any step of a request but its flush and its commit.
LEMMA RequestKeepsOrder ==
  ASSUME Inv, InOrder, NEW r \in Requests, NEW d, doing[r].step # "commit",
         doing' = [doing EXCEPT ![r] = d],
         UNCHANGED <<outbox, pass, queue, cached>>
  PROVE  InOrder'
<1>1. \A q \in Requests : doing[q].step = "commit" => doing'[q].step = "commit"
  BY DEF Inv, TypeOK
<1>2. PICK k \in 0 .. Len(outbox) : SentUpTo(k) /\ PassesAfter(k)
  BY DEF InOrder
<1>3. SentUpTo(k)'
  BY <1>1, <1>2 DEF SentUpTo
<1>4. PassesAfter(k)'
  BY <1>2 DEF PassesAfter, LastIs, Idle, Applied
<1> QED
  BY <1>3, <1>4 DEF InOrder

\* A request that begins is alone.
LEMMA BeginsAlone ==
  ASSUME Inv, OrderlyInv, orderly', NEW r \in Requests, NEW step, NEW kind,
         Begins(r, step, kind)
  PROVE  /\ orderly
         /\ \A q \in Requests : doing[q].step = "nothing"
         /\ \A q \in Requests \ {r} : doing'[q].step = "nothing"
         /\ doing'[r].step = step /\ doing'[r].kind = kind
  BY DEF Inv, TypeOK, Begins

LEMMA CreateKeepsOrderly ==
  ASSUME Inv, OrderlyInv, orderly', NEW r \in Requests, CreateRow(r)
  PROVE  OneAtATime' /\ RowTold' /\ RequestsKnow' /\ InOrder'
<1>1. Begins(r, "refresh", "Created") /\ life' = "live" /\ UNCHANGED <<listenerVars, queue, cached>>
  BY DEF CreateRow
<1>2. /\ orderly
      /\ \A q \in Requests : doing[q].step = "nothing"
      /\ \A q \in Requests \ {r} : doing'[q].step = "nothing"
      /\ doing'[r].step = "refresh" /\ doing'[r].kind = "Created"
  BY <1>1, BeginsAlone
<1>3. OneAtATime'
  BY <1>1, <1>2 DEF OrderlyInv, OneAtATime, Idle, listenerVars
<1>4. RowTold' /\ RequestsKnow'
  BY <1>1, <1>2 DEF RowTold, RequestsKnow, Tells, Owed
<1>5. InOrder'
  BY <1>1, <1>2, RequestKeepsOrder DEF Begins, OrderlyInv, listenerVars
<1> QED
  BY <1>3, <1>4, <1>5

LEMMA ReadKeepsOrderly ==
  ASSUME Inv, OrderlyInv, orderly', NEW r \in Requests, NEW kind \in Kinds, ReadRow(r, kind)
  PROVE  OneAtATime' /\ RowTold' /\ RequestsKnow' /\ InOrder'
<1>1. /\ Begins(r, "write", kind) /\ life = "live"
      /\ UNCHANGED <<life, outbox, pass, queue, cached>>
  BY DEF ReadRow, listenerVars
<1>2. /\ orderly
      /\ \A q \in Requests : doing[q].step = "nothing"
      /\ \A q \in Requests \ {r} : doing'[q].step = "nothing"
      /\ doing'[r].step = "write" /\ doing'[r].kind = kind
  BY <1>1, BeginsAlone
<1>3. OneAtATime'
  BY <1>1, <1>2 DEF OrderlyInv, OneAtATime, Idle
<1>4. RowTold' /\ RequestsKnow'
  BY <1>1, <1>2 DEF OrderlyInv, RowTold, RequestsKnow, Tells, Owed
<1>5. InOrder'
  BY <1>1, <1>2, RequestKeepsOrder DEF Begins, OrderlyInv
<1> QED
  BY <1>3, <1>4, <1>5

\* The steps of a request on its row.
LEMMA RowStepKeepsOrderly ==
  ASSUME Inv, OrderlyInv, orderly', NEW r \in Requests, UpdateRow(r) \/ DeleteRow(r) \/ Refresh(r)
  PROVE  OneAtATime' /\ RowTold' /\ RequestsKnow' /\ InOrder'
<1>1. UNCHANGED <<outbox, pass, queue, cached, orderly>>
  BY DEF UpdateRow, DeleteRow, Refresh, listenerVars
<1>2. /\ OneAtATime /\ RequestsKnow /\ InOrder
      /\ doing[r].step \notin {"nothing", "commit"}
  BY <1>1 DEF OrderlyInv, UpdateRow, DeleteRow, Refresh
<1>3. \A q \in Requests \ {r} : doing'[q] = doing[q] /\ doing[q].step = "nothing"
  BY <1>2 DEF UpdateRow, DeleteRow, Refresh, Goes, OneAtATime, Inv, TypeOK
<1>4. /\ doing'[r].step \in {"refresh", "flush"}
      /\ doing'[r].step = "refresh" => doing'[r].kind # "Deleted"
      /\ life' = IF doing'[r].kind = "Deleted" THEN "gone" ELSE "live"
  <2>1. doing[r] \in Request
    BY DEF Inv, TypeOK
  <2>2. \A step : Goes(r, step) => doing'[r].step = step /\ doing'[r].kind = doing[r].kind
    BY <2>1 DEF Goes, Inv, TypeOK, Request
  <2>3. CASE UpdateRow(r)
    BY <2>2, <2>3, <1>2 DEF UpdateRow, RequestsKnow
  <2>4. CASE DeleteRow(r)
    BY <2>2, <2>4 DEF DeleteRow
  <2>5. CASE Refresh(r)
    BY <2>2, <2>5, <1>2 DEF Refresh, RequestsKnow, Tells
  <2> QED
    BY <2>3, <2>4, <2>5
<1>5. OneAtATime'
  BY <1>1, <1>2, <1>3 DEF OneAtATime, Idle
<1>6. RowTold' /\ RequestsKnow'
  BY <1>3, <1>4 DEF RowTold, RequestsKnow, Tells, Owed
<1>7. InOrder'
  BY <1>1, <1>2, RequestKeepsOrder DEF UpdateRow, DeleteRow, Refresh, Goes
<1> QED
  BY <1>5, <1>6, <1>7

\* The row of a request that comes alone is never gone.
LEMMA FailedWriteKeepsOrderly ==
  ASSUME Inv, OrderlyInv, orderly', NEW r \in Requests, RowIsGone(r) \/ FailBeforeWrite(r)
  PROVE  OneAtATime' /\ RowTold' /\ RequestsKnow' /\ InOrder'
<1>1. UNCHANGED <<life, outbox, pass, queue, cached, orderly>>
  BY DEF RowIsGone, FailBeforeWrite, listenerVars
<1>2. OneAtATime /\ RowTold /\ RequestsKnow /\ InOrder
  BY <1>1 DEF OrderlyInv
<1>3. FailBeforeWrite(r)
  BY <1>2 DEF RowIsGone, RequestsKnow, Tells
<1>4. /\ doing[r].step = "write"
      /\ doing' = [doing EXCEPT ![r] = NoRequest]
      /\ \A q \in Requests : doing'[q] = IF q = r THEN NoRequest ELSE doing[q]
  BY <1>3 DEF FailBeforeWrite, Ends, Inv, TypeOK
<1>5. OneAtATime'
  BY <1>1, <1>2, <1>4 DEF OneAtATime, Idle, NoRequest
<1>6. RowTold'
  BY <1>1, <1>2, <1>4 DEF RowTold, Owed, OneAtATime, Tells
<1>7. RequestsKnow'
  BY <1>1, <1>2, <1>4 DEF RequestsKnow, NoRequest, Tells
<1>8. InOrder'
  BY <1>1, <1>2, <1>4, RequestKeepsOrder
<1> QED
  BY <1>5, <1>6, <1>7, <1>8

LEMMA FlushKeepsOrderly ==
  ASSUME Inv, OrderlyInv, orderly', NEW r \in Requests, FlushEvent(r)
  PROVE  OneAtATime' /\ RowTold' /\ RequestsKnow' /\ InOrder'
<1> DEFINE e == [kind |-> doing[r].kind, status |-> "flushed", before |-> Committed]
           n == Len(outbox)
<1>1. UNCHANGED <<life, pass, queue, cached, orderly>>
  BY DEF FlushEvent
<1>2. OneAtATime /\ RequestsKnow /\ InOrder
  BY <1>1 DEF OrderlyInv
<1>3. /\ doing[r].step = "flush"
      /\ \A q \in Requests \ {r} : doing[q].step = "nothing" /\ doing'[q] = doing[q]
      /\ doing'[r].step = "commit" /\ doing'[r].record = n + 1
  BY <1>2 DEF FlushEvent, OneAtATime, Inv, TypeOK
<1>4. /\ n \in Nat /\ DOMAIN outbox = 1 .. n
      /\ Len(outbox') = n + 1 /\ DOMAIN outbox' = 1 .. (n + 1)
      /\ \A i \in 1 .. n : outbox'[i] = outbox[i]
      /\ outbox'[n + 1] = e
      /\ outbox' # <<>>
  <2>1. outbox \in Seq(Record) /\ outbox' = Append(outbox, e)
    BY DEF FlushEvent, Inv, TypeOK
  <2>2. e \in Record
    <3>1. doing[r].kind \in Kinds
      BY DEF Inv, TypeOK, Request
    <3>2. Committed \subseteq Nat
      BY LenProperties DEF Inv, TypeOK, Committed
    <3> QED
      BY <3>1, <3>2 DEF Record, Statuses
  <2> HIDE DEF e
  <2> QED
    BY <2>1, <2>2, LenProperties, AppendProperties
<1>5. e.kind = doing[r].kind /\ e.status = "flushed"
  OBVIOUS
<1> HIDE DEF e
<1>6. OneAtATime'
  BY <1>1, <1>2, <1>3 DEF OneAtATime, Idle
<1>7. RowTold'
  BY <1>1, <1>2, <1>3, <1>4, <1>5 DEF RowTold, RequestsKnow, Tells
<1>8. RequestsKnow'
  BY <1>3, <1>4 DEF RequestsKnow
<1>9. InOrder'
  <2>1. PICK k \in 0 .. n : SentUpTo(k) /\ PassesAfter(k)
    BY <1>2 DEF InOrder
  <2>2. \A i \in 1 .. n : outbox[i].status # "flushed"
    BY <1>3, <1>4, <2>1 DEF SentUpTo
  <2>3. SentUpTo(k)'
    BY <1>3, <1>4, <1>5, <2>1, <2>2 DEF SentUpTo
  <2>4. \A j \in 0 .. n : LastIs(j)' <=> LastIs(j)
    BY <1>1, <1>4 DEF LastIs, Applied
  <2>5. LastIs(k + 1) => k + 1 \in 0 .. n
    BY <1>4, <2>1 DEF LastIs
  <2>6. PassesAfter(k)'
    BY <1>1, <1>4, <2>1, <2>4, <2>5 DEF PassesAfter, Idle
  <2> QED
    BY <1>4, <2>1, <2>3, <2>6 DEF InOrder
<1> QED
  BY <1>6, <1>7, <1>8, <1>9

\* A record that is marked keeps its kind.
LEMMA MarkedKeepsKind ==
  ASSUME TypeOK, NEW i \in DOMAIN outbox, NEW s \in Statuses, Marked(i, s)
  PROVE  /\ Len(outbox) \in Nat /\ DOMAIN outbox = 1 .. Len(outbox)
         /\ Len(outbox') = Len(outbox) /\ DOMAIN outbox' = DOMAIN outbox
         /\ \A j \in DOMAIN outbox : outbox'[j].kind = outbox[j].kind
         /\ \A j \in DOMAIN outbox : outbox'[j].status = IF j = i THEN s ELSE outbox[j].status
<1>1. outbox \in Seq(Record) /\ i \in 1 .. Len(outbox) /\ DOMAIN outbox = 1 .. Len(outbox)
      /\ Len(outbox) \in Nat
  BY LenProperties DEF TypeOK
<1> DEFINE e == [outbox[i] EXCEPT !.status = s]
<1>2. outbox[i] \in Record
  BY <1>1, ElementOfSeq
<1>3. e \in Record /\ e.kind = outbox[i].kind /\ e.status = s
  BY <1>2 DEF Record
<1>4. outbox' = [outbox EXCEPT ![i] = e]
  BY DEF Marked
<1> HIDE DEF e
<1>5. outbox' \in Seq(Record) /\ Len(outbox') = Len(outbox)
  BY <1>1, <1>3, <1>4, ExceptSeq
<1>6. \A j \in DOMAIN outbox : outbox'[j] = IF j = i THEN e ELSE outbox[j]
  BY <1>1, <1>3, <1>4, ExceptSeq
<1> QED
  BY <1>1, <1>3, <1>5, <1>6, LenProperties

LEMMA CommitKeepsOrderly ==
  ASSUME Inv, OrderlyInv, orderly', NEW r \in Requests, CommitEvent(r)
  PROVE  OneAtATime' /\ RowTold' /\ RequestsKnow' /\ InOrder'
<1> DEFINE n == Len(outbox)
<1>1. UNCHANGED <<life, pass, queue, cached, orderly>>
  BY DEF CommitEvent
<1>2. OneAtATime /\ RowTold /\ RequestsKnow /\ InOrder
  BY <1>1 DEF OrderlyInv
<1>3. /\ doing[r].step = "commit" /\ doing[r].record = n
      /\ \A q \in Requests : doing'[q].step = "nothing"
      /\ \A q \in Requests \ {r} : doing[q].step = "nothing"
  BY <1>2 DEF CommitEvent, Ends, NoRequest, OneAtATime, RequestsKnow, Inv, TypeOK
<1>4. n \in DOMAIN outbox /\ outbox[n].status = "flushed"
  BY <1>3 DEF Inv, RecordsHeld
<1>5. /\ n \in Nat /\ DOMAIN outbox = 1 .. n
      /\ Len(outbox') = n /\ DOMAIN outbox' = 1 .. n
      /\ \A i \in 1 .. n : outbox'[i].kind = outbox[i].kind
      /\ \A i \in 1 .. n : outbox'[i].status = IF i = n THEN "PENDING" ELSE outbox[i].status
  <2>1. TypeOK /\ "PENDING" \in Statuses
    BY DEF Inv, Statuses
  <2>2. Marked(n, "PENDING")
    BY <1>3 DEF CommitEvent
  <2> QED
    BY <1>4, <2>1, <2>2, MarkedKeepsKind
<1>6. OneAtATime'
  BY <1>1, <1>2, <1>3 DEF OneAtATime, Idle
<1>7. RowTold' /\ RequestsKnow'
  <2>1. ~Owed
    BY <1>3 DEF Owed
  <2>2. outbox # <<>> /\ Tells(outbox[n].kind)
    BY <1>2, <1>4, <2>1 DEF RowTold
  <2>3. n \in DOMAIN outbox' /\ outbox'[Len(outbox')].kind = outbox[n].kind
    BY <1>4, <1>5
  <2>a. outbox' # <<>>
    BY <2>3
  <2>b. life' = IF outbox'[Len(outbox')].kind = "Deleted" THEN "gone" ELSE "live"
    BY <1>1, <2>2, <2>3 DEF Tells
  <2>4. RowTold'
    BY <2>a, <2>b DEF RowTold, Tells
  <2>5. RequestsKnow'
    BY <1>3 DEF RequestsKnow
  <2> QED
    BY <2>4, <2>5
<1>8. InOrder'
  <2>1. PICK k \in 0 .. n : SentUpTo(k) /\ PassesAfter(k)
    BY <1>2 DEF InOrder
  <2>2. SentUpTo(k)'
    BY <1>4, <1>5, <2>1 DEF SentUpTo
  <2>3. (LastIs(k)' <=> LastIs(k)) /\ (LastIs(k + 1)' <=> LastIs(k + 1))
    BY <1>1, <1>5 DEF LastIs, Applied
  <2>4. PassesAfter(k)'
    BY <1>1, <1>5, <2>1, <2>3 DEF PassesAfter, Idle
  <2> QED
    BY <1>5, <2>1, <2>2, <2>4 DEF InOrder
<1> QED
  BY <1>6, <1>7, <1>8

-----------------------------------------------------------------------------
(* Passes.                                                                 *)

\* The pass under way is at the record after the first k.
LEMMA PassIsAt ==
  ASSUME Inv, NEW k \in 0 .. Len(outbox), PassesAfter(k), NEW p \in Passes, NEW i \in First(p)
  PROVE  /\ i = k + 1 /\ k + 1 \in 1 .. Len(outbox)
         /\ \E m \in (k + 1) .. Len(outbox) : pass[p].todo = (k + 1) .. m
<1>1. Len(outbox) \in Nat
  BY LenProperties DEF Inv, TypeOK
<1>2. PICK m \in (k + 1) .. Len(outbox) : pass[p].todo = (k + 1) .. m
  BY DEF PassesAfter, Idle, First
<1>3. k + 1 \in (k + 1) .. m /\ i \in (k + 1) .. m
  BY <1>1, <1>2 DEF First
<1>4. i <= k + 1
  BY <1>2, <1>3 DEF First
<1>5. i = k + 1 /\ k + 1 \in 1 .. Len(outbox)
  BY <1>1, <1>3, <1>4
<1> QED
  BY <1>2, <1>5

LEMMA StartKeepsOrderly ==
  ASSUME Inv, OrderlyInv, orderly', NEW p \in Passes, StartPass(p)
  PROVE  OneAtATime' /\ RowTold' /\ RequestsKnow' /\ InOrder'
<1> DEFINE n == Len(outbox)
<1>1. /\ UNCHANGED <<life, doing, outbox, queue, cached>>
      /\ orderly
      /\ \A q \in Passes : Idle(q)
  BY DEF StartPass, serviceVars
<1>2. /\ Pending # {}
      /\ pass' = [pass EXCEPT ![p] = [todo |-> Pending, sent |-> FALSE]]
      /\ \A q \in Passes : pass'[q] = IF q = p THEN [todo |-> Pending, sent |-> FALSE] ELSE pass[q]
  BY DEF StartPass, Inv, TypeOK
<1>3. OneAtATime /\ RowTold /\ RequestsKnow /\ InOrder
  BY <1>1 DEF OrderlyInv
<1>4. OneAtATime' /\ RowTold' /\ RequestsKnow'
  BY <1>1, <1>2, <1>3 DEF OneAtATime, RowTold, RequestsKnow, Owed, Tells, Idle
<1>5. n \in Nat /\ DOMAIN outbox = 1 .. n
  BY LenProperties DEF Inv, TypeOK
<1>6. PICK k \in 0 .. n : SentUpTo(k) /\ PassesAfter(k)
  BY <1>3 DEF InOrder
<1>7. \E m \in (k + 1) .. n : Pending = (k + 1) .. m
  <2>1. Pending \subseteq (k + 1) .. n
    BY <1>5, <1>6 DEF Pending, SentUpTo
  <2>2. (k + 1) .. n \subseteq Pending \union {n}
    BY <1>5, <1>6 DEF Pending, SentUpTo
  <2>3. k \in Nat /\ n \in Nat /\ Pending # {}
    BY <1>2, <1>5
  <2> HIDE DEF n
  <2>4. PICK i \in Pending : i \in (k + 1) .. n
    BY <2>1, <2>3
  <2>5. CASE n \in Pending
    <3>1. Pending = (k + 1) .. n /\ n \in (k + 1) .. n
      BY <2>1, <2>2, <2>3, <2>5
    <3> QED
      BY <3>1
  <2>6. CASE n \notin Pending
    <3>1. \A j \in Pending : j \in (k + 1) .. (n - 1)
      BY <2>1, <2>3, <2>6
    <3>2. \A j \in (k + 1) .. (n - 1) : j \in (k + 1) .. n /\ j # n
      BY <2>3
    <3>3. Pending = (k + 1) .. (n - 1)
      BY <3>1, <3>2, <2>2
    <3>4. n - 1 \in (k + 1) .. n
      BY <3>1, <2>3, <2>4
    <3> QED
      BY <3>3, <3>4
  <2> QED
    BY <2>5, <2>6
<1>8. SentUpTo(k)'
  BY <1>1, <1>6 DEF SentUpTo
<1>9. PassesAfter(k)'
  <2>1. \A j : LastIs(j)' <=> LastIs(j)
    BY <1>1 DEF LastIs, Applied
  <2>2. \A q \in Passes : ~pass'[q].sent
    BY <1>1, <1>2, <1>6 DEF PassesAfter
  <2>3. \A q \in Passes : pass'[q].todo # {} => pass'[q].todo = Pending
    BY <1>1, <1>2 DEF Idle
  <2> QED
    BY <1>1, <1>6, <1>7, <2>1, <2>2, <2>3 DEF PassesAfter, Idle
<1> QED
  BY <1>1, <1>4, <1>8, <1>9 DEF InOrder

\* A pass that publishes its first record makes it the last message, again or not.
LEMMA ReachKeepsOrderly ==
  ASSUME Inv, OrderlyInv, orderly', NEW p \in Passes, Publish(p) \/ PublishUnconfirmed(p)
  PROVE  OneAtATime' /\ RowTold' /\ RequestsKnow' /\ InOrder'
<1>1. UNCHANGED <<life, doing, outbox, cached, orderly>>
  BY DEF Publish, PublishUnconfirmed, serviceVars
<1>2. OneAtATime /\ RowTold /\ RequestsKnow /\ InOrder
  BY <1>1 DEF OrderlyInv
<1>3. \A q \in Passes : pass'[q].todo = pass[q].todo /\ (pass'[q].sent => pass[q].sent \/ q = p)
  <2>1. pass \in [Passes -> Pass]
    BY DEF Inv, TypeOK
  <2>2. CASE Publish(p)
    BY <2>1, <2>2 DEF Publish, Pass
  <2>3. CASE PublishUnconfirmed(p)
    BY <2>3 DEF PublishUnconfirmed
  <2> QED
    BY <2>2, <2>3
<1>4. OneAtATime' /\ RowTold' /\ RequestsKnow'
  BY <1>1, <1>2, <1>3 DEF OneAtATime, RowTold, RequestsKnow, Owed, Tells, Idle
<1>5. PICK k \in 0 .. Len(outbox) : SentUpTo(k) /\ PassesAfter(k)
  BY <1>2 DEF InOrder
<1>6. PICK i \in First(p) : queue' = Append(queue, i)
  BY DEF Publish, PublishUnconfirmed, Reaches
<1>7. i = k + 1 /\ k + 1 \in 1 .. Len(outbox)
  BY <1>5, PassIsAt
<1>8. LastIs(k + 1)'
  <2>1. Len(outbox) \in Nat /\ DOMAIN outbox = 1 .. Len(outbox) /\ queue \in Seq(Nat)
    BY LenProperties DEF Inv, TypeOK
  <2>2. i \in Nat /\ k + 1 # 0 /\ k + 1 \in DOMAIN outbox'
    BY <1>1, <1>7, <2>1
  <2>3. queue' # <<>> /\ Len(queue') = Len(queue) + 1 /\ queue'[Len(queue) + 1] = i
    BY <1>6, <2>1, <2>2, AppendProperties
  <2> QED
    BY <1>7, <2>2, <2>3 DEF LastIs
<1>9. SentUpTo(k)'
  BY <1>1, <1>5 DEF SentUpTo
<1>10. PassesAfter(k)'
  BY <1>1, <1>3, <1>5, <1>6, <1>8 DEF PassesAfter, Idle, First
<1> QED
  BY <1>1, <1>4, <1>9, <1>10 DEF InOrder

\* The record the pass is at is SENT, and the pass goes on to the next.
LEMMA MarkKeepsOrderly ==
  ASSUME Inv, OrderlyInv, orderly', NEW p \in Passes, MarkSent(p)
  PROVE  OneAtATime' /\ RowTold' /\ RequestsKnow' /\ InOrder'
<1> DEFINE n == Len(outbox)
<1>1. UNCHANGED <<life, doing, queue, cached, orderly>> /\ pass[p].sent
  BY DEF MarkSent, serviceVars
<1>2. OneAtATime /\ RowTold /\ RequestsKnow /\ InOrder
  BY <1>1 DEF OrderlyInv
<1>3. PICK i \in First(p) : Done(p, i, "SENT")
  BY DEF MarkSent
<1>4. PICK k \in 0 .. n : SentUpTo(k) /\ PassesAfter(k)
  BY <1>2 DEF InOrder
<1>5. PICK m \in (k + 1) .. n : i = k + 1 /\ k + 1 \in 1 .. n /\ pass[p].todo = (k + 1) .. m
  BY <1>3, <1>4, PassIsAt
<1>6. /\ n \in Nat /\ DOMAIN outbox = 1 .. n
      /\ Len(outbox') = n /\ DOMAIN outbox' = 1 .. n
      /\ \A j \in 1 .. n : outbox'[j].kind = outbox[j].kind
      /\ \A j \in 1 .. n : outbox'[j].status = IF j = i THEN "SENT" ELSE outbox[j].status
  <2>1. n \in Nat /\ DOMAIN outbox = 1 .. n
    BY LenProperties DEF Inv, TypeOK
  <2>2. i \in DOMAIN outbox /\ Marked(i, "SENT") /\ "SENT" \in Statuses /\ TypeOK
    BY <1>3, <1>5, <2>1 DEF Done, Inv, Statuses
  <2> QED
    BY <2>1, <2>2, MarkedKeepsKind
<1>7. /\ \A q \in Passes : q # p => pass'[q] = pass[q]
      /\ pass'[p].todo = (k + 2) .. m /\ ~pass'[p].sent
  <2>1. pass' = [pass EXCEPT ![p] = [todo |-> pass[p].todo \ {i}, sent |-> FALSE]]
    BY <1>3 DEF Done
  <2>2. ((k + 1) .. m) \ {k + 1} = (k + 2) .. m
    BY <1>4, <1>5, <1>6
  <2> QED
    BY <1>5, <2>1, <2>2 DEF Inv, TypeOK
<1>8. \A q \in Passes : q # p => Idle(q) /\ ~pass[q].sent
  <2>1. ~Idle(p)
    BY <1>3 DEF First, Idle
  <2> QED
    BY <1>2, <1>4, <2>1 DEF OneAtATime, PassesAfter
<1>9. OneAtATime'
  BY <1>1, <1>2, <1>7, <1>8 DEF OneAtATime, Idle
<1>10. RowTold' /\ RequestsKnow'
  <2>1. outbox # <<>> /\ outbox' # <<>> /\ outbox'[Len(outbox')].kind = outbox[Len(outbox)].kind
    BY <1>5, <1>6
  <2>2. Owed \/ life = IF outbox[Len(outbox)].kind = "Deleted" THEN "gone" ELSE "live"
    BY <1>2, <2>1 DEF RowTold, Tells
  <2>3. RowTold'
    BY <1>1, <2>1, <2>2 DEF RowTold, Tells, Owed
  <2>4. RequestsKnow'
    BY <1>1, <1>2, <1>6 DEF RequestsKnow, Tells
  <2> QED
    BY <2>3, <2>4
<1>11. SentUpTo(k + 1)'
  BY <1>1, <1>4, <1>5, <1>6 DEF SentUpTo
<1>12. PassesAfter(k + 1)'
  <2>1. LastIs(k + 1)
    BY <1>1, <1>4 DEF PassesAfter
  <2>2. LastIs(k + 1)'
    BY <1>1, <1>5, <1>6, <2>1 DEF LastIs, Applied
  <2>3. \A q \in Passes : ~pass'[q].sent
    BY <1>7, <1>8
  <2>4. \A q \in Passes : pass'[q].todo # {} =>
            m \in (k + 2) .. Len(outbox') /\ pass'[q].todo = (k + 2) .. m
    BY <1>4, <1>5, <1>6, <1>7, <1>8 DEF Idle
  <2>5. (k + 1) + 1 = k + 2
    BY <1>4, <1>6
  <2> QED
    BY <2>2, <2>3, <2>4, <2>5 DEF PassesAfter, Idle
<1>13. k + 1 \in 0 .. Len(outbox')
  BY <1>4, <1>5, <1>6
<1> QED
  BY <1>9, <1>10, <1>11, <1>12, <1>13 DEF InOrder

\* Passes that end without a trace: the database fails or the service is killed.
LEMMA EndedPassesKeepOrder ==
  ASSUME Inv, InOrder, UNCHANGED <<doing, outbox, queue, cached>>,
         \A p \in Passes : pass'[p] = pass[p] \/ pass'[p] = NoPass
  PROVE  InOrder'
<1>1. PICK k \in 0 .. Len(outbox) : SentUpTo(k) /\ PassesAfter(k)
  BY DEF InOrder
<1>2. SentUpTo(k)'
  BY <1>1 DEF SentUpTo
<1>3. PassesAfter(k)'
  BY <1>1 DEF PassesAfter, Idle, NoPass, LastIs, Applied
<1> QED
  BY <1>2, <1>3 DEF InOrder

LEMMA PassFailsKeepsOrderly ==
  ASSUME Inv, OrderlyInv, orderly', NEW p \in Passes, PassFails(p)
  PROVE  OneAtATime' /\ RowTold' /\ RequestsKnow' /\ InOrder'
<1>1. UNCHANGED <<life, doing, outbox, queue, cached, orderly>>
  BY DEF PassFails, serviceVars
<1>2. OneAtATime /\ RowTold /\ RequestsKnow /\ InOrder
  BY <1>1 DEF OrderlyInv
<1>3. \A q \in Passes : pass'[q] = pass[q] \/ pass'[q] = NoPass
  BY DEF PassFails, Inv, TypeOK
<1>4. OneAtATime' /\ RowTold' /\ RequestsKnow'
  BY <1>1, <1>2, <1>3 DEF OneAtATime, RowTold, RequestsKnow, Owed, Tells, Idle, NoPass
<1> QED
  BY <1>1, <1>2, <1>3, <1>4, EndedPassesKeepOrder

\* A crash that leaves the history orderly finds no record to roll back, and no row
\* whose event is owed.
LEMMA RestartKeepsOrderly ==
  ASSUME Inv, OrderlyInv, orderly', Restart
  PROVE  OneAtATime' /\ RowTold' /\ RequestsKnow' /\ InOrder'
<1>1. /\ UNCHANGED <<life, queue, cached>>
      /\ orderly
      /\ \A r \in Requests : doing[r].step \in {"nothing", "write"}
      /\ doing' = [r \in Requests |-> NoRequest]
      /\ pass' = [p \in Passes |-> NoPass]
  BY DEF Restart
<1>2. RowTold /\ RequestsKnow /\ InOrder
  BY <1>1 DEF OrderlyInv
<1>3. /\ Len(outbox) \in Nat /\ DOMAIN outbox = 1 .. Len(outbox)
      /\ outbox \in [DOMAIN outbox -> Record]
  BY LenProperties DEF Inv, TypeOK
<1>4. \A i \in DOMAIN outbox : outbox[i].status # "flushed"
  BY <1>1, <1>2, <1>3 DEF InOrder, SentUpTo
<1>5. outbox' = outbox
  <2>1. outbox' = [i \in DOMAIN outbox |-> outbox[i]]
    BY <1>4 DEF Restart
  <2> QED
    BY <1>3, <2>1
<1>6. OneAtATime' /\ RequestsKnow'
  BY <1>1 DEF OneAtATime, RequestsKnow, Idle, NoRequest, NoPass
<1>7. RowTold'
  BY <1>1, <1>2, <1>5 DEF RowTold, Owed, Tells
<1>8. InOrder'
  <2>1. PICK k \in 0 .. Len(outbox) : SentUpTo(k) /\ PassesAfter(k)
    BY <1>2 DEF InOrder
  <2>2. SentUpTo(k)'
    BY <1>4, <1>5, <2>1 DEF SentUpTo
  <2>3. PassesAfter(k)'
    BY <1>1, <1>5, <2>1 DEF PassesAfter, Idle, NoPass, LastIs, Applied
  <2> QED
    BY <1>5, <2>1, <2>2, <2>3 DEF InOrder
<1> QED
  BY <1>6, <1>7, <1>8

-----------------------------------------------------------------------------
(* The consumer.                                                           *)

\* The last message stays the last, once or twice applied.
LEMMA ConsumedStaysLast ==
  ASSUME Inv, Consume \/ ConsumeAgain, NEW j \in Nat, LastIs(j)
  PROVE  LastIs(j)'
<1>1. /\ queue \in Seq(Nat) /\ queue # <<>> /\ outbox' = outbox
      /\ j # 0 /\ j \in DOMAIN outbox /\ queue[Len(queue)] = j
  BY DEF Consume, ConsumeAgain, Inv, TypeOK, LastIs, listenerVars
<1>2. CASE ConsumeAgain
  BY <1>1, <1>2 DEF ConsumeAgain, LastIs
<1>3. CASE Consume
  <2>1. queue' = Tail(queue) /\ cached' = Applied(Head(queue))
    BY <1>3 DEF Consume
  <2>2. /\ Len(queue) \in Nat \ {0} /\ Len(queue') = Len(queue) - 1 /\ queue' \in Seq(Nat)
        /\ \A i \in 1 .. Len(queue') : queue'[i] = queue[i + 1]
        /\ Head(queue) = queue[1]
    BY <1>1, <2>1, HeadTailProperties, LenProperties
  <2>3. CASE Len(queue) = 1
    <3>1. queue' = <<>> /\ Head(queue) = j
      BY <1>1, <2>2, <2>3, EmptySeq
    <3> QED
      BY <1>1, <2>1, <3>1 DEF LastIs, Applied
  <2>4. CASE Len(queue) # 1
    <3>1. Len(queue') \in 1 .. Len(queue') /\ Len(queue') + 1 = Len(queue)
      BY <2>2, <2>4
    <3>2. queue'[Len(queue')] = j
      BY <1>1, <2>2, <3>1
    <3>3. queue' # <<>>
      BY <2>2, <3>1, EmptySeq
    <3> QED
      BY <1>1, <3>2, <3>3 DEF LastIs
  <2> QED
    BY <2>3, <2>4
<1> QED
  BY <1>2, <1>3

LEMMA ConsumeKeepsOrderly ==
  ASSUME Inv, OrderlyInv, orderly', Consume \/ ConsumeAgain
  PROVE  OneAtATime' /\ RowTold' /\ RequestsKnow' /\ InOrder'
<1>1. UNCHANGED <<life, doing, outbox, pass, orderly>>
  BY DEF Consume, ConsumeAgain, serviceVars, listenerVars
<1>2. OneAtATime /\ RowTold /\ RequestsKnow /\ InOrder
  BY <1>1 DEF OrderlyInv
<1>3. OneAtATime' /\ RowTold' /\ RequestsKnow'
  BY <1>1, <1>2 DEF OneAtATime, RowTold, RequestsKnow, Owed, Tells, Idle
<1>4. PICK k \in 0 .. Len(outbox) : SentUpTo(k) /\ PassesAfter(k)
  BY <1>2 DEF InOrder
<1>5. SentUpTo(k)'
  BY <1>1, <1>4 DEF SentUpTo
<1>6. (LastIs(k) => LastIs(k)') /\ (LastIs(k + 1) => LastIs(k + 1)')
  <2>1. k \in Nat /\ k + 1 \in Nat
    BY <1>4
  <2> QED
    BY <2>1, ConsumedStaysLast
<1>7. PassesAfter(k)'
  BY <1>1, <1>4, <1>6 DEF PassesAfter, Idle
<1> QED
  BY <1>1, <1>3, <1>4, <1>5, <1>7 DEF InOrder

-----------------------------------------------------------------------------
LEMMA NextOrderly == Inv /\ OrderlyInv /\ [Next]_vars => OrderlyInv'
<1> SUFFICES ASSUME Inv, OrderlyInv, [Next]_vars, orderly'
             PROVE  OneAtATime' /\ RowTold' /\ RequestsKnow' /\ InOrder'
  BY DEF OrderlyInv
<1>1. ASSUME NEW r \in Requests, ServiceStep(r) PROVE OneAtATime' /\ RowTold' /\ RequestsKnow' /\ InOrder'
  <2>1. ~FailBetweenCommits(r)
    BY DEF FailBetweenCommits
  <2> QED
    BY <1>1, <2>1, CreateKeepsOrderly, ReadKeepsOrderly, RowStepKeepsOrderly,
       FailedWriteKeepsOrderly, FlushKeepsOrderly, CommitKeepsOrderly DEF ServiceStep
<1>2. ASSUME NEW p \in Passes, PassStep(p) PROVE OneAtATime' /\ RowTold' /\ RequestsKnow' /\ InOrder'
  <2>1. ~GiveUp(p)
    BY DEF GiveUp
  <2> QED
    BY <1>2, <2>1, StartKeepsOrderly, ReachKeepsOrderly, MarkKeepsOrderly, PassFailsKeepsOrderly
       DEF PassStep
<1>3. CASE Restart
  BY <1>3, RestartKeepsOrderly
<1>4. CASE Consume \/ ConsumeFails \/ ConsumeAgain
  <2>1. ~ConsumeFails
    BY DEF ConsumeFails
  <2> QED
    BY <1>4, <2>1, ConsumeKeepsOrderly
<1>5. CASE UNCHANGED vars
  <2>1. UNCHANGED <<life, doing, outbox, pass, queue, cached, orderly>>
    BY <1>5 DEF vars
  <2>2. OneAtATime /\ RowTold /\ RequestsKnow /\ InOrder
    BY <2>1 DEF OrderlyInv
  <2>3. OneAtATime' /\ RowTold' /\ RequestsKnow'
    BY <2>1, <2>2 DEF OneAtATime, RowTold, RequestsKnow, Owed, Tells, Idle
  <2>4. InOrder'
    BY <2>1, <2>2, EndedPassesKeepOrder
  <2> QED
    BY <2>3, <2>4
<1> QED
  BY <1>1, <1>2, <1>3, <1>4, <1>5 DEF Next

LEMMA OrderlyIsRight ==
  ASSUME Inv, OrderlyInv
  PROVE  CacheConverges
<1> SUFFICES ASSUME orderly, Quiet PROVE cached <=> life = "live"
  BY DEF CacheConverges
<1>1. RowTold /\ ~Owed
  BY DEF OrderlyInv, Quiet, Owed
<1>2. PICK k \in 0 .. Len(outbox) : SentUpTo(k) /\ PassesAfter(k)
  BY DEF OrderlyInv, InOrder
<1>0. Len(outbox) \in Nat
  BY LenProperties DEF Inv, TypeOK
<1>3. Len(outbox) \in Nat /\ DOMAIN outbox = 1 .. Len(outbox) /\ outbox \in Seq(Record)
  BY LenProperties DEF Inv, TypeOK
<1>4. k = Len(outbox)
  <2> SUFFICES ASSUME k # Len(outbox) PROVE FALSE
    OBVIOUS
  <2>0. k + 1 \in 1 .. Len(outbox) /\ k + 1 > k
    BY <1>0
  <2>1. k + 1 \in DOMAIN outbox /\ k + 1 > k
    BY <1>3, <2>0
  <2>2. Pending = {} /\ \A r \in Requests : doing[r].step # "commit"
    BY DEF Quiet
  <2>3. outbox[k + 1].status # "PENDING"
    BY <2>1, <2>2 DEF Pending
  <2>4. \E r \in Requests : doing[r].step = "commit"
    BY <1>2, <2>1, <2>3 DEF SentUpTo
  <2> QED
    BY <2>2, <2>4
<1>5. LastIs(k)
  BY <1>2, <1>3, <1>4 DEF PassesAfter, LastIs
<1>6. CASE outbox = <<>>
  BY <1>1, <1>3, <1>4, <1>5, <1>6, EmptySeq DEF RowTold, LastIs
<1>7. CASE outbox # <<>>
  <2>1. Len(outbox) # 0
    BY <1>3, <1>7, EmptySeq
  <2>2. cached <=> outbox[k].kind # "Deleted"
    BY <1>4, <1>5, <2>1 DEF LastIs, Quiet, Applied
  <2>3. life = IF outbox[k].kind = "Deleted" THEN "gone" ELSE "live"
    BY <1>1, <1>4, <1>7 DEF RowTold, Tells
  <2> QED
    BY <2>2, <2>3
<1> QED
  BY <1>6, <1>7

(***************************************************************************)
(* At rest the cache agrees with the row, though events are published and   *)
(* delivered more than once and the service crashes between its requests,   *)
(* as long as requests and passes come one after another and no event is    *)
(* lost: for any number of requests and of such faults.                      *)
(***************************************************************************)
THEOREM CacheIsRight == Spec => []CacheConverges
<1>1. Spec => []OrderlyInv
  BY InitOrderly, NextOrderly, InvHolds, PTL DEF Spec
<1> QED
  BY <1>1, InvHolds, OrderlyIsRight, PTL
=============================================================================
