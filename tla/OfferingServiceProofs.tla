----------------------- MODULE OfferingServiceProofs -----------------------
(***************************************************************************)
(* What concurrent requests cannot break in the offering service, for any   *)
(* number of requests and any bodies.                                       *)
(*                                                                         *)
(* A publish between its flush and its commit is alone, and from its check    *)
(* to its flush it keeps the event loop, so that the body it has checked is  *)
(* still the row's: that gives CompleteWhenPublishing.  The lifecycle and    *)
(* its events need more: that the status a request has read is still the     *)
(* row's when it commits, unless the request is stale.                      *)
(***************************************************************************)
EXTENDS OfferingService, TLAPS

LockInv ==
    /\ \A r, q \in Requests : doing[r] = "publishing" /\ doing[q] = "publishing" => r = q
    /\ RowLocked => row.life = "live" /\ row.body \in Complete
    /\ \A r \in Requests :
          doing[r] = "flushing" => loop = r /\ row.life # "absent" /\ row.body \in Complete

Inv == TypeOK /\ LockInv

LEMMA SomeBodyType == SomeBody \in Bodies
  BY OfferingAssumption DEF SomeBody

LEMMA InitInv == Init => Inv
<1> SUFFICES ASSUME Init PROVE Inv
  OBVIOUS
<1>1. row \in Offering
  BY SomeBodyType DEF Init, Offering, Statuses
<1>2. TypeOK
  BY <1>1, SomeBodyType DEF Init, TypeOK, Steps
<1>3. LockInv
  BY DEF Init, LockInv, RowLocked
<1> QED
  BY <1>2, <1>3 DEF Inv

\* What ends a request keeps the types of its variables.
LEMMA EndsType ==
  ASSUME TypeOK, NEW r \in Requests, Ends(r)
  PROVE  /\ doing' \in [Requests -> Steps]
         /\ ask' \in [Requests -> Bodies]
         /\ read' \in [Requests -> Bodies]
         /\ doing'[r] = "nothing"
         /\ \A q \in Requests \ {r} : doing'[q] = doing[q]
  BY SomeBodyType DEF TypeOK, Ends, Steps

LEMMA LeavesType ==
  ASSUME TypeOK, NEW r \in Requests, Leaves(r)
  PROVE  stale' \subseteq Requests /\ late' \in BOOLEAN
  BY DEF TypeOK, Leaves

LEMMA OvertakesType ==
  ASSUME TypeOK, NEW r \in Requests, NEW others, Overtakes(r, others)
  PROVE  stale' \subseteq Requests /\ late' \in BOOLEAN
  BY DEF TypeOK, Overtakes

-----------------------------------------------------------------------------
LEMMA TypeStep == TypeOK /\ [Next]_vars => TypeOK'
<1> SUFFICES ASSUME TypeOK, [Next]_vars PROVE TypeOK'
  OBVIOUS
<1>0. row.status \in Statuses /\ row.body \in Bodies
  BY DEF TypeOK, Offering
<1>1. ASSUME NEW r \in Requests, CreateRow(r) PROVE TypeOK'
  BY <1>1, <1>0 DEF CreateRow, TypeOK, Offering, Steps, history
<1>2. ASSUME NEW r \in Requests, AnnounceCreate(r) PROVE TypeOK'
  BY <1>2, EndsType, LeavesType DEF AnnounceCreate, Leaves, TypeOK, Statuses
<1>3. ASSUME NEW r \in Requests, ReadToUpdate(r) PROVE TypeOK'
  BY <1>3, <1>0 DEF ReadToUpdate, Finds, TypeOK, Steps, history
<1>4. ASSUME NEW r \in Requests, CommitUpdate(r) PROVE TypeOK'
  <2>1. row' \in Offering
    BY <1>4, <1>0 DEF CommitUpdate, TypeOK, Offering
  <2> QED
    BY <1>4, <2>1, EndsType, LeavesType DEF CommitUpdate, Leaves, TypeOK
<1>5. ASSUME NEW r \in Requests, UpdateWaits(r) \/ FlushPublish(r) PROVE TypeOK'
  BY <1>5 DEF UpdateWaits, FlushPublish, TypeOK, Steps, history
<1>6. ASSUME NEW r \in Requests, ReadToPublish(r) PROVE TypeOK'
  BY <1>6 DEF ReadToPublish, Finds, TypeOK, Steps, Knowing, history
<1>7. ASSUME NEW r \in Requests, CommitPublish(r) PROVE TypeOK'
  <2>1. row' \in Offering /\ told' \in Statuses
    BY <1>7, <1>0 DEF CommitPublish, TypeOK, Offering, Statuses
  <2> QED
    BY <1>7, <2>1, EndsType, OvertakesType DEF CommitPublish, Overtakes, TypeOK
<1>8. ASSUME NEW r \in Requests,
             ReadToDelete(r) \/ ReadToConfirm(r) \/ ReadToFail(r) \/ ReadToRetire(r)
      PROVE  TypeOK'
  BY <1>8 DEF ReadToDelete, ReadToConfirm, ReadToFail, ReadToRetire, Finds, Starts, TypeOK,
             Steps, Knowing, Answering, history
<1>9. ASSUME NEW r \in Requests, DeleteRow(r) PROVE TypeOK'
  <2>1. row' \in Offering
    BY <1>9, <1>0 DEF DeleteRow, TypeOK, Offering
  <2> QED
    BY <1>9, <2>1, EndsType, LeavesType DEF DeleteRow, Leaves, TypeOK
<1>10. ASSUME NEW r \in Requests, CommitConfirm(r) \/ CommitFail(r) \/ CommitRetire(r)
       PROVE  TypeOK'
  <2>1. PICK status \in Statuses : Writes(r, status)
    BY <1>10 DEF CommitConfirm, CommitFail, CommitRetire, Statuses
  <2>2. row' \in Offering
    BY <2>1, <1>0 DEF Writes, TypeOK, Offering
  <2>3. told' \in Statuses \union {"NONE"}
    BY <1>10 DEF CommitConfirm, CommitFail, CommitRetire, TypeOK, Statuses
  <2> QED
    BY <2>1, <2>2, <2>3, EndsType, OvertakesType DEF Writes, Overtakes, TypeOK
<1>11. ASSUME NEW r \in Requests, Fail(r) PROVE TypeOK'
  BY <1>11, EndsType, LeavesType DEF Fail, Leaves, TypeOK
<1>12. CASE Restart
  BY <1>12, SomeBodyType DEF Restart, TypeOK, Steps
<1>13. CASE UNCHANGED vars
  BY <1>13 DEF vars, history, TypeOK
<1> QED
  BY <1>1, <1>2, <1>3, <1>4, <1>5, <1>6, <1>7, <1>8, <1>9, <1>10, <1>11, <1>12, <1>13
  DEF Next, Coroutine, Thread

\* Steps that leave the body alone keep LockInv, if they start no publish and leave the
\* loop to the one that is about to flush.
LEMMA LockFrame ==
  ASSUME Inv, row'.body = row.body,
         row'.life = row.life \/ (row'.life = "gone" /\ ~RowLocked),
         \A q \in Requests : doing'[q] = "publishing" => doing[q] = "publishing",
         \A q \in Requests : doing'[q] = "flushing" => doing[q] = "flushing" /\ loop' = loop
  PROVE  LockInv'
  BY DEF Inv, LockInv, RowLocked

\* So do steps that write the body: they have the loop, so that nobody is about to
\* flush, and the row lock.
LEMMA LockWrite ==
  ASSUME Inv, ~RowLocked,
         \A q \in Requests : doing'[q] \notin {"publishing", "flushing"}
  PROVE  LockInv'
  BY DEF Inv, LockInv, RowLocked

\* A coroutine that runs, and neither it nor another is about to flush.
LEMMA NoOtherFlushes ==
  ASSUME Inv, NEW r \in Requests, OnLoop(r)
  PROVE  \A q \in Requests \ {r} : doing[q] # "flushing"
  BY OfferingAssumption DEF Inv, LockInv, OnLoop

LEMMA LockStep == Inv /\ [Next]_vars => LockInv'
<1> SUFFICES ASSUME Inv, [Next]_vars PROVE LockInv'
  OBVIOUS
<1>0. TypeOK /\ row \in Offering
  BY DEF Inv, TypeOK
<1>1. ASSUME NEW r \in Requests, CreateRow(r) PROVE LockInv'
  <2>1. ~RowLocked
    BY <1>1 DEF CreateRow, Inv, LockInv
  <2>2. \A q \in Requests : doing'[q] \notin {"publishing", "flushing"}
    BY <1>1, <2>1, <1>0, NoOtherFlushes DEF CreateRow, TypeOK, RowLocked
  <2> QED
    BY <2>1, <2>2, LockWrite
<1>2. ASSUME NEW r \in Requests, AnnounceCreate(r) PROVE LockInv'
  <2>1. \A q \in Requests \ {r} : doing[q] # "flushing"
    BY <1>2, NoOtherFlushes DEF AnnounceCreate
  <2> QED
    BY <1>0, <1>2, <2>1, EndsType, LockFrame DEF AnnounceCreate, Leaves
<1>3. ASSUME NEW r \in Requests, Fail(r) PROVE LockInv'
  <2>1. loop' = loop \/ \A q \in Requests \ {r} : doing[q] # "flushing"
    BY <1>3 DEF Fail, Inv, LockInv
  <2> QED
    BY <1>0, <1>3, <2>1, EndsType, LockFrame DEF Fail, Leaves
<1>4. ASSUME NEW r \in Requests, ReadToUpdate(r) \/ UpdateWaits(r) PROVE LockInv'
  <2>1. \A q \in Requests \ {r} : doing[q] # "flushing"
    BY <1>4, NoOtherFlushes DEF ReadToUpdate, UpdateWaits
  <2>2. row' = row
    BY <1>4 DEF ReadToUpdate, UpdateWaits
  <2>3. \A q \in Requests : doing'[q] = "publishing" => doing[q] = "publishing"
    BY <1>0, <1>4 DEF ReadToUpdate, UpdateWaits, TypeOK
  <2>4. \A q \in Requests : doing'[q] # "flushing"
    BY <1>0, <1>4, <2>1 DEF ReadToUpdate, UpdateWaits, TypeOK
  <2> QED
    BY <2>2, <2>3, <2>4, LockFrame
<1>5. ASSUME NEW r \in Requests,
             ReadToDelete(r) \/ ReadToConfirm(r) \/ ReadToFail(r) \/ ReadToRetire(r)
      PROVE  LockInv'
  <2>1. row' = row /\ loop' = loop
    BY <1>5 DEF ReadToDelete, ReadToConfirm, ReadToFail, ReadToRetire, Starts
  <2>2. PICK step \in {"deleting", "confirming", "failing", "retiring"} :
             doing' = [doing EXCEPT ![r] = step]
    BY <1>5 DEF ReadToDelete, ReadToConfirm, ReadToFail, ReadToRetire, Starts
  <2>3. \A q \in Requests : doing'[q] \in {"publishing", "flushing"} => doing'[q] = doing[q]
    BY <1>0, <2>2 DEF TypeOK
  <2> QED
    BY <2>1, <2>3, LockFrame
<1>6. ASSUME NEW r \in Requests, CommitUpdate(r) PROVE LockInv'
  <2>1. \A q \in Requests : doing'[q] # "flushing"
    BY <1>0, <1>6, EndsType, NoOtherFlushes DEF CommitUpdate, Leaves
  <2>2. \A q \in Requests : doing'[q] = "publishing" => doing[q] = "publishing"
    BY <1>0, <1>6, EndsType DEF CommitUpdate, Leaves
  <2>3. CASE Dirty(r)
    BY <1>6, <2>1, <2>2, <2>3, LockWrite DEF CommitUpdate, RowLocked
  <2>4. CASE ~Dirty(r)
    <3>1. row'.body = row.body /\ row'.life = row.life
      BY <1>0, <1>6, <2>4 DEF CommitUpdate, Offering
    <3> QED
      BY <2>1, <2>2, <3>1, LockFrame
  <2> QED
    BY <2>3, <2>4
<1>7. ASSUME NEW r \in Requests, ReadToPublish(r) PROVE LockInv'
  <2>1. \A q \in Requests \ {r} : doing[q] # "flushing"
    BY <1>7, NoOtherFlushes DEF ReadToPublish
  <2> QED
    BY <1>0, <1>7, <2>1 DEF ReadToPublish, Finds, Inv, TypeOK, LockInv, RowLocked
<1>8. ASSUME NEW r \in Requests, FlushPublish(r) PROVE LockInv'
  <2>1. loop = r /\ row.body \in Complete /\ \A q \in Requests \ {r} : doing[q] # "flushing"
    BY <1>8 DEF FlushPublish, Inv, LockInv
  <2> QED
    BY <1>0, <1>8, <2>1 DEF FlushPublish, Inv, TypeOK, LockInv, RowLocked
<1>9. ASSUME NEW r \in Requests, CommitPublish(r) PROVE LockInv'
  <2>1. row'.body = row.body /\ row'.life = row.life /\ loop' = loop
    BY <1>0, <1>9 DEF CommitPublish, Offering
  <2> QED
    BY <1>0, <1>9, <2>1, EndsType, LockFrame DEF CommitPublish, Overtakes
<1>10. ASSUME NEW r \in Requests, DeleteRow(r) PROVE LockInv'
  <2>1. row'.body = row.body /\ row'.life = "gone" /\ loop' = loop
    BY <1>0, <1>10 DEF DeleteRow, Offering
  <2> QED
    BY <1>0, <1>10, <2>1, EndsType, LockFrame DEF DeleteRow, Leaves
<1>11. ASSUME NEW r \in Requests, NEW status, Writes(r, status) PROVE LockInv'
  <2>1. row'.body = row.body /\ row'.life = row.life /\ loop' = loop
    BY <1>0, <1>11 DEF Writes, Offering
  <2>2. Ends(r)
    BY <1>11 DEF Writes, Overtakes
  <2> QED
    BY <1>0, <2>1, <2>2, EndsType, LockFrame
<1>12. ASSUME NEW r \in Requests, CommitConfirm(r) \/ CommitFail(r) \/ CommitRetire(r)
       PROVE  LockInv'
  BY <1>11, <1>12 DEF CommitConfirm, CommitFail, CommitRetire
<1>13. CASE Restart
  BY <1>13, LockFrame DEF Restart
<1>14. CASE UNCHANGED vars
  BY <1>14, LockFrame DEF vars
<1> QED
  BY <1>1, <1>2, <1>3, <1>4, <1>5, <1>6, <1>7, <1>8, <1>9, <1>10, <1>12, <1>13, <1>14
  DEF Next, Coroutine, Thread

LEMMA InvHolds == Spec => []Inv
<1>1. Inv /\ [Next]_vars => Inv'
  BY TypeStep, LockStep DEF Inv
<1> QED
  BY InitInv, <1>1, PTL DEF Spec

(***************************************************************************)
(* The row, the events and every request's step keep their types.           *)
(***************************************************************************)
THEOREM TypeCorrect == Spec => []TypeOK
  BY InvHolds, PTL DEF Inv

(***************************************************************************)
(* Only a publish writes PUBLISHING.                                        *)
(***************************************************************************)
LEMMA OnlyPublishWritesPublishing ==
  ASSUME Inv, Next, row.status # "PUBLISHING", row'.status = "PUBLISHING"
  PROVE  \E r \in Requests : CommitPublish(r)
<1>1. ~Restart
  BY DEF Restart
<1>2. PICK r \in Requests : Coroutine(r) \/ Thread(r) \/ Fail(r)
  BY <1>1 DEF Next
<1> USE DEF Inv, TypeOK, Offering
<1>3. ~Thread(r)
  BY DEF Thread, ReadToDelete, DeleteRow, ReadToConfirm, CommitConfirm, ReadToFail, CommitFail,
         ReadToRetire, CommitRetire, Starts, Writes
<1>4. ~Fail(r)
  BY DEF Fail
<1>5. ~(CreateRow(r) \/ CommitUpdate(r))
  BY DEF CreateRow, CommitUpdate
<1>6. ~(AnnounceCreate(r) \/ ReadToUpdate(r) \/ UpdateWaits(r) \/ ReadToPublish(r) \/ FlushPublish(r))
  BY DEF AnnounceCreate, ReadToUpdate, UpdateWaits, ReadToPublish, FlushPublish
<1> QED
  BY <1>2, <1>3, <1>4, <1>5, <1>6 DEF Coroutine

(***************************************************************************)
(* An offering becomes PUBLISHING complete, for any number of requests,     *)
(* although publish awaits Camunda between its check and its commit.        *)
(***************************************************************************)
THEOREM PublishingIsComplete == Spec => CompleteWhenPublishing
<1>1. Inv /\ [Next]_vars
      => [row.status # "PUBLISHING" /\ row'.status = "PUBLISHING" => row'.body \in Complete]_vars
  <2> SUFFICES ASSUME Inv, Next, row.status # "PUBLISHING", row'.status = "PUBLISHING"
               PROVE  row'.body \in Complete
    BY DEF vars
  <2>1. PICK r \in Requests : CommitPublish(r)
    BY OnlyPublishWritesPublishing
  <2>2. row.body \in Complete
    BY <2>1 DEF CommitPublish, RowLocked, Inv, LockInv
  <2> QED
    BY <2>1, <2>2 DEF CommitPublish, Inv, TypeOK, Offering
<1> QED
  BY InvHolds, <1>1, PTL DEF Spec, CompleteWhenPublishing

-----------------------------------------------------------------------------
\* What the requests under way know of the status is still so, unless they are stale.
Knows(r) ==
    /\ doing[r] \in {"flushing", "publishing"} => row.status = "DRAFT"
    /\ doing[r] \in Answering => row.status = "PUBLISHING"
    /\ doing[r] = "retiring" => row.status \in {"PUBLISHED", "RETIRED"}

BeforeCreation ==
    /\ row.life = "absent" =>
          row.status = "DRAFT" /\ told = "NONE" /\ \A r \in Requests : doing[r] = "nothing"
    /\ \A r \in Requests :
          doing[r] = "announcing" =>
             /\ loop = r /\ row.status = "DRAFT" /\ told = "NONE"
             /\ \A q \in Requests : doing[q] \notin Knowing

Known == row.life = "live" => \A r \in Requests : r \in stale \/ Knows(r)

KnowInv == BeforeCreation /\ Known /\ EventsTellStatus

\* A step that does not write the status keeps Known: what r knows after it is all there
\* is to see.
LEMMA KnownFrame ==
  ASSUME Known, NEW r \in Requests,
         row'.life = "live" => row.life = "live", row'.status = row.status,
         \A q \in Requests \ {r} :
            doing'[q] = doing[q] /\ (q \in stale => q \in stale'),
         row'.life = "live" => r \in stale' \/ Knows(r)'
  PROVE  Known'
<1> SUFFICES ASSUME row'.life = "live", NEW q \in Requests PROVE q \in stale' \/ Knows(q)'
  BY DEF Known
<1>1. CASE q = r
  BY <1>1
<1>2. CASE q # r
  BY <1>2 DEF Known, Knows
<1> QED
  BY <1>1, <1>2

\* What a write of the status leaves: the others that know a status are stale, if r is,
\* and else those in others.
LEMMA KnownWrite ==
  ASSUME Inv, Known, row.life = "live", NEW r \in Requests, NEW others, Overtakes(r, others),
         \A q \in Requests \ {r} : doing[q] # "publishing",
         \A q \in Requests \ {r} :
            r \notin stale /\ doing[q] \notin others =>
               q \in stale \/ doing[q] \notin Knowing \/ (doing[q] = "retiring" /\ row'.status = "RETIRED")
  PROVE  Known'
<1> SUFFICES ASSUME NEW q \in Requests, q \notin stale' PROVE Knows(q)'
  BY DEF Known
<1>1. /\ doing'[r] = "nothing"
      /\ \A p \in Requests \ {r} : doing'[p] = doing[p]
  BY EndsType DEF Overtakes, Inv
<1>2. CASE q = r
  BY <1>1, <1>2 DEF Knows, Answering
<1>3. CASE q # r /\ r \in stale
  <2>1. doing[q] \notin Knowing
    BY <1>3 DEF Overtakes
  <2> QED
    BY <1>1, <1>3, <2>1 DEF Knows, Knowing, Answering
<1>4. CASE q # r /\ r \notin stale
  <2>1. q \notin stale /\ doing[q] \notin others
    BY <1>4 DEF Overtakes
  <2>2. doing[q] \notin Knowing \/ (doing[q] = "retiring" /\ row'.status = "RETIRED")
    BY <1>4, <2>1
  <2> QED
    BY <1>1, <1>4, <2>2 DEF Knows, Knowing, Answering
<1> QED
  BY <1>2, <1>3, <1>4

LEMMA NextKnowInv == Inv /\ KnowInv /\ [Next]_vars => KnowInv'
<1> SUFFICES ASSUME Inv, KnowInv, [Next]_vars PROVE KnowInv'
  OBVIOUS
<1>0. /\ TypeOK /\ row \in Offering /\ doing \in [Requests -> Steps]
      /\ BeforeCreation /\ Known /\ EventsTellStatus
  BY DEF Inv, TypeOK, KnowInv
<1>1. ASSUME NEW r \in Requests, CreateRow(r) PROVE KnowInv'
  <2>1. row'.status = "DRAFT" /\ told' = "NONE" /\ row'.life = "live"
    BY <1>0, <1>1 DEF CreateRow, BeforeCreation, Offering
  <2>2. doing'[r] = "announcing" /\ \A q \in Requests \ {r} : doing'[q] = "nothing"
    BY <1>0, <1>1 DEF CreateRow, BeforeCreation
  <2>3. Known'
    BY <2>2 DEF Known, Knows, Answering
  <2> QED
    BY <1>1, <2>1, <2>2, <2>3
    DEF KnowInv, BeforeCreation, EventsTellStatus, CreateRow, Knowing, Answering
<1>2. ASSUME NEW r \in Requests, AnnounceCreate(r) PROVE KnowInv'
  <2>1. /\ row' = row /\ told' = "DRAFT" /\ row.status = "DRAFT" /\ row.life # "absent"
        /\ stale' = stale \ {r}
    BY <1>0, <1>2 DEF AnnounceCreate, BeforeCreation, Leaves
  <2>2. doing'[r] = "nothing" /\ \A q \in Requests \ {r} : doing'[q] = doing[q]
    BY <1>2, <1>0, EndsType DEF AnnounceCreate, Leaves
  <2>3. Known'
    BY <1>0, <2>1, <2>2, KnownFrame DEF Knows, Answering
  <2>4. BeforeCreation'
    BY <1>0, <1>2, <2>1, <2>2 DEF BeforeCreation, AnnounceCreate
  <2> QED
    BY <2>1, <2>3, <2>4 DEF KnowInv, EventsTellStatus
\* A step to another step of the same request, the status as it was.
<1>3. ASSUME NEW r \in Requests, NEW step \in Steps \ {"nothing", "announcing"},
             row.life # "absent", doing' = [doing EXCEPT ![r] = step],
             UNCHANGED <<row, told, history>>,
             step \in {"flushing", "publishing"} => row.status = "DRAFT" \/ r \in stale,
             step = "flushing" => \A q \in Requests \ {r} : doing[q] # "announcing",
             step \in Answering => row.status = "PUBLISHING",
             step = "retiring" => row.status = "PUBLISHED",
             \A q \in Requests \ {r} : doing[q] # "announcing" \/ loop' = loop
      PROVE  KnowInv'
  <2>1. doing'[r] = step /\ \A q \in Requests \ {r} : doing'[q] = doing[q]
    BY <1>0, <1>3
  <2>2. row' = row /\ told' = told /\ stale' = stale /\ late' = late
    BY <1>3 DEF history
  <2>3. row'.life = "live" => r \in stale' \/ Knows(r)'
    BY <1>3, <2>1, <2>2 DEF Knows, Answering
  <2>4. Known'
    BY <1>0, <2>1, <2>2, <2>3, KnownFrame
  <2>5. BeforeCreation'
    BY <1>0, <1>3, <2>1, <2>2 DEF BeforeCreation, Knowing, Answering
  <2> QED
    BY <1>0, <2>2, <2>4, <2>5 DEF KnowInv, EventsTellStatus
\* A coroutine that runs, and is not announcing itself, runs after the creation.
<1>4. ASSUME NEW r \in Requests, OnLoop(r)
      PROVE  \A q \in Requests \ {r} : doing[q] # "announcing"
  BY <1>0, <1>4, OfferingAssumption DEF BeforeCreation, OnLoop
<1>5. ASSUME NEW r \in Requests, ReadToUpdate(r) \/ UpdateWaits(r) PROVE KnowInv'
  <2>1. PICK step \in {"validating", "waiting"} : doing' = [doing EXCEPT ![r] = step]
    BY <1>5 DEF ReadToUpdate, UpdateWaits
  <2>2. row.life # "absent"
    BY <1>0, <1>5 DEF ReadToUpdate, UpdateWaits, Finds, BeforeCreation
  <2>3. UNCHANGED <<row, told, history>> /\ OnLoop(r)
    BY <1>5 DEF ReadToUpdate, UpdateWaits
  <2> QED
    BY <1>3, <1>4, <2>1, <2>2, <2>3 DEF Steps, Answering
<1>6. ASSUME NEW r \in Requests, ReadToPublish(r) PROVE KnowInv'
  BY <1>3, <1>4, <1>6 DEF ReadToPublish, Finds, Steps, Knowing, Answering
<1>7. ASSUME NEW r \in Requests, FlushPublish(r) PROVE KnowInv'
  <2>1. r \in stale \/ row.status = "DRAFT"
    BY <1>0, <1>7 DEF FlushPublish, Known, Knows
  <2>2. loop = r
    BY <1>7 DEF FlushPublish, Inv, LockInv
  <2>3. \A q \in Requests \ {r} : doing[q] # "announcing"
    BY <1>4, <2>2 DEF OnLoop
  <2> QED
    BY <1>3, <1>7, <2>1, <2>3 DEF FlushPublish, Steps, Answering
<1>8. ASSUME NEW r \in Requests,
             ReadToDelete(r) \/ ReadToConfirm(r) \/ ReadToFail(r) \/ ReadToRetire(r)
      PROVE  KnowInv'
  <2>1. PICK step \in {"deleting", "confirming", "failing", "retiring"} :
             /\ Starts(r, step)
             /\ step \in Answering => row.status = "PUBLISHING"
             /\ step = "retiring" => row.status = "PUBLISHED"
    BY <1>8 DEF ReadToDelete, ReadToConfirm, ReadToFail, ReadToRetire, Finds, Answering
  <2>2. row.life = "live"
    BY <1>8 DEF ReadToDelete, ReadToConfirm, ReadToFail, ReadToRetire, Finds
  <2> QED
    BY <1>3, <2>1, <2>2 DEF Starts, Steps, Knowing, Answering
\* A request that ends and leaves the status as it was.
<1>9. ASSUME NEW r \in Requests, Leaves(r), row.life # "absent", row'.life # "absent",
             row'.life = "live" => row.life = "live", row'.status = row.status, told' = told,
             \A q \in Requests \ {r} : doing[q] # "announcing" \/ loop' = loop
      PROVE  KnowInv'
  <2>1. doing'[r] = "nothing" /\ \A q \in Requests \ {r} : doing'[q] = doing[q]
    BY <1>9, <1>0, EndsType DEF Leaves
  <2>2. Known'
    BY <1>0, <1>9, <2>1, KnownFrame DEF Knows, Answering, Leaves
  <2>3. BeforeCreation'
    BY <1>0, <1>9, <2>1 DEF BeforeCreation, Knowing, Answering
  <2> QED
    BY <1>0, <1>9, <2>2, <2>3 DEF KnowInv, EventsTellStatus, Leaves
<1>10. ASSUME NEW r \in Requests, CommitUpdate(r) PROVE KnowInv'
  <2>1. row'.life = row.life /\ row'.status = row.status
    BY <1>0, <1>10 DEF CommitUpdate, Offering
  <2>2. row.life # "absent"
    BY <1>0, <1>10 DEF CommitUpdate, BeforeCreation
  <2> QED
    BY <1>4, <1>9, <1>10, <2>1, <2>2 DEF CommitUpdate
<1>11. ASSUME NEW r \in Requests, DeleteRow(r) PROVE KnowInv'
  <2>1. row'.life = "gone" /\ row'.status = row.status
    BY <1>0, <1>11 DEF DeleteRow, Offering
  <2>2. row.life # "absent"
    BY <1>0, <1>11 DEF DeleteRow, BeforeCreation
  <2> QED
    BY <1>9, <1>11, <2>1, <2>2 DEF DeleteRow
<1>12. ASSUME NEW r \in Requests, Fail(r) PROVE KnowInv'
  <2>1. row.life # "absent"
    BY <1>0, <1>12 DEF Fail, BeforeCreation, Answering
  <2>2. \A q \in Requests \ {r} : doing[q] # "announcing" \/ loop' = loop
    BY <1>0, <1>12 DEF Fail, BeforeCreation
  <2> QED
    BY <1>9, <1>12, <2>1, <2>2 DEF Fail
\* A request that ends with the status written.
<1>13. ASSUME NEW r \in Requests, NEW others, Overtakes(r, others), row'.life = "live", Known',
              \A q \in Requests \ {r} : doing[q] # "announcing", EventsTellStatus'
       PROVE  KnowInv'
  <2>1. doing'[r] = "nothing" /\ \A q \in Requests \ {r} : doing'[q] = doing[q]
    BY <1>13, <1>0, EndsType DEF Overtakes
  <2>2. BeforeCreation'
    BY <1>13, <2>1 DEF BeforeCreation
  <2> QED
    BY <1>13, <2>2 DEF KnowInv
<1>14. ASSUME NEW r \in Requests, CommitPublish(r) PROVE KnowInv'
  <2>1. row.life = "live"
    BY <1>14 DEF CommitPublish, RowLocked, Inv, LockInv
  <2>2. row'.life = "live" /\ row'.status = "PUBLISHING" /\ told' = "PUBLISHING"
    BY <1>0, <1>14, <2>1 DEF CommitPublish, Offering
  <2>3. \A q \in Requests \ {r} : doing[q] # "publishing" /\ doing[q] # "flushing"
    BY <1>14, NoOtherFlushes DEF CommitPublish, Inv, LockInv
  <2>4. r \notin stale => row.status = "DRAFT"
    BY <1>0, <1>14, <2>1 DEF CommitPublish, Known, Knows
  <2>5. Known'
    BY <1>0, <1>14, <2>1, <2>3, <2>4, KnownWrite DEF CommitPublish, Known, Knows, Knowing, Answering
  <2> QED
    BY <1>4, <1>13, <1>14, <2>2, <2>5 DEF CommitPublish, EventsTellStatus
\* Whoever writes the status in a thread has not read it while its creation was under way.
<1>15. ASSUME NEW r \in Requests, doing[r] \in Knowing, NEW status, Writes(r, status)
       PROVE  /\ row.life = "live" /\ row'.life = "live" /\ row'.status = status
              /\ late' = (r \in stale)
              /\ \A q \in Requests \ {r} : doing[q] # "announcing" /\ doing[q] # "publishing"
              /\ r \notin stale => Knows(r)
  <2>1. row.life = "live" /\ row'.life = "live" /\ row'.status = status /\ ~RowLocked
    BY <1>0, <1>15 DEF Writes, Offering
  <2>2. \A q \in Requests \ {r} : doing[q] # "announcing" /\ doing[q] # "publishing"
    BY <1>0, <1>15, <2>1 DEF BeforeCreation, RowLocked
  <2>3. late' = (r \in stale)
    BY <1>15 DEF Writes, Overtakes
  <2> QED
    BY <1>0, <2>1, <2>2, <2>3 DEF Known
<1>16. ASSUME NEW r \in Requests, CommitConfirm(r) \/ CommitFail(r) PROVE KnowInv'
  <2>1. PICK status \in {"PUBLISHED", "DRAFT"} :
             /\ Writes(r, status)
             /\ told' = IF status = "PUBLISHED" THEN "PUBLISHED" ELSE told
    BY <1>16 DEF CommitConfirm, CommitFail
  <2>2. doing[r] \in Answering
    BY <1>16 DEF CommitConfirm, CommitFail, Answering
  <2>3. Overtakes(r, Answering)
    BY <2>1, <2>2 DEF Writes
  <2>4. /\ row.life = "live" /\ row'.life = "live" /\ row'.status = status
        /\ late' = (r \in stale)
        /\ \A q \in Requests \ {r} : doing[q] # "announcing" /\ doing[q] # "publishing"
        /\ r \notin stale => Knows(r)
    BY <1>15, <2>1, <2>2 DEF Knowing
  <2>5. r \notin stale => row.status = "PUBLISHING"
    BY <2>2, <2>4 DEF Knows
  <2>6. Known'
    BY <1>0, <2>3, <2>4, <2>5, KnownWrite DEF Known, Knows, Knowing
  <2>7. EventsTellStatus'
    BY <1>0, <2>1, <2>4, <2>5 DEF EventsTellStatus
  <2> QED
    BY <1>13, <2>3, <2>4, <2>6, <2>7
<1>17. ASSUME NEW r \in Requests, CommitRetire(r) PROVE KnowInv'
  <2>1. doing[r] = "retiring" /\ Writes(r, "RETIRED") /\ told' = "RETIRED"
    BY <1>17 DEF CommitRetire
  <2>2. Overtakes(r, {})
    BY <2>1 DEF Writes, Answering
  <2>3. /\ row.life = "live" /\ row'.life = "live" /\ row'.status = "RETIRED"
        /\ \A q \in Requests \ {r} : doing[q] # "announcing" /\ doing[q] # "publishing"
        /\ r \notin stale => Knows(r)
    BY <1>15, <2>1 DEF Knowing
  <2>4. r \notin stale => row.status \in {"PUBLISHED", "RETIRED"}
    BY <2>1, <2>3 DEF Knows
  <2>5. Known'
    BY <1>0, <2>2, <2>3, <2>4, KnownWrite DEF Known, Knows, Knowing, Answering
  <2>6. EventsTellStatus'
    BY <2>1, <2>3 DEF EventsTellStatus
  <2> QED
    BY <1>13, <2>2, <2>3, <2>5, <2>6
<1>18. CASE Restart
  <2>1. row' = row /\ told' = told /\ late' = late /\ \A q \in Requests : doing'[q] = "nothing"
    BY <1>18 DEF Restart
  <2>2. Known'
    BY <2>1 DEF Known, Knows, Answering
  <2> QED
    BY <1>0, <2>1, <2>2 DEF KnowInv, BeforeCreation, EventsTellStatus
<1>19. CASE UNCHANGED vars
  BY <1>0, <1>19 DEF vars, history, KnowInv, BeforeCreation, Known, Knows, EventsTellStatus
<1> QED
  BY <1>1, <1>2, <1>5, <1>6, <1>7, <1>8, <1>10, <1>11, <1>12, <1>14, <1>16, <1>17, <1>18, <1>19
  DEF Next, Coroutine, Thread

LEMMA KnowInvHolds == Spec => []KnowInv
<1>1. Init => KnowInv
  BY DEF Init, KnowInv, BeforeCreation, Known, EventsTellStatus, Knowing, Answering
<1> QED
  BY <1>1, NextKnowInv, InvHolds, PTL DEF Spec

(***************************************************************************)
(* The last lifecycle event tells the row's status, but for a draft, and     *)
(* only a stale fail leaves a draft that is told as PUBLISHED or RETIRED,    *)
(* for any number of requests that overlap.                                 *)
(***************************************************************************)
THEOREM EventsFollowStatus == Spec => []EventsTellStatus
<1>1. KnowInv => EventsTellStatus
  BY DEF KnowInv
<1> QED
  BY <1>1, KnowInvHolds, PTL

(***************************************************************************)
(* The committed status follows the lifecycle, whatever requests overlap,   *)
(* but for the write of a stale request.                                    *)
(***************************************************************************)
THEOREM LifecycleIsFollowed == Spec => LifecycleFollowed
<1>1. Inv /\ KnowInv /\ [Next]_vars
      => [row'.status # row.status =>
             \/ <<row.status, row'.status>> \in
                   {<<"DRAFT", "PUBLISHING">>, <<"PUBLISHING", "DRAFT">>,
                    <<"PUBLISHING", "PUBLISHED">>, <<"PUBLISHED", "RETIRED">>}
             \/ late']_vars
  <2> SUFFICES ASSUME Inv, KnowInv, Next, row'.status # row.status
               PROVE  \/ <<row.status, row'.status>> \in
                            {<<"DRAFT", "PUBLISHING">>, <<"PUBLISHING", "DRAFT">>,
                             <<"PUBLISHING", "PUBLISHED">>, <<"PUBLISHED", "RETIRED">>}
                      \/ late'
    BY DEF vars
  <2>0. row \in Offering
    BY DEF Inv, TypeOK
  <2>1. PICK r \in Requests : Coroutine(r) \/ Thread(r) \/ Fail(r)
    BY DEF Next, Restart
  <2>2. CASE CommitPublish(r)
    <3>1. row'.status = "PUBLISHING" /\ row.life = "live" /\ late' = (r \in stale)
      BY <2>0, <2>2 DEF CommitPublish, Offering, Overtakes, RowLocked, Inv, LockInv
    <3>2. r \in stale \/ row.status = "DRAFT"
      BY <2>2, <3>1 DEF CommitPublish, KnowInv, Known, Knows
    <3> QED
      BY <3>1, <3>2
  <2>3. CASE CommitConfirm(r) \/ CommitFail(r) \/ CommitRetire(r)
    <3>1. row.life = "live" /\ late' = (r \in stale)
      BY <2>3 DEF CommitConfirm, CommitFail, CommitRetire, Writes, Overtakes
    <3>2. r \in stale \/ Knows(r)
      BY <3>1 DEF KnowInv, Known
    <3>3. /\ CommitConfirm(r) => row'.status = "PUBLISHED"
          /\ CommitFail(r) => row'.status = "DRAFT"
          /\ CommitRetire(r) => row'.status = "RETIRED"
      BY <2>0 DEF CommitConfirm, CommitFail, CommitRetire, Writes, Offering
    <3>4. /\ CommitConfirm(r) \/ CommitFail(r) => r \in stale \/ row.status = "PUBLISHING"
          /\ CommitRetire(r) => r \in stale \/ row.status \in {"PUBLISHED", "RETIRED"}
      BY <3>2 DEF CommitConfirm, CommitFail, CommitRetire, Knows, Answering
    <3> QED
      BY <2>3, <3>1, <3>3, <3>4
  <2>4. ~(CreateRow(r) \/ CommitUpdate(r) \/ DeleteRow(r))
    BY <2>0 DEF CreateRow, CommitUpdate, DeleteRow, Offering
  <2>5. ~(\/ AnnounceCreate(r) \/ ReadToUpdate(r) \/ UpdateWaits(r) \/ ReadToPublish(r)
          \/ FlushPublish(r) \/ ReadToDelete(r) \/ ReadToConfirm(r) \/ ReadToFail(r)
          \/ ReadToRetire(r) \/ Fail(r))
    BY DEF AnnounceCreate, ReadToUpdate, UpdateWaits, ReadToPublish, FlushPublish, ReadToDelete,
           ReadToConfirm, ReadToFail, ReadToRetire, Starts, Fail
  <2> QED
    BY <2>1, <2>2, <2>3, <2>4, <2>5 DEF Coroutine, Thread
<1> QED
  BY <1>1, KnowInvHolds, InvHolds, PTL DEF Spec, LifecycleFollowed
=============================================================================
