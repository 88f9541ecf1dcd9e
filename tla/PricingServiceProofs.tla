------------------------ MODULE PricingServiceProofs ------------------------
(***************************************************************************)
(* What concurrent requests cannot break in the pricing service, for any    *)
(* number of requests and sagas.                                            *)
(*                                                                         *)
(* LifeAnnounced needs to know which request still owes an event.           *)
(* LockShutsOut needs to know that whoever is about to write, or to tell,    *)
(* has read the lock as it is, unless it is one of those that read it before *)
(* its last change.                                                        *)
(***************************************************************************)
EXTENDS PricingService, TLAPS

BeforeCreation ==
    row.life = "absent" => row.owner = Nobody /\ \A r \in Requests : doing[r] = "nothing"

Inv == TypeOK /\ BeforeCreation

LEMMA SomeFieldsType == SomeFields \in Fields
<1>1. Fields # {}
  <2>1. PICK n \in Names, v \in Values : TRUE
    BY PricingAssumption
  <2>2. [name |-> n, value |-> v] \in Fields
    BY DEF Fields
  <2> QED
    BY <2>2
<1> QED
  BY <1>1 DEF SomeFields

LEMMA InitInv == Init => Inv
<1> SUFFICES ASSUME Init PROVE Inv
  OBVIOUS
<1>1. NoPrice \in Price
  BY SomeFieldsType DEF NoPrice, Price, Lives
<1>2. TypeOK
  BY <1>1, SomeFieldsType DEF Init, TypeOK, Steps, Nothing, Seen
<1> QED
  BY <1>2 DEF Init, Inv, BeforeCreation, NoPrice

\* What ends a request keeps the types of its variables.
LEMMA LeavesType ==
  ASSUME TypeOK, NEW r \in Requests, Leaves(r)
  PROVE  /\ doing' \in [Requests -> Steps]
         /\ saga' \in [Requests -> Sagas \union {Nobody}]
         /\ ask' \in [Requests -> Fields]
         /\ read' \in [Requests -> Seen]
         /\ doing'[r] = "nothing"
         /\ \A q \in Requests \ {r} : doing'[q] = doing[q] /\ read'[q] = read[q]
<1>1. Nothing \in Seen
  BY SomeFieldsType DEF Nothing, Seen
<1> QED
  BY <1>1, SomeFieldsType DEF TypeOK, Leaves, Steps

LEMMA EndsType ==
  ASSUME TypeOK, NEW r \in Requests, Ends(r)
  PROVE  /\ doing' \in [Requests -> Steps]
         /\ saga' \in [Requests -> Sagas \union {Nobody}]
         /\ ask' \in [Requests -> Fields]
         /\ read' \in [Requests -> Seen]
         /\ older' \subseteq Requests
  BY LeavesType DEF Ends, TypeOK

\* What a request has seen of a live price.
LEMMA SeesType ==
  ASSUME TypeOK, NEW r \in Requests, Sees(r)
  PROVE  /\ read' \in [Requests -> Seen]
         /\ read'[r].owner = row.owner
         /\ \A q \in Requests \ {r} : read'[q] = read[q]
<1>1. [fields |-> row.fields, owner |-> row.owner] \in Seen
  BY DEF TypeOK, Price, Seen
<1> QED
  BY <1>1 DEF TypeOK, Sees

LEMMA NextInv == Inv /\ [Next]_vars => Inv'
<1> SUFFICES ASSUME Inv, [Next]_vars PROVE Inv'
  OBVIOUS
<1> USE PricingAssumption DEF Inv, BeforeCreation
<1>1. ASSUME NEW r \in Requests, CreateRow(r) PROVE Inv'
  BY <1>1 DEF CreateRow, TypeOK, Price, Lives, Steps
<1>2. ASSUME NEW r \in Requests, Refresh(r) PROVE Inv'
  BY <1>2, SeesType DEF Refresh, TypeOK, Price, Steps, Announcing
<1>3. ASSUME NEW r \in Requests, AnnounceCreate(r) PROVE Inv'
  <2>1. read[r].fields \in Fields /\ read[r].owner \in Sagas \union {Nobody}
    BY DEF TypeOK, Seen
  <2>2. told' \in Price
    BY <1>3, <2>1 DEF AnnounceCreate, Price, Lives
  <2> QED
    BY <1>3, <2>2, EndsType DEF AnnounceCreate, TypeOK
<1>4. ASSUME NEW r \in Requests, ReadToUpdate(r) PROVE Inv'
  <2>1. ask' \in [Requests -> Fields]
    BY <1>4 DEF ReadToUpdate, TypeOK
  <2>2. doing' \in [Requests -> Steps]
    BY <1>4 DEF ReadToUpdate, Reads, TypeOK, Steps
  <2> QED
    BY <1>4, <2>1, <2>2, SeesType DEF ReadToUpdate, Reads, TypeOK
<1>5. ASSUME NEW r \in Requests, CommitUpdate(r) PROVE Inv'
  <2>1. /\ row.fields \in Fields /\ ask[r] \in Fields
        /\ read[r].owner \in Sagas \union {Nobody}
    BY DEF TypeOK, Price, Seen
  <2>2. [name |-> Written(r, "name"), value |-> Written(r, "value")] \in Fields
    BY <2>1 DEF Written, Fields
  <2>3. row' \in Price /\ told' \in Price
    BY <1>5, <2>1, <2>2 DEF CommitUpdate, TypeOK, Price, Lives
  <2>4. row'.owner = row.owner /\ row'.life = row.life
    BY <1>5 DEF CommitUpdate, TypeOK, Price
  <2>5. row.life # "absent"
    BY <1>5 DEF CommitUpdate
  <2> QED
    BY <1>5, <2>3, <2>4, <2>5, EndsType DEF CommitUpdate, TypeOK
<1>6. ASSUME NEW r \in Requests, ReadToDelete(r) PROVE Inv'
  BY <1>6 DEF ReadToDelete, Reads, TypeOK, Steps
<1>7. ASSUME NEW r \in Requests, DeleteRow(r) PROVE Inv'
  BY <1>7 DEF DeleteRow, TypeOK, Price, Lives, Steps, Announcing
<1>8. ASSUME NEW r \in Requests, AnnounceDelete(r) PROVE Inv'
  BY <1>8, EndsType DEF AnnounceDelete, TypeOK, Price, Lives
<1>9. ASSUME NEW r \in Requests, ReadToLock(r) PROVE Inv'
  BY <1>9 DEF ReadToLock, Reads, TypeOK, Steps
<1>10. ASSUME NEW r \in Requests, CommitLock(r) PROVE Inv'
  BY <1>10, LeavesType DEF CommitLock, TypeOK, Price, Outdates
<1>11. ASSUME NEW r \in Requests, ReadToUnlock(r) PROVE Inv'
  BY <1>11 DEF ReadToUnlock, Reads, TypeOK, Steps
<1>12. ASSUME NEW r \in Requests, CommitUnlock(r) PROVE Inv'
  BY <1>12, LeavesType DEF CommitUnlock, TypeOK, Price, Outdates
<1>13. ASSUME NEW r \in Requests, FailBeforeCommit(r) \/ RefreshFails(r) PROVE Inv'
  BY <1>13, EndsType DEF FailBeforeCommit, RefreshFails, TypeOK
<1>14. ASSUME NEW r \in Requests, FailBetweenCommits(r) PROVE Inv'
  BY <1>14, EndsType DEF FailBetweenCommits, TypeOK, Announcing
<1>15. CASE UNCHANGED vars
  BY <1>15 DEF vars, TypeOK
<1> QED
  BY <1>1, <1>2, <1>3, <1>4, <1>5, <1>6, <1>7, <1>8, <1>9, <1>10, <1>11, <1>12, <1>13,
     <1>14, <1>15 DEF Next

LEMMA InvHolds == Spec => []Inv
  BY InitInv, NextInv, PTL DEF Spec

(***************************************************************************)
(* The row, the events and every request's step keep their types.           *)
(***************************************************************************)
THEOREM TypeCorrect == Spec => []TypeOK
  BY InvHolds, PTL DEF Inv

-----------------------------------------------------------------------------
\* Which request owes the event that is missing.
CreateOwed == \E r \in Requests : doing[r] \in {"refresh", "announce create"}
DeleteOwed == \E r \in Requests : doing[r] = "announce delete"

LifeInv ==
    /\ DeleteOwed => row.life = "gone"
    /\ told.life = "gone" => row.life = "gone"
    /\ cutShort \/ row.life # "live" \/ told.life = "live" \/ CreateOwed
    /\ cutShort \/ row.life # "gone" \/ told.life # "absent" \/ DeleteOwed

LEMMA InitLifeInv == Init => LifeInv
  BY DEF Init, LifeInv, NoPrice, DeleteOwed

LEMMA NextLifeInv == Inv /\ LifeInv /\ [Next]_vars => LifeInv'
<1> SUFFICES ASSUME Inv, LifeInv, [Next]_vars PROVE LifeInv'
  OBVIOUS
<1>0. /\ row.life \in Lives
      /\ told.life \in Lives
  BY DEF Inv, TypeOK, Price
<1> USE <1>0 DEF LifeInv, Lives
\* A step of r that ends it, or sends it to another step, leaves the others alone.
<1>a. ASSUME NEW r \in Requests, Leaves(r)
      PROVE  /\ doing'[r] = "nothing"
             /\ \A q \in Requests \ {r} : doing'[q] = doing[q]
  BY <1>a, LeavesType DEF Inv
<1>b. ASSUME NEW r \in Requests, NEW step, doing' = [doing EXCEPT ![r] = step]
      PROVE  /\ doing'[r] = step
             /\ \A q \in Requests \ {r} : doing'[q] = doing[q]
  BY <1>b DEF Inv, TypeOK
<1>1. ASSUME NEW r \in Requests, CreateRow(r) PROVE LifeInv'
  <2>1. row.life = "absent" /\ row'.life = "live" /\ told' = told /\ cutShort' = cutShort
    BY <1>1 DEF CreateRow
  <2>2. doing'[r] = "refresh" /\ \A q \in Requests \ {r} : doing'[q] = doing[q]
    BY <1>1, <1>b DEF CreateRow
  <2>3. CreateOwed' /\ ~DeleteOwed'
    BY <2>1, <2>2 DEF CreateOwed, DeleteOwed, Inv, BeforeCreation
  <2> QED
    BY <2>1, <2>3
<1>2. ASSUME NEW r \in Requests, Refresh(r) PROVE LifeInv'
  <2>1. row' = row /\ told' = told /\ cutShort' = cutShort /\ row.life = "live"
    BY <1>2 DEF Refresh
  <2>2. doing'[r] = "announce create" /\ \A q \in Requests \ {r} : doing'[q] = doing[q]
    BY <1>2, <1>b DEF Refresh
  <2> QED
    BY <2>1, <2>2 DEF CreateOwed, DeleteOwed
<1>3. ASSUME NEW r \in Requests, AnnounceCreate(r) PROVE LifeInv'
  <2>1. /\ row' = row /\ told'.life = "live" /\ cutShort' = cutShort
        /\ doing[r] = "announce create"
    BY <1>3 DEF AnnounceCreate, Inv, TypeOK, Price
  <2>2. DeleteOwed' => DeleteOwed
    BY <1>3, <1>a DEF AnnounceCreate, DeleteOwed, Ends
  <2> QED
    BY <2>1, <2>2
<1>4. ASSUME NEW r \in Requests, NEW step \in {"update", "delete", "lock", "unlock"}, Reads(r, step)
      PROVE  LifeInv'
  <2>1. row' = row /\ told' = told /\ cutShort' = cutShort /\ doing[r] = "nothing"
    BY <1>4 DEF Reads
  <2>2. doing'[r] = step /\ \A q \in Requests \ {r} : doing'[q] = doing[q]
    BY <1>4, <1>b DEF Reads
  <2> QED
    BY <2>1, <2>2 DEF CreateOwed, DeleteOwed
<1>5. ASSUME NEW r \in Requests, doing[r] \notin {"refresh"} \union Announcing, Leaves(r),
             row'.life = row.life, told'.life = told.life \/ told'.life = "live",
             cutShort' = cutShort
      PROVE  LifeInv'
  <2>1. (DeleteOwed' <=> DeleteOwed) /\ (CreateOwed' <=> CreateOwed)
    BY <1>5, <1>a DEF DeleteOwed, CreateOwed, Announcing
  <2> QED
    BY <1>5, <2>1
<1>6. ASSUME NEW r \in Requests, CommitUpdate(r) \/ CommitLock(r) \/ CommitUnlock(r) \/ FailBeforeCommit(r)
      PROVE  LifeInv'
  <2>1. /\ row'.life = row.life
        /\ told'.life = told.life \/ told'.life = "live"
        /\ cutShort' = cutShort
        /\ doing[r] \notin {"refresh"} \union Announcing
    <3>1. row \in Price /\ told \in Price
      BY DEF Inv, TypeOK
    <3>2. CASE CommitUpdate(r)
      BY <3>1, <3>2 DEF CommitUpdate, Price, Announcing
    <3>3. CASE CommitLock(r) \/ CommitUnlock(r) \/ FailBeforeCommit(r)
      BY <3>1, <3>3 DEF CommitLock, CommitUnlock, FailBeforeCommit, Price, Announcing
    <3> QED
      BY <1>6, <3>2, <3>3
  <2> QED
    BY <1>5, <1>6, <2>1 DEF CommitUpdate, CommitLock, CommitUnlock, FailBeforeCommit, Ends
<1>7. ASSUME NEW r \in Requests, DeleteRow(r) PROVE LifeInv'
  <2>1. row'.life = "gone" /\ told' = told /\ cutShort' = cutShort
    BY <1>7 DEF DeleteRow, Inv, TypeOK, Price
  <2>2. DeleteOwed'
    BY <1>7, <1>b DEF DeleteRow, DeleteOwed
  <2> QED
    BY <2>1, <2>2
<1>8. ASSUME NEW r \in Requests, AnnounceDelete(r) PROVE LifeInv'
  <2>1. row' = row /\ told'.life = "gone" /\ DeleteOwed
    BY <1>8 DEF AnnounceDelete, DeleteOwed, Inv, TypeOK, Price
  <2> QED
    BY <2>1
<1>9. ASSUME NEW r \in Requests, RefreshFails(r) PROVE LifeInv'
  <2>1. row' = row /\ told' = told /\ cutShort' = cutShort /\ row.life = "gone" /\ doing[r] = "refresh"
    BY <1>9 DEF RefreshFails
  <2>2. DeleteOwed' <=> DeleteOwed
    BY <1>9, <1>a, <2>1 DEF RefreshFails, DeleteOwed, Ends
  <2> QED
    BY <2>1, <2>2
<1>10. ASSUME NEW r \in Requests, FailBetweenCommits(r) PROVE LifeInv'
  <2>1. row' = row /\ told' = told /\ cutShort' = TRUE
    BY <1>10 DEF FailBetweenCommits
  <2>2. DeleteOwed' => DeleteOwed
    BY <1>10, <1>a DEF FailBetweenCommits, DeleteOwed, Ends
  <2> QED
    BY <2>1, <2>2
<1>11. CASE UNCHANGED vars
  BY <1>11 DEF vars, CreateOwed, DeleteOwed
<1>12. ASSUME NEW r \in Requests,
              ReadToUpdate(r) \/ ReadToDelete(r) \/ ReadToLock(r) \/ ReadToUnlock(r)
       PROVE  LifeInv'
  BY <1>4, <1>12 DEF ReadToUpdate, ReadToDelete, ReadToLock, ReadToUnlock
<1> QED
  BY <1>1, <1>2, <1>3, <1>6, <1>7, <1>8, <1>9, <1>10, <1>11, <1>12 DEF Next

(***************************************************************************)
(* Without a failure between its two commits, every create and delete is    *)
(* told in the end, however many requests overlap.                          *)
(***************************************************************************)
THEOREM LifeIsAnnounced == Spec => []LifeAnnounced
<1>1. Inv /\ LifeInv => LifeAnnounced
  BY DEF LifeInv, LifeAnnounced, CreateOwed, DeleteOwed
<1> QED
  BY InitLifeInv, NextLifeInv, InvHolds, <1>1, PTL DEF Spec

-----------------------------------------------------------------------------
\* A request that is about to write has found the price free, one that is about to tell
\* its lock has read it; the lock is still so, unless the request is an older one.
UpToDate(r) ==
    /\ doing[r] \in {"update", "delete", "lock"} => row.owner = Nobody
    /\ doing[r] \in {"update", "announce create"} => read[r].owner = row.owner

ShutInv == \A r \in Requests : r \in older \/ UpToDate(r)

\* A step of one request leaves the others up to date that keep what they know.
LEMMA OthersUpToDate ==
  ASSUME ShutInv, NEW r \in Requests, UpToDate(r)', older \ {r} \subseteq older',
         row'.owner = row.owner,
         \A q \in Requests \ {r} : doing'[q] = doing[q] /\ read'[q] = read[q]
  PROVE  ShutInv'
  BY DEF ShutInv, UpToDate

\* After a change of the lock only the older requests, and those that know nothing yet,
\* are left.
LEMMA AfterLockChange ==
  ASSUME Inv, NEW r \in Requests, Leaves(r), Outdates(r)
  PROVE  ShutInv'
<1> SUFFICES ASSUME NEW q \in Requests, q \notin older' PROVE UpToDate(q)'
  BY DEF ShutInv
<1>1. doing'[q] \in {"nothing", "refresh"}
  BY LeavesType DEF Outdates, Inv
<1> QED
  BY <1>1 DEF UpToDate

LEMMA NextShutInv == Inv /\ ShutInv /\ [Next]_vars => ShutInv'
<1> SUFFICES ASSUME Inv, ShutInv, [Next]_vars PROVE ShutInv'
  OBVIOUS
<1>1. ASSUME NEW r \in Requests, Ends(r), row'.owner = row.owner PROVE ShutInv'
  <2>1. UpToDate(r)'
    BY <1>1, LeavesType DEF Ends, UpToDate, Inv
  <2> QED
    BY <1>1, <2>1, LeavesType, OthersUpToDate DEF Ends, Inv
<1>2. ASSUME NEW r \in Requests,
             \/ AnnounceCreate(r) \/ CommitUpdate(r) \/ AnnounceDelete(r)
             \/ FailBeforeCommit(r) \/ RefreshFails(r) \/ FailBetweenCommits(r)
      PROVE  ShutInv'
  <2>1. Ends(r) /\ row'.owner = row.owner
    BY <1>2 DEF AnnounceCreate, CommitUpdate, AnnounceDelete, FailBeforeCommit, RefreshFails,
                FailBetweenCommits, Inv, TypeOK, Price
  <2> QED
    BY <1>1, <2>1
<1>3. ASSUME NEW r \in Requests, CommitLock(r) \/ CommitUnlock(r) PROVE ShutInv'
  BY <1>3, AfterLockChange DEF CommitLock, CommitUnlock
\* A request that knows nothing of the lock yet, or has just read it.
<1>4. ASSUME NEW r \in Requests, NEW step \in Steps, doing' = [doing EXCEPT ![r] = step],
             read' = read \/ Sees(r), older' = older, row'.owner = row.owner,
             step \in {"update", "announce create"} => Sees(r),
             step \in {"update", "delete", "lock"} => row.owner = Nobody
      PROVE  ShutInv'
  <2>1. doing'[r] = step /\ \A q \in Requests \ {r} : doing'[q] = doing[q]
    BY <1>4 DEF Inv, TypeOK
  <2>2. UpToDate(r)'
    BY <1>4, <2>1, SeesType DEF UpToDate, Inv
  <2> QED
    BY <1>4, <2>1, <2>2, SeesType, OthersUpToDate DEF Inv
<1>5. ASSUME NEW r \in Requests, Refresh(r) \/ ReadToUpdate(r) PROVE ShutInv'
  BY <1>4, <1>5 DEF Refresh, ReadToUpdate, Reads, Steps, Announcing
<1>6. ASSUME NEW r \in Requests, ReadToDelete(r) \/ ReadToLock(r) \/ ReadToUnlock(r) PROVE ShutInv'
  BY <1>4, <1>6 DEF ReadToDelete, ReadToLock, ReadToUnlock, Reads, Steps
\* After the DELETE the request has nothing more to say of the lock.
<1>7. ASSUME NEW r \in Requests, DeleteRow(r) PROVE ShutInv'
  <2>1. row'.owner = row.owner
    BY <1>7 DEF DeleteRow, Inv, TypeOK, Price
  <2> QED
    BY <1>4, <1>7, <2>1 DEF DeleteRow, Steps, Announcing
<1>8. ASSUME NEW r \in Requests, CreateRow(r) PROVE ShutInv'
  <2>1. row'.owner = row.owner
    BY <1>8 DEF CreateRow, Inv, BeforeCreation
  <2> QED
    BY <1>4, <1>8, <2>1 DEF CreateRow, Steps
<1>9. CASE UNCHANGED vars
  BY <1>9 DEF vars, ShutInv, UpToDate
<1> QED
  BY <1>2, <1>3, <1>5, <1>6, <1>7, <1>8, <1>9 DEF Next

(***************************************************************************)
(* Who holds the lock shuts out all requests but the older ones, for any    *)
(* number of requests, lockers and sagas.                                   *)
(***************************************************************************)
THEOREM LockHolds == Spec => LockShutsOut
<1>1. Init => ShutInv
  BY DEF Init, ShutInv, UpToDate
<1>2. ASSUME Inv, ShutInv, Next, older = {}
      PROVE  /\ row.owner # Nobody => row' = row \/ row' = [row EXCEPT !.owner = Nobody]
             /\ told.owner = row.owner => told'.owner = row'.owner
  <2>1. PICK r \in Requests :
             \/ CreateRow(r) \/ Refresh(r) \/ AnnounceCreate(r) \/ ReadToUpdate(r)
             \/ CommitUpdate(r) \/ ReadToDelete(r) \/ DeleteRow(r) \/ AnnounceDelete(r)
             \/ ReadToLock(r) \/ CommitLock(r) \/ ReadToUnlock(r) \/ CommitUnlock(r)
             \/ FailBeforeCommit(r) \/ RefreshFails(r) \/ FailBetweenCommits(r)
    BY <1>2 DEF Next
  <2>2. UpToDate(r)
    BY <1>2 DEF ShutInv
  <2>3. row \in Price /\ told \in Price
    BY <1>2 DEF Inv, TypeOK
  <2>4. CASE CommitUpdate(r)
    BY <2>2, <2>3, <2>4 DEF CommitUpdate, UpToDate, Price
  <2>5. CASE DeleteRow(r)
    BY <2>2, <2>3, <2>5 DEF DeleteRow, UpToDate, Price
  <2>6. CASE CommitLock(r)
    <3>1. row.owner = Nobody
      BY <2>2, <2>6 DEF CommitLock, UpToDate
    <3>2. row'.owner = saga[r] /\ told'.owner = saga[r]
      BY <2>3, <2>6 DEF CommitLock, Price
    <3> QED
      BY <3>1, <3>2
  <2>10. CASE CommitUnlock(r)
    BY <2>3, <2>10 DEF CommitUnlock, Price
  <2>7. CASE CreateRow(r)
    BY <1>2, <2>3, <2>7 DEF CreateRow, Inv, BeforeCreation, Price
  <2>8. CASE AnnounceCreate(r)
    <3>1. row' = row /\ told'.owner = read[r].owner
      BY <2>8 DEF AnnounceCreate
    <3>2. read[r].owner = row.owner
      BY <2>2, <2>8 DEF AnnounceCreate, UpToDate
    <3> QED
      BY <3>1, <3>2
  <2>11. CASE AnnounceDelete(r)
    BY <2>3, <2>11 DEF AnnounceDelete, Price
  <2>9. CASE \/ Refresh(r) \/ ReadToUpdate(r) \/ ReadToDelete(r) \/ ReadToLock(r) \/ ReadToUnlock(r)
             \/ FailBeforeCommit(r) \/ RefreshFails(r) \/ FailBetweenCommits(r)
    BY <2>9 DEF Refresh, ReadToUpdate, ReadToDelete, ReadToLock, ReadToUnlock, Reads,
                FailBeforeCommit, RefreshFails, FailBetweenCommits
  <2> QED
    BY <2>1, <2>4, <2>5, <2>6, <2>7, <2>8, <2>9, <2>10, <2>11
<1>3. Inv /\ ShutInv /\ [Next]_vars
      => [older = {} =>
            /\ row.owner # Nobody => row' = row \/ row' = [row EXCEPT !.owner = Nobody]
            /\ told.owner = row.owner => told'.owner = row'.owner]_vars
  BY <1>2
<1> QED
  BY <1>1, <1>3, NextShutInv, InvHolds, PTL DEF Spec, LockShutsOut
=============================================================================
