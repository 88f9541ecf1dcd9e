------------------------ MODULE StoreReadModelProofs ------------------------
(***************************************************************************)
(* What holds of the store's read model for any number of offerings, parts, *)
(* versions and events.                                                     *)
(*                                                                         *)
(* What the tasks have in hand comes first: a consumer that is busy has an  *)
(* event (Busy) that fits its step (Hands), and an offering that is not     *)
(* disturbed is in the hands of one task (OneTask).                         *)
(*                                                                         *)
(* RetiredOnesStayOut is about any fault: the consumer of a part's event    *)
(* looks for documents that show the part, and no empty document does.      *)
(*                                                                         *)
(* IndexFollowsMongo is about an index that does not fail and a service     *)
(* that does not crash: the stores differ only while a task is between      *)
(* them (Follows).                                                          *)
(*                                                                         *)
(* MongoIsRight is about sources and a MongoDB that do not fail: what a     *)
(* document lacks is brought by an event still to come (InOrder), and an    *)
(* event that is still to come when a task reads is not begun before the    *)
(* task has written, or the offering is disturbed.                          *)
(***************************************************************************)
EXTENDS StoreReadModel, SequenceTheorems, FiniteSetTheorems, TLAPS

TaskType == [step : Steps, todo : SUBSET Offerings, on : Offerings \union {Nobody},
             doc : Document, unread : Seq(Parts)]

OfAPart(e) == e.type \in {"Updated", "Deleted"}

EventsInv ==
    /\ IsFiniteSet(issued)
    /\ \A e \in issued : (OfAPart(e) => e.of \in Parts) /\ (~OfAPart(e) => e.of \in Offerings)

Busy ==
    \A t \in Topics : work[t].step # "idle" =>
        /\ queue[t] # <<>>
        /\ work[t].step = "find" => OfAPart(Head(queue[t]))

Inv == TypeOK /\ EventsInv /\ Busy

LEMMA NoDocumentType == NoDocument \in Document
<1>1. 0 \in 0 .. MaxVersion
  BY StoreAssumption
<1> QED
  BY <1>1 DEF NoDocument, Document, Statuses

LEMMA TaskHasType ==
  ASSUME NEW step \in Steps, NEW todo \in SUBSET Offerings, NEW on \in Offerings \union {Nobody}
  PROVE  Task(step, todo, on) \in TaskType
<1>1. <<>> \in Seq(Parts)
  BY EmptySeq
<1> QED
  BY <1>1, NoDocumentType DEF Task, TaskType

LEMMA IdleType == Idle \in TaskType /\ Idle.step = "idle"
<1>1. Idle \in TaskType
  BY TaskHasType DEF Idle, Steps
<1> QED
  BY <1>1 DEF Idle, Task

LEMMA FaultType ==
  ASSUME happened \in SUBSET FaultKinds, NEW kind, Fault(kind)
  PROVE  happened' \in SUBSET FaultKinds
  BY StoreAssumption DEF Fault

LEMMA GoesWork ==
  ASSUME TypeOK, NEW t \in Tasks, NEW task, Goes(t, task)
  PROVE  /\ \A u \in Tasks : work'[u] = IF u = t THEN task ELSE work[u]
         /\ task \in TaskType => work' \in [Tasks -> TaskType]
         /\ disturbed' \in SUBSET Offerings
  BY DEF TypeOK, Goes, TaskType

LEMMA InitInv == Init => Inv
<1> SUFFICES ASSUME Init PROVE Inv
  OBVIOUS
<1>1. work \in [Tasks -> TaskType] /\ mongo \in [Offerings -> Document] /\ elastic \in [Offerings -> Document]
  BY IdleType, NoDocumentType DEF Init
<1>2. version \in [Parts -> 0 .. MaxVersion]
  <2>1. 1 \in 0 .. MaxVersion
    BY StoreAssumption
  <2> QED
    BY <2>1 DEF Init
<1>3. queue \in [Topics -> Seq(issued)]
  BY EmptySeq DEF Init
<1>4. TypeOK
  BY <1>1, <1>2, <1>3 DEF Init, TypeOK, Statuses, TaskType
<1>5. EventsInv
  BY FS_EmptySet DEF Init, EventsInv
<1>6. Busy
  <2>1. \A t \in Topics : work[t].step = "idle"
    BY IdleType DEF Init, Tasks
  <2> QED
    BY <2>1 DEF Busy
<1> QED
  BY <1>4, <1>5, <1>6 DEF Inv

------------------------------------------------------------------------------
\* A step of a task that issues nothing and leaves the queues alone.
LEMMA StepInv ==
  ASSUME Inv, NEW t \in Tasks, NEW task \in TaskType, Goes(t, task),
         UNCHANGED <<status, version, issued, queue>>,
         entry' \in [Offerings -> {"none", "syncing", "again", "synced", "deleting", "deleted"}],
         processed' \in SUBSET Nat, happened' \in SUBSET FaultKinds,
         mongo' \in [Offerings -> Document], elastic' \in [Offerings -> Document],
         t \in Topics /\ task.step # "idle" =>
            /\ queue[t] # <<>>
            /\ task.step = "find" => OfAPart(Head(queue[t]))
  PROVE  Inv'
<1>1. /\ \A u \in Tasks : work'[u] = IF u = t THEN task ELSE work[u]
      /\ work' \in [Tasks -> TaskType] /\ disturbed' \in SUBSET Offerings
  BY GoesWork DEF Inv
<1>2. TypeOK'
  BY <1>1 DEF Inv, TypeOK, TaskType
<1>3. EventsInv'
  BY DEF Inv, EventsInv
<1>4. Busy'
  BY <1>1 DEF Inv, Busy, Tasks
<1> QED
  BY <1>2, <1>3, <1>4 DEF Inv

\* The type of a task's own variable, whatever its step.
LEMMA WorkType ==
  ASSUME Inv, NEW t \in Tasks
  PROVE  /\ work[t] \in TaskType
         /\ work[t].step \in Steps /\ work[t].todo \in SUBSET Offerings
         /\ work[t].on \in Offerings \union {Nobody}
         /\ work[t].doc \in Document /\ work[t].unread \in Seq(Parts)
         /\ t \in Topics /\ work[t].step # "idle" => queue[t] # <<>>
<1>1. work[t] \in TaskType
  BY DEF Inv, TypeOK, TaskType
<1> QED
  BY <1>1 DEF TaskType, Inv, Busy

LEMMA RaisedType ==
  ASSUME NEW t \in Tasks PROVE Raised(t) \in TaskType /\ Raised(t).step \in {"skip", "next"}
<1>1. Task("skip", {}, Nobody) \in TaskType /\ Task("next", {}, Nobody) \in TaskType
  BY TaskHasType DEF Steps
<1> QED
  BY <1>1 DEF Raised, Task

LEMMA TaskStepInv == ASSUME Inv, NEW t \in Tasks, TaskStep(t) PROVE Inv'
<1>1. /\ TypeOK /\ work[t] \in TaskType /\ work[t].todo \in SUBSET Offerings
      /\ work[t].on \in Offerings \union {Nobody}
      /\ work[t].doc \in Document /\ work[t].unread \in Seq(Parts)
      /\ t \in Topics /\ work[t].step # "idle" => queue[t] # <<>>
  BY WorkType DEF Inv
<1>2. /\ mongo \in [Offerings -> Document] /\ elastic \in [Offerings -> Document]
      /\ happened \in SUBSET FaultKinds /\ processed \in SUBSET Nat
      /\ entry \in [Offerings -> {"none", "syncing", "again", "synced", "deleting", "deleted"}]
  BY <1>1 DEF TypeOK
<1>3. ASSUME NEW todo \in SUBSET Offerings
      PROVE  Task("next", todo, Nobody) \in TaskType /\ Task("next", todo, Nobody).step = "next"
  <2>1. Task("next", todo, Nobody) \in TaskType
    BY TaskHasType DEF Steps
  <2> QED
    BY <2>1 DEF Task
<1>4. ASSUME NEW o \in Offerings, FetchOffering(t, o) PROVE Inv'
  <2> DEFINE reads == [step |-> "read", todo |-> work[t].todo \ {o}, on |-> o,
                       doc |-> [NoDocument EXCEPT !.status = status[o]], unread |-> PartsOf[o]]
  <2>1. reads \in TaskType
    <3>1. status[o] \in Statuses /\ PartsOf[o] \in Seq(Parts)
      BY <1>1, StoreAssumption DEF TypeOK
    <3>2. [NoDocument EXCEPT !.status = status[o]] \in Document
      BY <3>1, NoDocumentType DEF Document
    <3>3. "read" \in Steps
      BY DEF Steps
    <3> QED
      BY <1>1, <3>1, <3>2, <3>3 DEF TaskType
  <2>2. PICK task \in TaskType : Goes(t, task) /\ task.step \in {"read", "next"}
    <3>1. reads.step = "read"
      OBVIOUS
    <3> HIDE DEF reads
    <3> QED
      BY <1>1, <1>3, <1>4, <2>1, <3>1 DEF FetchOffering, reads
  <2>3. happened' \in SUBSET FaultKinds
    BY <1>2, <1>4, FaultType DEF FetchOffering
  <2>4. /\ UNCHANGED <<status, version, issued, queue, entry, processed, mongo, elastic>>
        /\ work[t].step # "idle"
    BY <1>4 DEF FetchOffering, sources, events, stores
  <2> QED
    BY <1>1, <1>2, <2>2, <2>3, <2>4, StepInv
<1>5. CASE FetchPart(t)
  <2> DEFINE p == Head(work[t].unread)
             skipped == [work[t] EXCEPT !.unread = Tail(@)]
             shown == [work[t] EXCEPT !.unread = Tail(@), !.doc.shows[p] = version[p]]
  <2>1. p \in Parts /\ Tail(work[t].unread) \in Seq(Parts)
    BY <1>1, <1>5, HeadTailProperties DEF FetchPart
  <2>2. skipped \in TaskType /\ skipped.step = work[t].step
    BY <1>1, <2>1 DEF TaskType
  <2>3. shown \in TaskType /\ shown.step = work[t].step
    <3>1. version[p] \in 0 .. MaxVersion
      BY <1>1, <2>1 DEF TypeOK
    <3>2. [work[t].doc EXCEPT !.shows[p] = version[p]] \in Document
      BY <1>1, <2>1, <3>1 DEF Document
    <3> QED
      BY <1>1, <2>1, <3>2 DEF TaskType
  <2>4. /\ happened' \in SUBSET FaultKinds
        /\ UNCHANGED <<status, version, issued, queue, entry, processed, mongo, elastic>>
        /\ work[t].step = "read"
        /\ Goes(t, skipped) \/ Goes(t, shown)
    <3>1. happened' \in SUBSET FaultKinds
      BY <1>2, <1>5, FaultType DEF FetchPart
    <3>2. /\ UNCHANGED <<status, version, issued, queue, entry, processed, mongo, elastic>>
          /\ work[t].step = "read"
      BY <1>5 DEF FetchPart, sources, events, stores
    <3>3. Goes(t, skipped) \/ Goes(t, shown)
      BY <1>5 DEF FetchPart
    <3> QED
      BY <3>1, <3>2, <3>3
  <2>5. PICK task \in TaskType : Goes(t, task) /\ task.step = "read"
    <3> HIDE DEF skipped, shown
    <3> QED
      BY <2>2, <2>3, <2>4
  <2> QED
    BY <1>1, <1>2, <2>4, <2>5, StepInv
<1>6. CASE WriteMongo(t)
  <2> DEFINE indexing == [work[t] EXCEPT !.step = "index"]
  <2>1. indexing \in TaskType /\ indexing.step = "index"
    <3>1. "index" \in Steps
      BY DEF Steps
    <3> QED
      BY <1>1, <3>1 DEF TaskType
  <2>2. mongo' \in [Offerings -> Document]
    BY <1>1, <1>2, <1>6 DEF WriteMongo
  <2>3. happened' \in SUBSET FaultKinds
    BY <1>2, <1>6, FaultType DEF WriteMongo
  <2>4. PICK task \in TaskType : Goes(t, task) /\ task.step \in {"index", "next"}
    <3> HIDE DEF indexing
    <3> QED
      BY <1>1, <1>3, <1>6, <2>1 DEF WriteMongo, indexing
  <2>5. /\ UNCHANGED <<status, version, issued, queue, entry, processed, elastic>>
        /\ work[t].step = "read"
    BY <1>6 DEF WriteMongo, sources, events
  <2> QED
    BY <1>1, <1>2, <2>2, <2>3, <2>4, <2>5, StepInv
<1>7. CASE IndexElastic(t)
  <2>1. elastic' \in [Offerings -> Document]
    BY <1>1, <1>2, <1>7 DEF IndexElastic
  <2>2. happened' \in SUBSET FaultKinds
    BY <1>2, <1>7, FaultType DEF IndexElastic
  <2>3. /\ UNCHANGED <<status, version, issued, queue, entry, processed, mongo>>
        /\ work[t].step = "index" /\ Goes(t, Task("next", work[t].todo, Nobody))
    BY <1>7 DEF IndexElastic, sources, events
  <2> QED
    BY <1>1, <1>2, <1>3, <2>1, <2>2, <2>3, StepInv
<1>8. CASE RemoveMongo(t)
  <2> DEFINE unindexing == [work[t] EXCEPT !.step = "unindex"]
  <2>1. unindexing \in TaskType /\ unindexing.step = "unindex"
    <3>1. "unindex" \in Steps
      BY DEF Steps
    <3> QED
      BY <1>1, <3>1 DEF TaskType
  <2>2. mongo' \in [Offerings -> Document]
    BY <1>2, <1>8, NoDocumentType DEF RemoveMongo
  <2>3. happened' \in SUBSET FaultKinds
    BY <1>2, <1>8, FaultType DEF RemoveMongo
  <2>4. PICK task \in TaskType : Goes(t, task) /\ task.step \in {"unindex", "skip", "next"}
    <3> HIDE DEF unindexing
    <3> QED
      BY <1>8, <2>1, RaisedType DEF RemoveMongo, unindexing
  <2>5. /\ UNCHANGED <<status, version, issued, queue, entry, processed, elastic>>
        /\ work[t].step = "remove"
    BY <1>8 DEF RemoveMongo, sources, events
  <2> QED
    BY <1>1, <1>2, <2>2, <2>3, <2>4, <2>5, StepInv
<1>9. CASE RemoveElastic(t)
  <2>1. elastic' \in [Offerings -> Document]
    BY <1>2, <1>9, NoDocumentType DEF RemoveElastic
  <2>2. happened' \in SUBSET FaultKinds
    BY <1>2, <1>9, FaultType DEF RemoveElastic
  <2>3. PICK task \in TaskType : Goes(t, task) /\ task.step \in {"skip", "next"}
    BY <1>3, <1>9, RaisedType DEF RemoveElastic
  <2>4. /\ UNCHANGED <<status, version, issued, queue, entry, processed, mongo>>
        /\ work[t].step = "unindex"
    BY <1>9 DEF RemoveElastic, sources, events
  <2> QED
    BY <1>1, <1>2, <2>1, <2>2, <2>3, <2>4, StepInv
<1> QED
  BY <1>4, <1>5, <1>6, <1>7, <1>8, <1>9 DEF TaskStep

\* An event of part x or offering x that Issue adds.
LEMMA IssueInv ==
  ASSUME Inv, NEW x \in Offerings \union Parts,
         NEW type \in {"OfferingPublished", "OfferingRetired", "Updated", "Deleted"},
         type \in {"Updated", "Deleted"} <=> x \in Parts, Issue(type, x),
         status' \in [Offerings -> Statuses \ {"none"}], version' \in [Parts -> 0 .. MaxVersion],
         UNCHANGED <<entry, processed, mongo, elastic, work, disturbed, happened>>
  PROVE  Inv'
<1> DEFINE e == [id |-> Cardinality(issued) + 1, type |-> type, of |-> x]
<1>1. issued' = issued \union {e} /\ queue' = [queue EXCEPT ![TopicOf(x)] = Append(@, e)]
  BY DEF Issue
<1>2. IsFiniteSet(issued) /\ IsFiniteSet(issued') /\ e.id \in Nat
  BY <1>1, FS_CardinalityType, FS_AddElement DEF Inv, EventsInv
<1>3. e \in Event
  BY <1>2 DEF Event
<1>4. ASSUME NEW u \in Topics
      PROVE  /\ queue'[u] \in Seq(issued')
             /\ queue[u] # <<>> => queue'[u] # <<>> /\ Head(queue'[u]) = Head(queue[u])
  <2>1. queue[u] \in Seq(issued) /\ queue[u] \in Seq(issued')
    BY <1>1, SeqMonotonic DEF Inv, TypeOK
  <2>2. CASE queue'[u] = queue[u]
    BY <2>1, <2>2
  <2>3. CASE queue'[u] = Append(queue[u], e)
    <3>1. e \in issued'
      BY <1>1
    <3>2. /\ Append(queue[u], e) \in Seq(issued') /\ Append(queue[u], e) # <<>>
          /\ Len(Append(queue[u], e)) = Len(queue[u]) + 1
          /\ \A i \in 1 .. Len(queue[u]) : Append(queue[u], e)[i] = queue[u][i]
      BY <2>1, <3>1, AppendProperties
    <3>3. queue[u] # <<>> => 1 \in 1 .. Len(queue[u])
      BY <2>1, EmptySeq
    <3>4. \A s \in Seq(issued') : s # <<>> => Head(s) = s[1]
      OBVIOUS
    <3> QED
      BY <2>1, <2>3, <3>2, <3>3, <3>4
  <2> QED
    BY <1>1, <2>2, <2>3 DEF Inv, TypeOK
<1>5. queue' \in [Topics -> Seq(issued')]
  BY <1>1, <1>4 DEF Inv, TypeOK
<1>6. TypeOK'
  BY <1>1, <1>3, <1>5 DEF Inv, TypeOK
<1>7. EventsInv'
  <2>1. OfAPart(e) <=> x \in Parts
    BY DEF OfAPart
  <2>2. (OfAPart(e) => e.of \in Parts) /\ (~OfAPart(e) => e.of \in Offerings)
    BY <2>1
  <2> HIDE DEF e
  <2> QED
    BY <1>1, <1>2, <2>2 DEF Inv, EventsInv
<1>8. Busy'
  BY <1>4 DEF Inv, Busy
<1> QED
  BY <1>6, <1>7, <1>8 DEF Inv

LEMMA OwnersInv == ASSUME Inv, Owners PROVE Inv'
<1>1. /\ TypeOK
      /\ status \in [Offerings -> Statuses \ {"none"}] /\ version \in [Parts -> 0 .. MaxVersion]
      /\ entry \in [Offerings -> {"none", "syncing", "again", "synced", "deleting", "deleted"}]
      /\ mongo \in [Offerings -> Document] /\ elastic \in [Offerings -> Document]
      /\ happened \in SUBSET FaultKinds /\ processed \in SUBSET Nat
      /\ MaxVersion \in Nat
  BY StoreAssumption DEF Inv, TypeOK
<1> USE DEF events, stores, tasks
\* What changes neither the queues nor the tasks.
<1>2. ASSUME status' \in [Offerings -> Statuses \ {"none"}],
             entry' \in [Offerings -> {"none", "syncing", "again", "synced", "deleting", "deleted"}],
             UNCHANGED <<version, events, stores, tasks, happened>>
      PROVE  Inv'
  BY <1>2 DEF Inv, TypeOK, EventsInv, Busy
<1>3. \A o \in Offerings : o \notin Parts
  BY StoreAssumption
<1>4. ASSUME NEW o \in Offerings, Publish(o) \/ Fail(o) PROVE Inv'
  <2>1. /\ status' \in [Offerings -> Statuses \ {"none"}]
        /\ entry' \in [Offerings -> {"none", "syncing", "again", "synced", "deleting", "deleted"}]
    BY <1>1, <1>4 DEF Publish, Fail, Statuses
  <2>2. UNCHANGED <<version, events, stores, tasks, happened>>
    BY <1>4 DEF Publish, Fail
  <2> QED
    BY <1>2, <2>1, <2>2
<1>5. ASSUME NEW o \in Offerings, Confirm(o) PROVE Inv'
  <2>1. status' \in [Offerings -> Statuses \ {"none"}]
    BY <1>1, <1>5 DEF Confirm, Statuses
  <2>2. /\ Issue("OfferingPublished", o)
        /\ UNCHANGED <<entry, version, processed, mongo, elastic, work, disturbed, happened>>
    BY <1>5 DEF Confirm
  <2> QED
    BY <1>1, <1>3, <2>1, <2>2, IssueInv
<1>6. ASSUME NEW o \in Offerings, Retire(o) PROVE Inv'
  <2>1. status' \in [Offerings -> Statuses \ {"none"}]
    BY <1>1, <1>6 DEF Retire, Statuses
  <2>2. /\ Issue("OfferingRetired", o)
        /\ UNCHANGED <<entry, version, processed, mongo, elastic, work, disturbed, happened>>
    BY <1>6 DEF Retire
  <2> QED
    BY <1>1, <1>3, <2>1, <2>2, IssueInv
<1>7. ASSUME NEW p \in Parts, UpdatePart(p) PROVE Inv'
  <2>1. version' \in [Parts -> 0 .. MaxVersion]
    BY <1>1, <1>7 DEF UpdatePart
  <2>2. /\ Issue("Updated", p)
        /\ UNCHANGED <<status, entry, processed, mongo, elastic, work, disturbed, happened>>
    BY <1>7 DEF UpdatePart
  <2> QED
    BY <1>1, <2>1, <2>2, IssueInv
<1>8. ASSUME NEW p \in Parts, DeletePart(p) PROVE Inv'
  <2>1. version' \in [Parts -> 0 .. MaxVersion]
    BY <1>1, <1>8 DEF DeletePart
  <2>2. /\ Issue("Deleted", p)
        /\ UNCHANGED <<status, entry, processed, mongo, elastic, work, disturbed, happened>>
    BY <1>8 DEF DeletePart
  <2> QED
    BY <1>1, <2>1, <2>2, IssueInv
<1>9. "worker" \in Tasks /\ "worker" \notin Topics
  BY DEF Tasks, Topics
<1>10. ASSUME NEW o \in Offerings, CallSync(o) PROVE Inv'
  <2>1. Task("next", {o}, Nobody) \in TaskType
    BY TaskHasType DEF Steps
  <2>2. entry' \in [Offerings -> {"none", "syncing", "again", "synced", "deleting", "deleted"}]
    BY <1>1, <1>10 DEF CallSync
  <2>3. /\ Goes("worker", Task("next", {o}, Nobody))
        /\ UNCHANGED <<status, version, issued, queue, processed, mongo, elastic, happened>>
    BY <1>10 DEF CallSync
  <2> QED
    BY <1>1, <1>9, <2>1, <2>2, <2>3, StepInv
<1>11. ASSUME NEW o \in Offerings, CallDelete(o) PROVE Inv'
  <2>1. Task("remove", {}, o) \in TaskType
    BY TaskHasType DEF Steps
  <2>2. entry' \in [Offerings -> {"none", "syncing", "again", "synced", "deleting", "deleted"}]
    BY <1>1, <1>11 DEF CallDelete
  <2>3. /\ Goes("worker", Task("remove", {}, o))
        /\ UNCHANGED <<status, version, issued, queue, processed, mongo, elastic, happened>>
    BY <1>11 DEF CallDelete
  <2> QED
    BY <1>1, <1>9, <2>1, <2>2, <2>3, StepInv
<1> QED
  BY <1>4, <1>5, <1>6, <1>7, <1>8, <1>10, <1>11 DEF Owners

LEMMA ConsumerInv == ASSUME Inv, NEW t \in Topics, Consumer(t) PROVE Inv'
<1>1. /\ TypeOK /\ EventsInv /\ t \in Tasks
      /\ mongo \in [Offerings -> Document] /\ elastic \in [Offerings -> Document]
      /\ happened \in SUBSET FaultKinds /\ processed \in SUBSET Nat
      /\ entry \in [Offerings -> {"none", "syncing", "again", "synced", "deleting", "deleted"}]
      /\ queue[t] \in Seq(issued)
  BY DEF Inv, TypeOK, Tasks
<1>2. work[t] \in TaskType /\ (work[t].step # "idle" => queue[t] # <<>>)
  BY <1>1, WorkType
<1>3. queue[t] # <<>> => Head(queue[t]) \in issued /\ Head(queue[t]) \in Event
  BY <1>1, HeadTailProperties DEF TypeOK
<1>4. Task("skip", {}, Nobody) \in TaskType /\ Task("skip", {}, Nobody).step = "skip"
  <2>1. Task("skip", {}, Nobody) \in TaskType
    BY TaskHasType DEF Steps
  <2> QED
    BY <2>1 DEF Task
<1>5. Raised(t) \in TaskType /\ Raised(t).step \in {"skip", "next"}
  BY <1>1, RaisedType
<1>6. CASE Begin(t)
  <2> DEFINE e == Head(queue[t])
  <2>1. FirstTask(e) \in TaskType /\ (FirstTask(e).step = "find" => OfAPart(e))
    <3>1. e \in Event /\ (~OfAPart(e) => e.of \in Offerings)
      BY <1>1, <1>3, <1>6 DEF Begin, EventsInv
    <3>2. CASE e.type = "OfferingPublished"
      <4>1. FirstTask(e) = Task("next", {e.of}, Nobody) /\ e.of \in Offerings
        BY <3>1, <3>2 DEF FirstTask, OfAPart
      <4>2. Task("next", {e.of}, Nobody) \in TaskType
        BY <4>1, TaskHasType DEF Steps
      <4> QED
        BY <4>1, <4>2 DEF Task
    <3>3. CASE e.type = "OfferingRetired"
      <4>1. FirstTask(e) = Task("remove", {}, e.of) /\ e.of \in Offerings
        BY <3>1, <3>3 DEF FirstTask, OfAPart
      <4>2. Task("remove", {}, e.of) \in TaskType
        BY <4>1, TaskHasType DEF Steps
      <4> QED
        BY <4>1, <4>2 DEF Task
    <3>4. CASE OfAPart(e)
      <4>1. FirstTask(e) = Task("find", {}, Nobody)
        BY <3>4 DEF FirstTask, OfAPart
      <4>2. Task("find", {}, Nobody) \in TaskType
        BY TaskHasType DEF Steps
      <4> QED
        BY <3>4, <4>1, <4>2
    <3> QED
      BY <3>1, <3>2, <3>3, <3>4 DEF Event, OfAPart
  <2>2. happened' \in SUBSET FaultKinds
    BY <1>1, <1>6, FaultType DEF Begin
  <2>3. PICK task \in TaskType : Goes(t, task) /\ (task.step = "find" => OfAPart(e))
    BY <1>4, <1>5, <1>6, <2>1 DEF Begin
  <2>4. /\ UNCHANGED <<status, version, issued, queue, entry, processed, mongo, elastic>>
        /\ queue[t] # <<>>
    BY <1>6 DEF Begin, sources, events, stores
  <2> QED
    BY <1>1, <2>2, <2>3, <2>4, StepInv
<1>7. CASE FindAffected(t)
  <2>1. \A todo \in SUBSET Offerings :
           Task("next", todo, Nobody) \in TaskType /\ Task("next", todo, Nobody).step = "next"
    <3> SUFFICES ASSUME NEW todo \in SUBSET Offerings
                 PROVE  Task("next", todo, Nobody) \in TaskType /\ Task("next", todo, Nobody).step = "next"
      OBVIOUS
    <3>1. Task("next", todo, Nobody) \in TaskType
      BY TaskHasType DEF Steps
    <3> QED
      BY <3>1 DEF Task
  <2>2. happened' \in SUBSET FaultKinds
    BY <1>1, <1>7, FaultType DEF FindAffected
  <2>3. PICK task \in TaskType : Goes(t, task) /\ task.step \in {"skip", "next"}
    BY <1>5, <1>7, <2>1 DEF FindAffected
  <2>4. /\ UNCHANGED <<status, version, issued, queue, entry, processed, mongo, elastic>>
        /\ work[t].step = "find"
    BY <1>7 DEF FindAffected, sources, events, stores
  <2> QED
    BY <1>1, <1>2, <2>2, <2>3, <2>4, StepInv
<1>8. CASE MarkProcessed(t)
  <2>1. queue[t] # <<>> /\ Goes(t, Task("skip", {}, Nobody))
    BY <1>2, <1>8 DEF MarkProcessed
  <2>2. processed' \in SUBSET Nat
    BY <1>1, <1>3, <1>8, <2>1 DEF MarkProcessed, Event
  <2>3. happened' \in SUBSET FaultKinds
    BY <1>1, <1>8, FaultType DEF MarkProcessed
  <2>4. UNCHANGED <<status, version, issued, queue, entry, mongo, elastic>>
    BY <1>8 DEF MarkProcessed, sources, stores
  <2> QED
    BY <1>1, <1>4, <2>1, <2>2, <2>3, <2>4, StepInv
<1>9. CASE Acknowledge(t)
  <2>1. /\ Goes(t, Idle) /\ queue' = [queue EXCEPT ![t] = Tail(@)] /\ queue[t] # <<>>
        /\ UNCHANGED <<status, version, entry, issued, processed, mongo, elastic, happened>>
    BY <1>2, <1>9 DEF Acknowledge, sources, stores
  <2>2. /\ \A u \in Tasks : work'[u] = IF u = t THEN Idle ELSE work[u]
        /\ work' \in [Tasks -> TaskType] /\ disturbed' \in SUBSET Offerings
    BY <1>1, <2>1, GoesWork, IdleType
  <2>3. queue' \in [Topics -> Seq(issued)]
    BY <1>1, <2>1, HeadTailProperties DEF TypeOK
  <2>4. TypeOK'
    BY <1>1, <2>1, <2>2, <2>3 DEF TypeOK, TaskType
  <2>5. EventsInv'
    BY <1>1, <2>1 DEF EventsInv
  <2>6. Busy'
    <3>1. \A u \in Topics : u # t => queue'[u] = queue[u]
      BY <2>1 DEF Inv, TypeOK
    <3> QED
      BY <2>2, <3>1, IdleType DEF Inv, Busy, Tasks
  <2> QED
    BY <2>4, <2>5, <2>6 DEF Inv
<1> QED
  BY <1>6, <1>7, <1>8, <1>9 DEF Consumer

LEMMA AnswerInv == ASSUME Inv, Answer PROVE Inv'
<1>1. /\ TypeOK /\ "worker" \in Tasks /\ "worker" \notin Topics
      /\ mongo \in [Offerings -> Document] /\ elastic \in [Offerings -> Document]
      /\ happened \in SUBSET FaultKinds /\ processed \in SUBSET Nat
  BY DEF Inv, TypeOK, Tasks, Topics
<1>2. entry' \in [Offerings -> {"none", "syncing", "again", "synced", "deleting", "deleted"}]
  BY <1>1 DEF Answer, Answered, TypeOK
<1>3. /\ Goes("worker", Idle)
      /\ UNCHANGED <<status, version, issued, queue, processed, mongo, elastic, happened>>
  BY DEF Answer, events, stores
<1> QED
  BY <1>1, <1>2, <1>3, IdleType, StepInv

LEMMA PublishAgainInv == ASSUME Inv, NEW e \in issued, PublishAgain(e) PROVE Inv'
<1>1. /\ queue' = [queue EXCEPT ![TopicOf(e.of)] = Append(@, e)]
      /\ UNCHANGED <<status, entry, version, issued, processed, mongo, elastic, work, disturbed>>
  BY DEF PublishAgain, sources, stores, tasks
<1>2. happened' \in SUBSET FaultKinds
  BY FaultType DEF PublishAgain, Inv, TypeOK
<1>3. ASSUME NEW u \in Topics
      PROVE  /\ queue'[u] \in Seq(issued)
             /\ queue[u] # <<>> => queue'[u] # <<>> /\ Head(queue'[u]) = Head(queue[u])
  <2>1. queue[u] \in Seq(issued)
    BY DEF Inv, TypeOK
  <2>2. CASE queue'[u] = Append(queue[u], e)
    <3>1. /\ Append(queue[u], e) \in Seq(issued) /\ Append(queue[u], e) # <<>>
          /\ Len(Append(queue[u], e)) = Len(queue[u]) + 1
          /\ \A i \in 1 .. Len(queue[u]) : Append(queue[u], e)[i] = queue[u][i]
      BY <2>1, AppendProperties
    <3>2. queue[u] # <<>> => 1 \in 1 .. Len(queue[u])
      BY <2>1, EmptySeq
    <3>3. \A s \in Seq(issued) : s # <<>> => Head(s) = s[1]
      OBVIOUS
    <3> QED
      BY <2>1, <2>2, <3>1, <3>2, <3>3
  <2> QED
    BY <1>1, <2>1, <2>2 DEF Inv, TypeOK
<1>4. queue' \in [Topics -> Seq(issued)]
  BY <1>1, <1>3 DEF Inv, TypeOK
<1>5. TypeOK' /\ EventsInv'
  BY <1>1, <1>2, <1>4 DEF Inv, TypeOK, EventsInv
<1>6. Busy'
  BY <1>1, <1>3 DEF Inv, Busy
<1> QED
  BY <1>5, <1>6 DEF Inv

LEMMA CrashInv == ASSUME Inv, Crash PROVE Inv'
<1>1. /\ work' = [t \in Tasks |-> Idle]
      /\ UNCHANGED <<status, version, issued, queue, processed, mongo, elastic, disturbed>>
  BY DEF Crash, events, stores
<1>2. happened' \in SUBSET FaultKinds
  BY FaultType DEF Crash, Inv, TypeOK
<1>3. entry' \in [Offerings -> {"none", "syncing", "again", "synced", "deleting", "deleted"}]
  BY DEF Crash, Inv, TypeOK
<1>4. work' \in [Tasks -> TaskType] /\ \A t \in Topics : work'[t].step = "idle"
  BY <1>1, IdleType DEF Tasks
<1>5. TypeOK' /\ EventsInv'
  BY <1>1, <1>2, <1>3, <1>4 DEF Inv, TypeOK, EventsInv, TaskType
<1>6. Busy'
  BY <1>4 DEF Busy
<1> QED
  BY <1>5, <1>6 DEF Inv

LEMMA NextInv == Inv /\ [Next]_vars => Inv'
<1> SUFFICES ASSUME Inv, [Next]_vars PROVE Inv'
  OBVIOUS
<1>1. CASE UNCHANGED vars
  BY <1>1 DEF vars, sources, events, stores, tasks, Inv, TypeOK, EventsInv, Busy
<1> QED
  BY <1>1, OwnersInv, TaskStepInv, ConsumerInv, AnswerInv, PublishAgainInv, CrashInv DEF Next

LEMMA Invariance == Spec => []Inv
  BY InitInv, NextInv, PTL DEF Spec

\* The variables keep their types, and the worker and the consumers their steps.
THEOREM TypeCorrect == Spec => []TypeOK
<1>1. Inv => TypeOK
  BY DEF Inv
<1> QED
  BY <1>1, Invariance, PTL

------------------------------------------------------------------------------
\* A step of a task that does not take a sync of the offering in hand.
LEMMA GoneKept ==
  ASSUME Inv, NEW o \in Offerings, Gone(o), NEW t \in Tasks, NEW task, Goes(t, task),
         UNCHANGED issued, processed \subseteq processed', status'[o] = status[o],
         mongo'[o] \in {mongo[o], NoDocument}, elastic'[o] \in {elastic[o], NoDocument},
         o \notin task.todo, o = task.on => task.step \in {"remove", "unindex"}
  PROVE  Gone(o)'
<1>1. \A u \in Tasks : work'[u] = IF u = t THEN task ELSE work[u]
  BY GoesWork DEF Inv
<1>2. ASSUME NEW u \in Tasks
      PROVE  o \notin work'[u].todo /\ (o = work'[u].on => work'[u].step \in {"remove", "unindex"})
  BY <1>1 DEF Gone
<1> QED
  BY <1>2 DEF Gone

\* No step of a task but a sync writes a document, and the offering is in no sync.
LEMMA TaskStepKeepsOut ==
  ASSUME Inv, NEW o \in Offerings, Gone(o), NEW t \in Tasks, TaskStep(t) PROVE Gone(o)'
<1>1. /\ o \notin work[t].todo /\ (o = work[t].on => work[t].step \in {"remove", "unindex"})
      /\ work[t] \in TaskType /\ o # Nobody
      /\ mongo \in [Offerings -> Document] /\ elastic \in [Offerings -> Document]
  BY WorkType, StoreAssumption DEF Gone, Inv, TypeOK
<1>2. \A step, todo, on : Task(step, todo, on).todo = todo /\ Task(step, todo, on).on = on
  BY DEF Task
<1>3. o \notin Raised(t).todo /\ o # Raised(t).on
  BY <1>1, <1>2 DEF Raised
<1>4. ASSUME NEW x \in Offerings, FetchOffering(t, x) PROVE Gone(o)'
  <2> DEFINE reads == [step |-> "read", todo |-> work[t].todo \ {x}, on |-> x,
                       doc |-> [NoDocument EXCEPT !.status = status[x]], unread |-> PartsOf[x]]
  <2>1. o # x
    BY <1>1, <1>4 DEF FetchOffering
  <2>2. o \notin reads.todo /\ o # reads.on
    BY <1>1, <2>1
  <2>3. UNCHANGED <<status, issued, processed, mongo, elastic>>
    BY <1>4 DEF FetchOffering, sources, events, stores
  <2>4. PICK task : Goes(t, task) /\ o \notin task.todo /\ o # task.on
    <3> HIDE DEF reads
    <3> QED
      BY <1>1, <1>2, <1>4, <2>2 DEF FetchOffering, reads
  <2> QED
    BY <2>3, <2>4, GoneKept
<1>5. CASE FetchPart(t)
  <2> DEFINE skipped == [work[t] EXCEPT !.unread = Tail(@)]
             shown == [work[t] EXCEPT !.unread = Tail(@),
                                      !.doc.shows[Head(work[t].unread)] = version[Head(work[t].unread)]]
  <2>1. /\ skipped.todo = work[t].todo /\ skipped.on = work[t].on
        /\ shown.todo = work[t].todo /\ shown.on = work[t].on
    BY <1>1 DEF TaskType
  <2>2. /\ UNCHANGED <<status, issued, processed, mongo, elastic>>
        /\ Goes(t, skipped) \/ Goes(t, shown)
    BY <1>5 DEF FetchPart, sources, events, stores
  <2>3. PICK task : Goes(t, task) /\ task.todo = work[t].todo /\ task.on = work[t].on
    <3> HIDE DEF skipped, shown
    <3> QED
      BY <2>1, <2>2
  <2>4. work[t].step = "read"
    BY <1>5 DEF FetchPart
  <2> QED
    BY <1>1, <2>2, <2>3, <2>4, GoneKept
<1>6. CASE WriteMongo(t)
  <2> DEFINE indexing == [work[t] EXCEPT !.step = "index"]
  <2>1. indexing.todo = work[t].todo /\ indexing.on = work[t].on
    BY <1>1 DEF TaskType
  <2>2. UNCHANGED <<status, issued, processed, elastic>> /\ o # work[t].on
    BY <1>1, <1>6 DEF WriteMongo, sources, events
  <2>3. mongo'[o] = mongo[o]
    BY <1>1, <1>6, <2>2 DEF WriteMongo
  <2>4. PICK task : Goes(t, task) /\ o \notin task.todo /\ o # task.on
    <3>1. Goes(t, indexing) \/ Goes(t, Task("next", work[t].todo, Nobody))
      BY <1>6 DEF WriteMongo
    <3> HIDE DEF indexing
    <3> QED
      BY <1>1, <1>2, <2>1, <2>2, <3>1
  <2> QED
    BY <2>2, <2>3, <2>4, GoneKept
<1>7. CASE IndexElastic(t)
  <2>1. UNCHANGED <<status, issued, processed, mongo>> /\ o # work[t].on
    BY <1>1, <1>7 DEF IndexElastic, sources, events
  <2>2. elastic'[o] = elastic[o]
    BY <1>1, <1>7, <2>1 DEF IndexElastic
  <2>3. Goes(t, Task("next", work[t].todo, Nobody))
    BY <1>7 DEF IndexElastic
  <2> QED
    BY <1>1, <1>2, <2>1, <2>2, <2>3, GoneKept
<1>8. CASE RemoveMongo(t)
  <2> DEFINE unindexing == [work[t] EXCEPT !.step = "unindex"]
  <2>1. unindexing.todo = work[t].todo /\ unindexing.on = work[t].on /\ unindexing.step = "unindex"
    BY <1>1 DEF TaskType
  <2>2. UNCHANGED <<status, issued, processed, elastic>>
    BY <1>8 DEF RemoveMongo, sources, events
  <2>3. mongo'[o] \in {mongo[o], NoDocument}
    BY <1>1, <1>8 DEF RemoveMongo
  <2>4. PICK task : /\ Goes(t, task) /\ o \notin task.todo
                    /\ o = task.on => task.step \in {"remove", "unindex"}
    <3> HIDE DEF unindexing
    <3> QED
      BY <1>1, <1>3, <1>8, <2>1 DEF RemoveMongo, unindexing
  <2> QED
    BY <2>2, <2>3, <2>4, GoneKept
<1>9. CASE RemoveElastic(t)
  <2>1. UNCHANGED <<status, issued, processed, mongo>>
    BY <1>9 DEF RemoveElastic, sources, events
  <2>2. elastic'[o] \in {elastic[o], NoDocument}
    BY <1>1, <1>9 DEF RemoveElastic
  <2>3. PICK task : Goes(t, task) /\ o \notin task.todo /\ o # task.on
    BY <1>1, <1>2, <1>3, <1>9 DEF RemoveElastic
  <2> QED
    BY <2>1, <2>2, <2>3, GoneKept
<1> QED
  BY <1>4, <1>5, <1>6, <1>7, <1>8, <1>9 DEF TaskStep

\* A consumer finds its publication marked, and no document of it.
LEMMA ConsumerKeepsOut ==
  ASSUME Inv, NEW o \in Offerings, Gone(o), NEW t \in Topics, Consumer(t) PROVE Gone(o)'
<1>1. /\ t \in Tasks /\ o # Nobody /\ work[t] \in TaskType
      /\ (work[t].step # "idle" => queue[t] # <<>>)
  BY WorkType, StoreAssumption DEF Tasks
<1>2. \A step, todo, on :
         /\ Task(step, todo, on).todo = todo /\ Task(step, todo, on).on = on
         /\ Task(step, todo, on).step = step
  BY DEF Task
<1>3. o \notin Raised(t).todo /\ o # Raised(t).on
  BY <1>1, <1>2 DEF Raised
<1>4. queue[t] # <<>> => Head(queue[t]) \in issued /\ Head(queue[t]) \in Event
  BY HeadTailProperties DEF Inv, TypeOK
<1>5. CASE Begin(t)
  <2> DEFINE e == Head(queue[t])
  <2>1. e.id \notin processed =>
           /\ o \notin FirstTask(e).todo
           /\ o = FirstTask(e).on => FirstTask(e).step \in {"remove", "unindex"}
    <3>1. e \in issued /\ e \in Event
      BY <1>4, <1>5 DEF Begin
    <3>2. CASE e.type = "OfferingPublished"
      <4>1. FirstTask(e) = Task("next", {e.of}, Nobody)
        BY <3>2 DEF FirstTask
      <4>2. e.id \notin processed => e.of # o
        BY <3>1, <3>2 DEF Gone
      <4> QED
        BY <1>1, <1>2, <4>1, <4>2
    <3>3. CASE e.type = "OfferingRetired"
      <4>1. FirstTask(e) = Task("remove", {}, e.of)
        BY <3>3 DEF FirstTask
      <4> QED
        BY <1>2, <4>1
    <3>4. CASE e.type \in {"Updated", "Deleted"}
      <4>1. FirstTask(e) = Task("find", {}, Nobody)
        BY <3>4 DEF FirstTask
      <4> QED
        BY <1>1, <1>2, <4>1
    <3> QED
      BY <3>1, <3>2, <3>3, <3>4 DEF Event
  <2>2. PICK task : /\ Goes(t, task) /\ o \notin task.todo
                    /\ o = task.on => task.step \in {"remove", "unindex"}
    BY <1>1, <1>2, <1>3, <1>5, <2>1 DEF Begin
  <2>3. UNCHANGED <<status, issued, processed, mongo, elastic>>
    BY <1>5 DEF Begin, sources, events, stores
  <2> QED
    BY <1>1, <2>2, <2>3, GoneKept
<1>6. CASE FindAffected(t)
  <2>1. Head(queue[t]).of \in Parts
    <3>1. Head(queue[t]) \in issued /\ OfAPart(Head(queue[t]))
      BY <1>1, <1>4, <1>6 DEF Inv, Busy, FindAffected
    <3> QED
      BY <3>1 DEF Inv, EventsInv
  <2>2. mongo[o].shows[Head(queue[t]).of] = 0
    BY <2>1 DEF Gone, NoDocument
  <2>3. PICK task : Goes(t, task) /\ o \notin task.todo /\ o # task.on
    BY <1>1, <1>2, <1>3, <1>6, <2>2 DEF FindAffected
  <2>4. UNCHANGED <<status, issued, processed, mongo, elastic>>
    BY <1>6 DEF FindAffected, sources, events, stores
  <2> QED
    BY <1>1, <2>3, <2>4, GoneKept
<1>7. CASE MarkProcessed(t)
  <2>1. /\ UNCHANGED <<status, issued, mongo, elastic>> /\ processed \subseteq processed'
        /\ Goes(t, Task("skip", {}, Nobody))
    BY <1>7 DEF MarkProcessed, sources, stores
  <2> QED
    BY <1>1, <1>2, <2>1, GoneKept
<1>8. CASE Acknowledge(t)
  <2>1. UNCHANGED <<status, issued, processed, mongo, elastic>> /\ Goes(t, Task("idle", {}, Nobody))
    BY <1>8 DEF Acknowledge, sources, stores, Idle
  <2> QED
    BY <1>1, <1>2, <2>1, GoneKept
<1> QED
  BY <1>5, <1>6, <1>7, <1>8 DEF Consumer

\* Nobody publishes, confirms or syncs what is retired.
LEMMA OwnersKeepOut ==
  ASSUME Inv, NEW o \in Offerings, Gone(o), Owners PROVE Gone(o)'
<1>1. status[o] = "RETIRED" /\ o \notin Parts /\ o # Nobody /\ "worker" \in Tasks
  BY StoreAssumption DEF Gone, Tasks
<1>2. \A step, todo, on : Task(step, todo, on).todo = todo /\ Task(step, todo, on).on = on
  BY DEF Task
<1>3. ASSUME UNCHANGED <<processed, mongo, elastic, work>>, status'[o] = status[o],
             \A e \in issued' : e \in issued \/ e.of # o \/ e.type # "OfferingPublished"
      PROVE  Gone(o)'
  BY <1>3 DEF Gone
<1>4. ASSUME NEW x, NEW type, Issue(type, x), x # o \/ type # "OfferingPublished"
      PROVE  \A e \in issued' : e \in issued \/ e.of # o \/ e.type # "OfferingPublished"
  BY <1>4 DEF Issue
<1> USE DEF events, stores, tasks
<1>5. ASSUME NEW x \in Offerings, Publish(x) \/ Fail(x) PROVE Gone(o)'
  <2>1. /\ UNCHANGED <<issued, processed, mongo, elastic, work>>
        /\ status'[o] = status[o]
    BY <1>1, <1>5 DEF Publish, Fail, Inv, TypeOK
  <2> QED
    BY <1>3, <2>1
<1>6. ASSUME NEW x \in Offerings, Confirm(x) PROVE Gone(o)'
  <2>1. UNCHANGED <<processed, mongo, elastic, work>> /\ Issue("OfferingPublished", x) /\ x # o
    BY <1>1, <1>6 DEF Confirm
  <2>2. status'[o] = status[o]
    BY <1>6, <2>1 DEF Confirm, Inv, TypeOK
  <2> QED
    BY <1>3, <1>4, <2>1, <2>2
<1>7. ASSUME NEW x \in Offerings, Retire(x) PROVE Gone(o)'
  <2>1. UNCHANGED <<processed, mongo, elastic, work>> /\ Issue("OfferingRetired", x)
    BY <1>7 DEF Retire
  <2>2. status'[o] = status[o]
    BY <1>1, <1>7 DEF Retire, Inv, TypeOK
  <2> QED
    BY <1>3, <1>4, <2>1, <2>2
<1>8. ASSUME NEW p \in Parts, UpdatePart(p) \/ DeletePart(p) PROVE Gone(o)'
  <2>1. /\ UNCHANGED <<status, processed, mongo, elastic, work>>
        /\ Issue("Updated", p) \/ Issue("Deleted", p)
    BY <1>8 DEF UpdatePart, DeletePart
  <2> QED
    BY <1>1, <1>3, <1>4, <2>1
<1>9. ASSUME NEW x \in Offerings, CallSync(x) PROVE Gone(o)'
  <2>1. /\ UNCHANGED <<status, issued, processed, mongo, elastic>>
        /\ Goes("worker", Task("next", {x}, Nobody)) /\ x # o
    BY <1>1, <1>9 DEF CallSync
  <2> QED
    BY <1>1, <1>2, <2>1, GoneKept
<1>10. ASSUME NEW x \in Offerings, CallDelete(x) PROVE Gone(o)'
  <2>1. /\ UNCHANGED <<status, issued, processed, mongo, elastic>>
        /\ Goes("worker", Task("remove", {}, x)) /\ x # o
    BY <1>1, <1>10 DEF CallDelete
  <2> QED
    BY <1>1, <1>2, <2>1, GoneKept
<1> QED
  BY <1>5, <1>6, <1>7, <1>8, <1>9, <1>10 DEF Owners

LEMMA NextKeepsOut ==
  ASSUME Inv, [Next]_vars, NEW o \in Offerings, Gone(o) PROVE Gone(o)'
<1>1. CASE UNCHANGED vars
  BY <1>1 DEF vars, sources, events, stores, tasks, Gone
<1>2. CASE Answer
  <2>1. UNCHANGED <<status, issued, processed, mongo, elastic>> /\ Goes("worker", Task("idle", {}, Nobody))
    BY <1>2 DEF Answer, events, stores, Idle
  <2>2. o # Nobody /\ "worker" \in Tasks
    BY StoreAssumption DEF Tasks
  <2>3. o \notin Task("idle", {}, Nobody).todo /\ o # Task("idle", {}, Nobody).on
    BY <2>2 DEF Task
  <2> QED
    BY <2>1, <2>2, <2>3, GoneKept
<1>3. ASSUME NEW e \in issued, PublishAgain(e) PROVE Gone(o)'
  BY <1>3 DEF PublishAgain, sources, stores, tasks, Gone
<1>4. CASE Crash
  <2>1. /\ UNCHANGED <<status, issued, processed, mongo, elastic>>
        /\ \A t \in Tasks : work'[t] = Task("idle", {}, Nobody)
    BY <1>4 DEF Crash, events, stores, Idle
  <2>2. o \notin Task("idle", {}, Nobody).todo /\ o # Task("idle", {}, Nobody).on
    BY StoreAssumption DEF Task
  <2> QED
    BY <2>1, <2>2 DEF Gone
<1> QED
  BY <1>1, <1>2, <1>3, <1>4, OwnersKeepOut, TaskStepKeepsOut, ConsumerKeepsOut DEF Next

\* A retired offering that has left both stores does not come back: no event of a
\* part, no late or second delivery and no fault makes a sync of it.
THEOREM RetiredOnesStayOut == Spec => RetiredStaysOut
<1>1. Inv /\ [Next]_vars => \A o \in Offerings : Gone(o) => Gone(o)'
  BY NextKeepsOut
<1>2. Inv /\ [Next]_vars => [\A o \in Offerings : Gone(o) => Gone(o)']_vars
  BY <1>1
<1> QED
  BY <1>2, Invariance, PTL DEF Spec, RetiredStaysOut

------------------------------------------------------------------------------
(* What each step does, for the proofs about the contents of the stores.    *)

\* The other tasks stay where they are.
Only(t) == \A u \in Tasks : u # t => work'[u] = work[u]

LEMMA TaskFields ==
  \A step, todo, on : /\ Task(step, todo, on).step = step
                      /\ Task(step, todo, on).todo = todo
                      /\ Task(step, todo, on).on = on
  BY DEF Task

LEMMA FaultHappens == \A kind : Fault(kind) => kind \in happened'
  BY DEF Fault

LEMMA FetchOfferingEffect ==
  ASSUME Inv, NEW t \in Tasks, NEW o \in Offerings, FetchOffering(t, o)
  PROVE  /\ work[t].step = "next" /\ o \in work[t].todo /\ Only(t)
         /\ UNCHANGED <<status, entry, version, issued, queue, processed, mongo, elastic>>
         /\ \/ /\ work'[t].step = "read" /\ work'[t].todo = work[t].todo \ {o} /\ work'[t].on = o
               /\ work'[t].doc = [NoDocument EXCEPT !.status = status[o]]
               /\ work'[t].unread = PartsOf[o]
               /\ UNCHANGED happened
            \/ work'[t] = Task("next", work[t].todo \ {o}, Nobody) /\ "fetch" \in happened'
<1> DEFINE reads == [step |-> "read", todo |-> work[t].todo \ {o}, on |-> o,
                     doc |-> [NoDocument EXCEPT !.status = status[o]], unread |-> PartsOf[o]]
<1>1. /\ reads.step = "read" /\ reads.todo = work[t].todo \ {o} /\ reads.on = o
      /\ reads.doc = [NoDocument EXCEPT !.status = status[o]] /\ reads.unread = PartsOf[o]
  OBVIOUS
<1>2. /\ Goes(t, reads) => work'[t] = reads /\ Only(t)
      /\ Goes(t, Task("next", work[t].todo \ {o}, Nobody)) =>
            work'[t] = Task("next", work[t].todo \ {o}, Nobody) /\ Only(t)
  <2> HIDE DEF reads
  <2> QED
    BY GoesWork DEF Inv, Only
<1>3. /\ work[t].step = "next" /\ o \in work[t].todo
      /\ UNCHANGED <<status, entry, version, issued, queue, processed, mongo, elastic>>
  BY DEF FetchOffering, sources, events, stores
<1>4. \/ Goes(t, reads) /\ UNCHANGED happened
      \/ Fault("fetch") /\ Goes(t, Task("next", work[t].todo \ {o}, Nobody))
  BY DEF FetchOffering
<1> HIDE DEF reads
<1> QED
  BY <1>1, <1>2, <1>3, <1>4, FaultHappens

LEMMA FetchPartEffect ==
  ASSUME Inv, NEW t \in Tasks, FetchPart(t)
  PROVE  LET p == Head(work[t].unread) IN
         /\ work[t].step = "read" /\ work[t].unread # <<>> /\ Only(t)
         /\ UNCHANGED <<status, entry, version, issued, queue, processed, mongo, elastic>>
         /\ work'[t].step = "read" /\ work'[t].todo = work[t].todo /\ work'[t].on = work[t].on
         /\ work'[t].unread = Tail(work[t].unread)
         /\ work'[t].doc.status = work[t].doc.status
         /\ \/ /\ Answers(p) /\ UNCHANGED happened
               /\ work'[t].doc.shows = [work[t].doc.shows EXCEPT ![p] = version[p]]
            \/ /\ work'[t].doc.shows = work[t].doc.shows
               /\ IF Answers(p) THEN "part" \in happened' ELSE UNCHANGED happened
<1> DEFINE p == Head(work[t].unread)
           skipped == [work[t] EXCEPT !.unread = Tail(@)]
           shown == [work[t] EXCEPT !.unread = Tail(@), !.doc.shows[p] = version[p]]
<1>1. work[t] \in TaskType /\ work[t].doc \in Document
  BY WorkType
<1>2. /\ skipped.step = work[t].step /\ skipped.todo = work[t].todo /\ skipped.on = work[t].on
      /\ skipped.unread = Tail(work[t].unread) /\ skipped.doc = work[t].doc
  BY <1>1 DEF TaskType
<1>3. /\ shown.step = work[t].step /\ shown.todo = work[t].todo /\ shown.on = work[t].on
      /\ shown.unread = Tail(work[t].unread) /\ shown.doc.status = work[t].doc.status
      /\ shown.doc.shows = [work[t].doc.shows EXCEPT ![p] = version[p]]
  BY <1>1 DEF TaskType, Document
<1>4. /\ Goes(t, skipped) => work'[t] = skipped /\ Only(t)
      /\ Goes(t, shown) => work'[t] = shown /\ Only(t)
  <2> HIDE DEF skipped, shown
  <2> QED
    BY GoesWork DEF Inv, Only
<1>5. /\ work[t].step = "read" /\ work[t].unread # <<>>
      /\ UNCHANGED <<status, entry, version, issued, queue, processed, mongo, elastic>>
  BY DEF FetchPart, sources, events, stores
<1>6. \/ Answers(p) /\ Goes(t, shown) /\ UNCHANGED happened
      \/ Goes(t, skipped) /\ IF Answers(p) THEN Fault("part") ELSE UNCHANGED happened
  BY DEF FetchPart
<1> HIDE DEF skipped, shown
<1> QED
  BY <1>2, <1>3, <1>4, <1>5, <1>6, FaultHappens

LEMMA WriteMongoEffect ==
  ASSUME Inv, NEW t \in Tasks, WriteMongo(t)
  PROVE  /\ work[t].step = "read" /\ work[t].unread = <<>> /\ Only(t)
         /\ UNCHANGED <<status, entry, version, issued, queue, processed, elastic>>
         /\ \/ /\ mongo' = [mongo EXCEPT ![work[t].on] = work[t].doc]
               /\ work'[t].step = "index" /\ work'[t].todo = work[t].todo
               /\ work'[t].on = work[t].on /\ work'[t].doc = work[t].doc
               /\ UNCHANGED happened
            \/ /\ work'[t] = Task("next", work[t].todo, Nobody)
               /\ UNCHANGED mongo /\ "mongo" \in happened'
<1> DEFINE indexing == [work[t] EXCEPT !.step = "index"]
<1>1. /\ indexing.step = "index" /\ indexing.todo = work[t].todo
      /\ indexing.on = work[t].on /\ indexing.doc = work[t].doc
  BY WorkType DEF TaskType
<1>2. /\ Goes(t, indexing) => work'[t] = indexing /\ Only(t)
      /\ Goes(t, Task("next", work[t].todo, Nobody)) =>
            work'[t] = Task("next", work[t].todo, Nobody) /\ Only(t)
  <2> HIDE DEF indexing
  <2> QED
    BY GoesWork DEF Inv, Only
<1>3. /\ work[t].step = "read" /\ work[t].unread = <<>>
      /\ UNCHANGED <<status, entry, version, issued, queue, processed, elastic>>
  BY DEF WriteMongo, sources, events
<1>4. \/ /\ mongo' = [mongo EXCEPT ![work[t].on] = work[t].doc]
         /\ Goes(t, indexing) /\ UNCHANGED happened
      \/ Fault("mongo") /\ Goes(t, Task("next", work[t].todo, Nobody)) /\ UNCHANGED mongo
  BY DEF WriteMongo
<1> HIDE DEF indexing
<1> QED
  BY <1>1, <1>2, <1>3, <1>4, FaultHappens

LEMMA IndexElasticEffect ==
  ASSUME Inv, NEW t \in Tasks, IndexElastic(t)
  PROVE  /\ work[t].step = "index" /\ Only(t)
         /\ UNCHANGED <<status, entry, version, issued, queue, processed, mongo>>
         /\ work'[t] = Task("next", work[t].todo, Nobody)
         /\ \/ elastic' = [elastic EXCEPT ![work[t].on] = work[t].doc] /\ UNCHANGED happened
            \/ UNCHANGED elastic /\ "elastic" \in happened'
<1>1. Goes(t, Task("next", work[t].todo, Nobody))
  BY DEF IndexElastic
<1>2. work'[t] = Task("next", work[t].todo, Nobody) /\ Only(t)
  BY <1>1, GoesWork DEF Inv, Only
<1> QED
  BY <1>2, FaultHappens DEF IndexElastic, sources, events

LEMMA RemoveMongoEffect ==
  ASSUME Inv, NEW t \in Tasks, RemoveMongo(t)
  PROVE  /\ work[t].step = "remove" /\ Only(t)
         /\ UNCHANGED <<status, entry, version, issued, queue, processed, elastic>>
         /\ \/ /\ mongo' = [mongo EXCEPT ![work[t].on] = NoDocument]
               /\ work'[t].step = "unindex" /\ work'[t].todo = work[t].todo
               /\ work'[t].on = work[t].on
               /\ UNCHANGED happened
            \/ /\ work'[t] = Raised(t)
               /\ UNCHANGED mongo /\ "mongo" \in happened'
<1> DEFINE unindexing == [work[t] EXCEPT !.step = "unindex"]
<1>1. /\ unindexing.step = "unindex" /\ unindexing.todo = work[t].todo
      /\ unindexing.on = work[t].on
  BY WorkType DEF TaskType
<1>2. /\ Goes(t, unindexing) => work'[t] = unindexing /\ Only(t)
      /\ Goes(t, Raised(t)) => work'[t] = Raised(t) /\ Only(t)
  <2> HIDE DEF unindexing
  <2> QED
    BY GoesWork DEF Inv, Only
<1>3. /\ work[t].step = "remove"
      /\ UNCHANGED <<status, entry, version, issued, queue, processed, elastic>>
  BY DEF RemoveMongo, sources, events
<1>4. \/ /\ mongo' = [mongo EXCEPT ![work[t].on] = NoDocument]
         /\ Goes(t, unindexing) /\ UNCHANGED happened
      \/ Fault("mongo") /\ Goes(t, Raised(t)) /\ UNCHANGED mongo
  BY DEF RemoveMongo
<1> HIDE DEF unindexing
<1> QED
  BY <1>1, <1>2, <1>3, <1>4, FaultHappens

LEMMA RemoveElasticEffect ==
  ASSUME Inv, NEW t \in Tasks, RemoveElastic(t)
  PROVE  /\ work[t].step = "unindex" /\ Only(t)
         /\ UNCHANGED <<status, entry, version, issued, queue, processed, mongo>>
         /\ \/ /\ elastic' = [elastic EXCEPT ![work[t].on] = NoDocument]
               /\ work'[t] = Task("next", {}, Nobody) /\ UNCHANGED happened
            \/ UNCHANGED elastic /\ work'[t] = Raised(t) /\ "elastic" \in happened'
<1>1. /\ Goes(t, Task("next", {}, Nobody)) => work'[t] = Task("next", {}, Nobody) /\ Only(t)
      /\ Goes(t, Raised(t)) => work'[t] = Raised(t) /\ Only(t)
  BY GoesWork DEF Inv, Only
<1>2. /\ work[t].step = "unindex"
      /\ UNCHANGED <<status, entry, version, issued, queue, processed, mongo>>
  BY DEF RemoveElastic, sources, events
<1>3. \/ /\ elastic' = [elastic EXCEPT ![work[t].on] = NoDocument]
         /\ Goes(t, Task("next", {}, Nobody)) /\ UNCHANGED happened
      \/ Fault("elastic") /\ Goes(t, Raised(t)) /\ UNCHANGED elastic
  BY DEF RemoveElastic
<1> QED
  BY <1>1, <1>2, <1>3, FaultHappens

LEMMA BeginEffect ==
  ASSUME Inv, NEW t \in Topics, Begin(t)
  PROVE  /\ t \in Tasks /\ work[t] = Idle /\ queue[t] # <<>> /\ Only(t)
         /\ UNCHANGED <<status, entry, version, issued, queue, processed, mongo, elastic>>
         /\ \/ Head(queue[t]).id \in processed /\ work'[t] = Task("skip", {}, Nobody) /\ UNCHANGED happened
            \/ Head(queue[t]).id \notin processed /\ work'[t] = FirstTask(Head(queue[t])) /\ UNCHANGED happened
            \/ work'[t] = Raised(t) /\ "mongo" \in happened'
<1>1. t \in Tasks
  BY DEF Tasks
<1>2. \A task : Goes(t, task) => work'[t] = task /\ Only(t)
  BY <1>1, GoesWork DEF Inv, Only
<1>3. /\ work[t] = Idle /\ queue[t] # <<>>
      /\ UNCHANGED <<status, entry, version, issued, queue, processed, mongo, elastic>>
  BY DEF Begin, sources, events, stores
<1>4. \/ Head(queue[t]).id \in processed /\ Goes(t, Task("skip", {}, Nobody)) /\ UNCHANGED happened
      \/ Head(queue[t]).id \notin processed /\ Goes(t, FirstTask(Head(queue[t]))) /\ UNCHANGED happened
      \/ Fault("mongo") /\ Goes(t, Raised(t))
  BY DEF Begin
<1> QED
  BY <1>1, <1>2, <1>3, <1>4, FaultHappens

LEMMA FindAffectedEffect ==
  ASSUME Inv, NEW t \in Topics, FindAffected(t)
  PROVE  /\ t \in Tasks /\ work[t].step = "find" /\ queue[t] # <<>> /\ Only(t)
         /\ UNCHANGED <<status, entry, version, issued, queue, processed, mongo, elastic>>
         /\ \/ /\ work'[t] = Task("next", {o \in Offerings : mongo[o].shows[Head(queue[t]).of] # 0}, Nobody)
               /\ UNCHANGED happened
            \/ work'[t] = Raised(t) /\ "mongo" \in happened'
<1> DEFINE found == Task("next", {o \in Offerings : mongo[o].shows[Head(queue[t]).of] # 0}, Nobody)
<1>1. t \in Tasks
  BY DEF Tasks
<1>2. \A task : Goes(t, task) => work'[t] = task /\ Only(t)
  BY <1>1, GoesWork DEF Inv, Only
<1>3. /\ work[t].step = "find" /\ queue[t] # <<>>
      /\ UNCHANGED <<status, entry, version, issued, queue, processed, mongo, elastic>>
  BY <1>1, WorkType DEF FindAffected, sources, events, stores
<1>4. \/ Goes(t, found) /\ UNCHANGED happened
      \/ Fault("mongo") /\ Goes(t, Raised(t))
  BY DEF FindAffected
<1>5. \/ work'[t] = found /\ Only(t) /\ UNCHANGED happened
      \/ work'[t] = Raised(t) /\ Only(t) /\ "mongo" \in happened'
  <2> HIDE DEF found
  <2> QED
    BY <1>2, <1>4, FaultHappens
<1> QED
  BY <1>1, <1>3, <1>5

LEMMA MarkProcessedEffect ==
  ASSUME Inv, NEW t \in Topics, MarkProcessed(t)
  PROVE  /\ t \in Tasks /\ work[t].step = "next" /\ work[t].todo = {} /\ queue[t] # <<>> /\ Only(t)
         /\ UNCHANGED <<status, entry, version, issued, queue, mongo, elastic>>
         /\ work'[t] = Task("skip", {}, Nobody)
         /\ \/ processed' = processed \union {Head(queue[t]).id} /\ UNCHANGED happened
            \/ processed' = processed /\ "mongo" \in happened'
<1>1. t \in Tasks
  BY DEF Tasks
<1>2. /\ work[t].step = "next" /\ work[t].todo = {} /\ queue[t] # <<>>
      /\ UNCHANGED <<status, entry, version, issued, queue, mongo, elastic>>
  BY <1>1, WorkType DEF MarkProcessed, sources, stores
<1>3. work'[t] = Task("skip", {}, Nobody) /\ Only(t)
  BY <1>1, GoesWork DEF Inv, Only, MarkProcessed
<1> QED
  BY <1>1, <1>2, <1>3, FaultHappens DEF MarkProcessed

LEMMA AcknowledgeEffect ==
  ASSUME Inv, NEW t \in Topics, Acknowledge(t)
  PROVE  /\ t \in Tasks /\ work[t].step = "skip" /\ queue[t] # <<>> /\ Only(t)
         /\ UNCHANGED <<status, entry, version, issued, processed, mongo, elastic, happened>>
         /\ queue'[t] = Tail(queue[t]) /\ \A u \in Topics : u # t => queue'[u] = queue[u]
         /\ work'[t] = Idle
<1>1. t \in Tasks
  BY DEF Tasks
<1>2. /\ work[t].step = "skip" /\ queue[t] # <<>>
      /\ UNCHANGED <<status, entry, version, issued, processed, mongo, elastic, happened>>
  BY <1>1, WorkType DEF Acknowledge, sources, stores
<1>3. work'[t] = Idle /\ Only(t)
  BY <1>1, GoesWork DEF Inv, Only, Acknowledge
<1>4. queue'[t] = Tail(queue[t]) /\ \A u \in Topics : u # t => queue'[u] = queue[u]
  BY DEF Acknowledge, Inv, TypeOK
<1> QED
  BY <1>1, <1>2, <1>3, <1>4

------------------------------------------------------------------------------
(* What a task has in hand.                                                *)

\* Event e is put at the end of the queue of its topic.
Adds(e) == queue' = [queue EXCEPT ![TopicOf(e.of)] = Append(@, e)]

LEMMA TopicOfType == \A x : TopicOf(x) \in Topics
  BY DEF TopicOf, Topics

LEMMA QueueType ==
  ASSUME Inv, NEW t \in Topics
  PROVE  /\ queue[t] \in Seq(issued) /\ Len(queue[t]) \in Nat /\ DOMAIN queue[t] = 1 .. Len(queue[t])
         /\ \A i \in 1 .. Len(queue[t]) : queue[t][i] \in issued
         /\ queue[t] # <<>> => 1 \in 1 .. Len(queue[t]) /\ Head(queue[t]) = queue[t][1]
<1>1. queue[t] \in Seq(issued)
  BY DEF Inv, TypeOK
<1>2. queue[t] # <<>> => Len(queue[t]) \in Nat \ {0}
  BY <1>1, EmptySeq
<1>3. \A s \in Seq(issued) : s # <<>> => Head(s) = s[1]
  OBVIOUS
<1> QED
  BY <1>1, <1>2, <1>3, LenProperties, ElementOfSeq

LEMMA IssuedType ==
  ASSUME Inv, NEW e \in issued
  PROVE  /\ e \in Event /\ e.id \in Nat
         /\ e.type \in {"OfferingPublished", "OfferingRetired", "Updated", "Deleted"}
         /\ e.of \in Offerings \union Parts
  BY DEF Inv, TypeOK, Event

\* An event that is added to its queue goes behind the others.
LEMMA AddsEffect ==
  ASSUME Inv, NEW e \in issued', issued \subseteq issued', Adds(e), NEW t \in Topics
  PROVE  /\ t # TopicOf(e.of) => queue'[t] = queue[t]
         /\ t = TopicOf(e.of) => /\ Len(queue'[t]) = Len(queue[t]) + 1
                                 /\ queue'[t][Len(queue[t]) + 1] = e
         /\ \A i \in 1 .. Len(queue[t]) : queue'[t][i] = queue[t][i]
         /\ queue[t] # <<>> => queue'[t] # <<>> /\ Head(queue'[t]) = Head(queue[t])
<1>1. /\ queue[t] \in Seq(issued') /\ Len(queue[t]) \in Nat
      /\ (queue[t] # <<>> => 1 \in 1 .. Len(queue[t]) /\ Head(queue[t]) = queue[t][1])
  BY QueueType, SeqMonotonic
<1>2. CASE t # TopicOf(e.of)
  <2>1. queue'[t] = queue[t]
    BY <1>2 DEF Adds, Inv, TypeOK
  <2> QED
    BY <1>2, <2>1
<1>3. CASE t = TopicOf(e.of)
  <2>1. queue'[t] = Append(queue[t], e)
    BY <1>3 DEF Adds, Inv, TypeOK
  <2>2. /\ Append(queue[t], e) \in Seq(issued') /\ Append(queue[t], e) # <<>>
        /\ Len(Append(queue[t], e)) = Len(queue[t]) + 1
        /\ Append(queue[t], e)[Len(queue[t]) + 1] = e
        /\ \A i \in 1 .. Len(queue[t]) : Append(queue[t], e)[i] = queue[t][i]
    BY <1>1, AppendProperties
  <2>3. \A s \in Seq(issued') : s # <<>> => Head(s) = s[1]
    OBVIOUS
  <2> QED
    BY <1>1, <1>3, <2>1, <2>2, <2>3
<1> QED
  BY <1>2, <1>3

\* The event that Issue adds.
LEMMA IssueEffect ==
  ASSUME Inv, NEW x, NEW type, Issue(type, x)
  PROVE  \E e \in issued' : /\ e.id = Cardinality(issued) + 1 /\ e.type = type /\ e.of = x
                            /\ issued' = issued \union {e} /\ Adds(e)
<1> DEFINE e == [id |-> Cardinality(issued) + 1, type |-> type, of |-> x]
<1>1. issued' = issued \union {e} /\ queue' = [queue EXCEPT ![TopicOf(x)] = Append(@, e)]
  BY DEF Issue
<1>2. e.id = Cardinality(issued) + 1 /\ e.type = type /\ e.of = x
  OBVIOUS
<1>3. Adds(e)
  BY <1>1, <1>2 DEF Adds
<1> HIDE DEF e
<1> QED
  BY <1>1, <1>2, <1>3

\* A task at a step, with e at the head of its queue: what it has in hand.
AtHand(t, task, e) ==
    /\ task.step = "idle" => task = Idle
    /\ task.step \in {"find", "remove", "unindex", "skip"} => task.todo = {}
    /\ task.step \in {"find", "next", "skip"} => task.on = Nobody
    /\ task.step \in {"read", "index", "remove", "unindex"} => task.on \in Offerings
    /\ t \in Topics /\ task.step \in {"remove", "unindex"} =>
          e.type = "OfferingRetired" /\ e.of = task.on
    /\ t \notin Topics => task.step \notin {"find", "skip"}

\* What every task has in hand fits the event that it handles.
Hands == \A t \in Tasks : AtHand(t, work[t], Head(queue[t]))

\* No two tasks touch an offering that is not disturbed.
OneTask ==
    \A o \in Offerings \ disturbed : \A t, u \in Tasks :
        o \in Touched(work, t) /\ o \in Touched(work, u) => t = u

LEMMA SimpleHands ==
  /\ \A t \in Tasks : \A e : AtHand(t, Idle, e) /\ AtHand(t, Raised(t), e)
  /\ \A t \in Tasks : \A e, todo : AtHand(t, Task("next", todo, Nobody), e)
  /\ \A t \in Topics : \A e : AtHand(t, Task("skip", {}, Nobody), e)
<1>1. /\ \A t \in Tasks : \A e : AtHand(t, Idle, e)
      /\ \A t \in Tasks : \A e, todo : AtHand(t, Task("next", todo, Nobody), e)
      /\ \A t \in Topics : \A e : AtHand(t, Task("skip", {}, Nobody), e)
  BY DEF AtHand, Idle, Task
<1>2. \A t \in Tasks : \A e : AtHand(t, Raised(t), e)
  BY <1>1 DEF Raised
<1> QED
  BY <1>1, <1>2

LEMMA TaskStepHands ==
  ASSUME Inv, Hands, NEW t \in Tasks, TaskStep(t)
  PROVE  AtHand(t, work'[t], Head(queue[t])) /\ Only(t) /\ UNCHANGED queue
<1>1. AtHand(t, work[t], Head(queue[t]))
  BY DEF Hands
<1>2. /\ AtHand(t, Raised(t), Head(queue[t]))
      /\ \A todo : AtHand(t, Task("next", todo, Nobody), Head(queue[t]))
  BY SimpleHands
<1>3. ASSUME NEW o \in Offerings, FetchOffering(t, o)
      PROVE  AtHand(t, work'[t], Head(queue[t])) /\ Only(t) /\ UNCHANGED queue
  <2>1. /\ Only(t) /\ UNCHANGED queue
        /\ \/ work'[t].step = "read" /\ work'[t].on = o
           \/ work'[t] = Task("next", work[t].todo \ {o}, Nobody)
    BY <1>3, FetchOfferingEffect
  <2>2. work'[t].step = "read" /\ work'[t].on = o => AtHand(t, work'[t], Head(queue[t]))
    BY DEF AtHand
  <2> QED
    BY <1>2, <2>1, <2>2
<1>4. CASE FetchPart(t)
  <2>1. /\ work[t].step = "read" /\ work'[t].step = "read" /\ work'[t].on = work[t].on
        /\ Only(t) /\ UNCHANGED queue
    BY <1>4, FetchPartEffect
  <2> QED
    BY <1>1, <2>1 DEF AtHand
<1>5. CASE WriteMongo(t)
  <2>1. CASE work'[t].step = "index" /\ work'[t].on = work[t].on
    <3>1. work[t].step = "read"
      BY <1>5 DEF WriteMongo
    <3>2. AtHand(t, work'[t], Head(queue[t]))
      BY <1>1, <2>1, <3>1 DEF AtHand
    <3> QED
      BY <1>5, <3>2, WriteMongoEffect
  <2> QED
    BY <1>2, <1>5, <2>1, WriteMongoEffect
<1>6. CASE IndexElastic(t)
  BY <1>2, <1>6, IndexElasticEffect
<1>7. CASE RemoveMongo(t)
  <2>1. CASE work'[t].step = "unindex" /\ work'[t].on = work[t].on /\ work'[t].todo = work[t].todo
    <3>1. work[t].step = "remove"
      BY <1>7 DEF RemoveMongo
    <3>2. AtHand(t, work'[t], Head(queue[t]))
      BY <1>1, <2>1, <3>1 DEF AtHand
    <3> QED
      BY <1>7, <3>2, RemoveMongoEffect
  <2> QED
    BY <1>2, <1>7, <2>1, RemoveMongoEffect
<1>8. CASE RemoveElastic(t)
  BY <1>2, <1>8, RemoveElasticEffect
<1> QED
  BY <1>3, <1>4, <1>5, <1>6, <1>7, <1>8 DEF TaskStep

LEMMA OwnersHands == ASSUME Inv, Hands, Owners PROVE Hands'
<1>1. "worker" \in Tasks /\ "worker" \notin Topics /\ Topics \subseteq Tasks
  BY DEF Tasks, Topics
<1>2. ASSUME UNCHANGED work, NEW x, NEW type, Issue(type, x) PROVE Hands'
  <2>1. PICK e \in issued' : issued' = issued \union {e} /\ Adds(e)
    BY <1>2, IssueEffect
  <2>2. \A t \in Topics : queue[t] # <<>> => Head(queue'[t]) = Head(queue[t])
    BY <2>1, AddsEffect
  <2>3. \A t \in Topics : work[t].step \in {"remove", "unindex"} => queue[t] # <<>>
    BY <1>1, WorkType
  <2>4. ASSUME NEW t \in Tasks PROVE AtHand(t, work[t], Head(queue'[t]))
    BY <2>2, <2>3 DEF Hands, AtHand
  <2> QED
    BY <1>2, <2>4 DEF Hands
<1>3. ASSUME UNCHANGED queue, Only("worker"), AtHand("worker", work'["worker"], Head(queue["worker"]))
      PROVE  Hands'
  BY <1>1, <1>3 DEF Hands, Only
<1> USE DEF events, stores, tasks
<1>4. ASSUME NEW o \in Offerings, Publish(o) \/ Fail(o) PROVE Hands'
  BY <1>4 DEF Publish, Fail, Hands
<1>5. ASSUME NEW o \in Offerings, Confirm(o) PROVE Hands'
  BY <1>2, <1>5 DEF Confirm
<1>6. ASSUME NEW o \in Offerings, Retire(o) PROVE Hands'
  BY <1>2, <1>6 DEF Retire
<1>7. ASSUME NEW p \in Parts, UpdatePart(p) PROVE Hands'
  BY <1>2, <1>7 DEF UpdatePart
<1>8. ASSUME NEW p \in Parts, DeletePart(p) PROVE Hands'
  BY <1>2, <1>8 DEF DeletePart
<1>9. ASSUME NEW o \in Offerings, CallSync(o) PROVE Hands'
  <2>1. work'["worker"] = Task("next", {o}, Nobody) /\ Only("worker") /\ UNCHANGED queue
    BY <1>1, <1>9, GoesWork DEF CallSync, Inv, Only
  <2> QED
    BY <1>1, <1>3, <2>1, SimpleHands
<1>10. ASSUME NEW o \in Offerings, CallDelete(o) PROVE Hands'
  <2>1. work'["worker"] = Task("remove", {}, o) /\ Only("worker") /\ UNCHANGED queue
    BY <1>1, <1>10, GoesWork DEF CallDelete, Inv, Only
  <2>2. AtHand("worker", Task("remove", {}, o), Head(queue["worker"]))
    BY <1>1, TaskFields DEF AtHand
  <2> QED
    BY <1>3, <2>1, <2>2
<1> QED
  BY <1>4, <1>5, <1>6, <1>7, <1>8, <1>9, <1>10 DEF Owners

LEMMA FirstHands ==
  ASSUME Inv, NEW t \in Topics, queue[t] # <<>>
  PROVE  AtHand(t, FirstTask(Head(queue[t])), Head(queue[t]))
<1> DEFINE e == Head(queue[t])
<1>1. e \in issued /\ e.type \in {"OfferingPublished", "OfferingRetired", "Updated", "Deleted"}
  BY QueueType, IssuedType
<1>2. ~OfAPart(e) => e.of \in Offerings
  BY <1>1 DEF Inv, EventsInv
<1> HIDE DEF e
<1>3. CASE e.type = "OfferingPublished"
  <2>1. FirstTask(e) = Task("next", {e.of}, Nobody) /\ t \in Tasks
    BY <1>3 DEF FirstTask, Tasks
  <2> QED
    BY <2>1, SimpleHands DEF e
<1>4. CASE e.type = "OfferingRetired"
  <2>1. FirstTask(e) = Task("remove", {}, e.of)
    BY <1>4 DEF FirstTask
  <2>2. e.of \in Offerings
    BY <1>2, <1>4 DEF OfAPart
  <2>3. AtHand(t, Task("remove", {}, e.of), e)
    BY <1>4, <2>2, TaskFields DEF AtHand
  <2> QED
    BY <2>1, <2>3 DEF e
<1>5. CASE e.type \in {"Updated", "Deleted"}
  <2>1. FirstTask(e) = Task("find", {}, Nobody)
    BY <1>5 DEF FirstTask
  <2>2. AtHand(t, Task("find", {}, Nobody), e)
    BY TaskFields DEF AtHand
  <2> QED
    BY <2>1, <2>2 DEF e
<1> QED
  BY <1>1, <1>3, <1>4, <1>5

LEMMA ConsumerHands ==
  ASSUME Inv, Hands, NEW t \in Topics, Consumer(t) PROVE Hands'
<1>1. t \in Tasks
  BY DEF Tasks
<1>2. ASSUME UNCHANGED queue, Only(t), AtHand(t, work'[t], Head(queue[t])) PROVE Hands'
  BY <1>1, <1>2 DEF Hands, Only
<1>3. CASE Begin(t)
  BY <1>1, <1>2, <1>3, BeginEffect, SimpleHands, FirstHands
<1>4. CASE FindAffected(t)
  BY <1>1, <1>2, <1>4, FindAffectedEffect, SimpleHands
<1>5. CASE MarkProcessed(t)
  BY <1>2, <1>5, MarkProcessedEffect, SimpleHands
<1>6. CASE Acknowledge(t)
  <2>1. work'[t] = Idle /\ Only(t) /\ \A u \in Topics : u # t => queue'[u] = queue[u]
    BY <1>6, AcknowledgeEffect
  <2>2. ASSUME NEW u \in Tasks PROVE AtHand(u, work'[u], Head(queue'[u]))
    <3>1. CASE u = t
      BY <1>1, <2>1, <3>1, SimpleHands
    <3>2. CASE u # t
      BY <2>1, <3>2 DEF Hands, AtHand, Only
    <3> QED
      BY <3>1, <3>2
  <2> QED
    BY <2>2 DEF Hands
<1> QED
  BY <1>3, <1>4, <1>5, <1>6 DEF Consumer

LEMMA NextHands == ASSUME Inv, Hands, [Next]_vars PROVE Hands'
<1>1. CASE UNCHANGED vars
  BY <1>1 DEF vars, events, tasks, Hands
<1>2. ASSUME NEW t \in Tasks, TaskStep(t) PROVE Hands'
  BY <1>2, TaskStepHands DEF Hands, Only
<1>3. CASE Answer
  <2>1. "worker" \in Tasks /\ Goes("worker", Idle) /\ UNCHANGED queue
    BY <1>3 DEF Answer, events, Tasks
  <2>2. work'["worker"] = Idle /\ Only("worker")
    BY <2>1, GoesWork DEF Inv, Only
  <2> QED
    BY <2>1, <2>2, SimpleHands DEF Hands, Only
<1>4. ASSUME NEW e \in issued, PublishAgain(e) PROVE Hands'
  <2>1. e \in issued' /\ issued \subseteq issued' /\ Adds(e) /\ UNCHANGED work
    BY <1>4 DEF PublishAgain, tasks, Adds
  <2>2. \A t \in Topics : queue[t] # <<>> => Head(queue'[t]) = Head(queue[t])
    BY <2>1, AddsEffect
  <2>3. \A t \in Topics : work[t].step \in {"remove", "unindex"} => queue[t] # <<>>
    BY WorkType DEF Tasks
  <2>4. ASSUME NEW t \in Tasks PROVE AtHand(t, work[t], Head(queue'[t]))
    BY <2>2, <2>3 DEF Hands, AtHand
  <2> QED
    BY <2>1, <2>4 DEF Hands
<1>5. CASE Crash
  <2>1. \A t \in Tasks : work'[t] = Idle
    BY <1>5 DEF Crash
  <2> QED
    BY <2>1, SimpleHands DEF Hands
<1> QED
  BY <1>1, <1>2, <1>3, <1>4, <1>5, OwnersHands, ConsumerHands DEF Next

------------------------------------------------------------------------------
(* An offering that is not disturbed is in the hands of one task.          *)

LEMMA TwoAreMany ==
  ASSUME NEW S, S \subseteq Tasks, NEW u \in S, NEW v \in S, u # v
  PROVE  Cardinality(S) > 1
<1>1. IsFiniteSet(Tasks)
  <2>1. Tasks = {} \union {"characteristic"} \union {"specification"} \union {"price"}
                   \union {"offering"} \union {"worker"}
    BY DEF Tasks, Topics
  <2>2. \A T, x : IsFiniteSet(T) => IsFiniteSet(T \union {x})
    BY FS_AddElement
  <2> QED
    BY <2>1, <2>2, FS_EmptySet
<1>2. IsFiniteSet(S)
  BY <1>1, FS_Subset
<1>3. IsFiniteSet({u}) /\ Cardinality({u}) = 1
  BY FS_Singleton
<1>4. IsFiniteSet({u} \union {v}) /\ Cardinality({u} \union {v}) = 2
  BY <1>3, FS_AddElement
<1>5. Cardinality({u} \union {v}) <= Cardinality(S) /\ Cardinality(S) \in Nat
  BY <1>2, FS_Subset, FS_CardinalityType
<1> QED
  BY <1>4, <1>5

\* After the step of a task, whoever still shares an offering is found out.
LEMMA GoesAlone ==
  ASSUME Inv, NEW t \in Tasks, NEW task, Goes(t, task), NEW o \in Offerings \ disturbed',
         NEW u \in Tasks, NEW v \in Tasks, o \in Touched(work', u), o \in Touched(work', v)
  PROVE  u = v
<1> SUFFICES ASSUME u # v PROVE FALSE
  OBVIOUS
<1> DEFINE S == {y \in Tasks : o \in Touched(work', y)}
<1>1. S \subseteq Tasks /\ u \in S /\ v \in S
  OBVIOUS
<1>2. disturbed' = disturbed \union
         {x \in Offerings : Cardinality({y \in Tasks : x \in Touched(work', y)}) > 1}
  BY DEF Goes
<1>3. ~(Cardinality(S) > 1)
  BY <1>2
<1> HIDE DEF S
<1> QED
  BY <1>1, <1>3, TwoAreMany

LEMMA TaskStepGoes == ASSUME NEW t \in Tasks, TaskStep(t) PROVE \E task : Goes(t, task)
<1>1. ASSUME NEW o \in Offerings, FetchOffering(t, o) PROVE \E task : Goes(t, task)
  BY <1>1 DEF FetchOffering
<1>2. CASE FetchPart(t)
  BY <1>2 DEF FetchPart
<1>3. CASE WriteMongo(t)
  BY <1>3 DEF WriteMongo
<1>4. CASE IndexElastic(t)
  BY <1>4 DEF IndexElastic
<1>5. CASE RemoveMongo(t)
  BY <1>5 DEF RemoveMongo
<1>6. CASE RemoveElastic(t)
  BY <1>6 DEF RemoveElastic
<1> QED
  BY <1>1, <1>2, <1>3, <1>4, <1>5, <1>6 DEF TaskStep

LEMMA NextOneTask == ASSUME Inv, Hands, OneTask, [Next]_vars PROVE OneTask'
<1>1. ASSUME NEW t \in Tasks, NEW task, Goes(t, task), UNCHANGED queue PROVE OneTask'
  <2>1. \A u \in Tasks : Touched(work, u)' = Touched(work', u)
    BY <1>1 DEF Touched
  <2> QED
    BY <1>1, <2>1, GoesAlone DEF OneTask
<1>2. ASSUME UNCHANGED tasks, \A t \in Topics : queue[t] # <<>> => Head(queue'[t]) = Head(queue[t])
      PROVE  OneTask'
  <2>1. ASSUME NEW u \in Tasks PROVE Touched(work, u)' = Touched(work, u)
    <3>1. CASE u \in Topics
      <4>1. work[u].step = "find" => Head(queue'[u]) = Head(queue[u])
        BY <1>2, <3>1, WorkType
      <4> QED
        BY <1>2, <4>1 DEF Touched, tasks
    <3>2. CASE u \notin Topics
      <4>1. work[u].step # "find"
        BY <3>2 DEF Hands, AtHand
      <4> QED
        BY <1>2, <4>1 DEF Touched, tasks
    <3> QED
      BY <3>1, <3>2
  <2> QED
    BY <1>2, <2>1 DEF OneTask, tasks
<1>3. ASSUME NEW x, NEW type, Issue(type, x), UNCHANGED tasks PROVE OneTask'
  BY <1>2, <1>3, IssueEffect, AddsEffect
<1>4. ASSUME NEW t \in Topics, Consumer(t) PROVE OneTask'
  <2>1. t \in Tasks
    BY DEF Tasks
  <2>2. CASE Begin(t) \/ FindAffected(t) \/ MarkProcessed(t)
    <3>1. UNCHANGED queue /\ \E task : Goes(t, task)
      BY <2>2 DEF Begin, FindAffected, MarkProcessed, events
    <3> QED
      BY <1>1, <2>1, <3>1
  <2>3. CASE Acknowledge(t)
    <3>1. work'[t] = Idle /\ Only(t) /\ \A u \in Topics : u # t => queue'[u] = queue[u]
      BY <2>3, AcknowledgeEffect
    <3>2. Goes(t, Idle)
      BY <2>3 DEF Acknowledge
    <3>3. ASSUME NEW u \in Tasks PROVE Touched(work, u)' = Touched(work', u)
      <4>1. CASE u = t
        BY <3>1, <4>1, TaskFields DEF Touched, Idle
      <4>2. CASE u # t /\ u \in Topics
        BY <3>1, <4>2 DEF Touched
      <4>3. CASE u # t /\ u \notin Topics
        <5>1. work'[u].step # "find"
          BY <3>1, <4>3 DEF Hands, AtHand, Only
        <5> QED
          BY <5>1 DEF Touched
      <4> QED
        BY <4>1, <4>2, <4>3
    <3> QED
      BY <2>1, <3>2, <3>3, GoesAlone DEF OneTask
  <2> QED
    BY <1>4, <2>2, <2>3 DEF Consumer
<1>5. CASE Owners
  <2>1. "worker" \in Tasks
    BY DEF Tasks
  <2>2. ASSUME NEW o \in Offerings, CallSync(o) \/ CallDelete(o) PROVE OneTask'
    <3>1. UNCHANGED queue /\ \E task : Goes("worker", task)
      BY <2>2 DEF CallSync, CallDelete, events
    <3> QED
      BY <1>1, <2>1, <3>1
  <2>3. ASSUME NEW o \in Offerings, Publish(o) \/ Fail(o) PROVE OneTask'
    <3>1. UNCHANGED <<queue, tasks>>
      BY <2>3 DEF Publish, Fail, events
    <3> QED
      BY <1>2, <3>1
  <2>4. ASSUME NEW o \in Offerings, Confirm(o) \/ Retire(o) PROVE OneTask'
    <3>1. UNCHANGED tasks /\ \E type : Issue(type, o)
      BY <2>4 DEF Confirm, Retire
    <3> QED
      BY <1>3, <3>1
  <2>5. ASSUME NEW p \in Parts, UpdatePart(p) \/ DeletePart(p) PROVE OneTask'
    <3>1. UNCHANGED tasks /\ \E type : Issue(type, p)
      BY <2>5 DEF UpdatePart, DeletePart
    <3> QED
      BY <1>3, <3>1
  <2> QED
    BY <1>5, <2>2, <2>3, <2>4, <2>5 DEF Owners
<1>6. CASE UNCHANGED vars
  <2>1. UNCHANGED <<queue, tasks>>
    BY <1>6 DEF vars, events
  <2> QED
    BY <1>2, <2>1
<1>7. ASSUME NEW t \in Tasks, TaskStep(t) PROVE OneTask'
  BY <1>1, <1>7, TaskStepGoes, TaskStepHands
<1>8. CASE Answer
  <2>1. "worker" \in Tasks /\ Goes("worker", Idle) /\ UNCHANGED queue
    BY <1>8 DEF Answer, events, Tasks
  <2> QED
    BY <1>1, <2>1
<1>9. ASSUME NEW e \in issued, PublishAgain(e) PROVE OneTask'
  <2>1. e \in issued' /\ issued \subseteq issued' /\ Adds(e) /\ UNCHANGED tasks
    BY <1>9 DEF PublishAgain, Adds
  <2> QED
    BY <1>2, <2>1, AddsEffect
<1>10. CASE Crash
  <2>1. \A t \in Tasks : work'[t] = Idle
    BY <1>10 DEF Crash
  <2>2. \A t \in Tasks : Touched(work, t)' = {}
    BY <2>1, TaskFields DEF Touched, Idle
  <2> QED
    BY <2>2 DEF OneTask
<1> QED
  BY <1>4, <1>5, <1>6, <1>7, <1>8, <1>9, <1>10 DEF Next

\* An offering that is not disturbed is in the hand of one task at most.
LEMMA Alone ==
  ASSUME Hands, OneTask, NEW o \in Offerings \ disturbed, NEW t \in Tasks, NEW u \in Tasks,
         o \in work[t].todo \/ o = work[t].on, o \in work[u].todo \/ o = work[u].on
  PROVE  t = u
<1>1. o # Nobody
  BY StoreAssumption
<1>2. ASSUME NEW v \in Tasks, o \in work[v].todo \/ o = work[v].on PROVE o \in Touched(work, v)
  <2>1. work[v].step # "find"
    BY <1>1, <1>2 DEF Hands, AtHand
  <2> QED
    BY <1>1, <1>2, <2>1 DEF Touched
<1> QED
  BY <1>2 DEF OneTask

\* What happened stays in the record of faults, and disturbed offerings in theirs.
LEMMA RecordsGrow == ASSUME [Next]_vars PROVE happened \subseteq happened' /\ disturbed \subseteq disturbed'
<1> USE DEF Fault, Goes, tasks
<1>1. ASSUME NEW t \in Tasks, TaskStep(t) PROVE happened \subseteq happened' /\ disturbed \subseteq disturbed'
  <2>1. happened \subseteq happened'
    BY <1>1 DEF TaskStep, FetchOffering, FetchPart, WriteMongo, IndexElastic, RemoveMongo, RemoveElastic
  <2>2. PICK task : Goes(t, task)
    BY <1>1, TaskStepGoes
  <2> QED
    BY <2>1, <2>2
<1>2. ASSUME NEW t \in Topics, Consumer(t) PROVE happened \subseteq happened' /\ disturbed \subseteq disturbed'
  BY <1>2 DEF Consumer, Begin, FindAffected, MarkProcessed, Acknowledge
<1>3. CASE Owners
  BY <1>3 DEF Owners, Publish, Confirm, Fail, Retire, CallSync, CallDelete, UpdatePart, DeletePart
<1>4. CASE Answer \/ Crash \/ \E e \in issued : PublishAgain(e)
  BY <1>4 DEF Answer, Crash, PublishAgain
<1> QED
  BY <1>1, <1>2, <1>3, <1>4 DEF Next, vars

------------------------------------------------------------------------------
(* The search index follows MongoDB.                                       *)

\* The faults that leave the index as MongoDB is.
FollowFaults == {"duplicate", "fetch", "part", "mongo"}

\* The index is that of MongoDB, or the task that has changed MongoDB is about to
\* change the index too.
Changing(t, o) ==
    /\ work[t].on = o
    /\ \/ work[t].step = "index" /\ mongo[o] = work[t].doc
       \/ work[t].step = "unindex" /\ mongo[o] = NoDocument

\* The index shows an offering as MongoDB does, unless a task has written only one of them.
Follows(o) ==
    \/ /\ elastic[o] = mongo[o]
       /\ \A t \in Tasks : work[t].on = o => work[t].step \notin {"index", "unindex"}
    \/ \E t \in Tasks : Changing(t, o)

\* Faults but a crash and a failure of the index.
FollowInv == happened \subseteq FollowFaults => \A o \in Offerings \ disturbed : Follows(o)

\* A step of a task that has not changed MongoDB for the offering, and does not.
LEMMA FollowsKept ==
  ASSUME NEW o \in Offerings, Follows(o), NEW t \in Tasks, Only(t),
         mongo'[o] = mongo[o], elastic'[o] = elastic[o],
         work[t].on = o => work[t].step \notin {"index", "unindex"},
         work'[t].on = o => work'[t].step \notin {"index", "unindex"}
  PROVE  Follows(o)'
<1>1. CASE \E u \in Tasks : Changing(u, o)
  <2>1. PICK u \in Tasks : Changing(u, o)
    BY <1>1
  <2>2. u # t
    BY <2>1 DEF Changing
  <2>3. work'[u] = work[u]
    BY <2>2 DEF Only
  <2>4. Changing(u, o)'
    BY <2>1, <2>3 DEF Changing
  <2> QED
    BY <2>4 DEF Follows
<1>2. CASE ~\E u \in Tasks : Changing(u, o)
  BY <1>2 DEF Follows, Only
<1> QED
  BY <1>1, <1>2

LEMMA TaskStepFollows ==
  ASSUME Inv, Hands, OneTask, NEW o \in Offerings \ disturbed, Follows(o),
         NEW t \in Tasks, TaskStep(t), happened' \subseteq FollowFaults
  PROVE  Follows(o)'
<1>1. /\ AtHand(t, work[t], Head(queue[t])) /\ o # Nobody /\ "elastic" \notin happened'
      /\ mongo \in [Offerings -> Document] /\ elastic \in [Offerings -> Document]
      /\ Raised(t).on = Nobody
      /\ \A step, todo, on : Task(step, todo, on).on = on
  BY StoreAssumption, TaskFields DEF Hands, FollowFaults, Inv, TypeOK, Raised
\* If the task has the offering in hand after MongoDB, nobody else has.
<1>2. ASSUME work[t].on = o, work[t].step \in {"index", "unindex"}
      PROVE  Changing(t, o) /\ \A u \in Tasks : u # t => work[u].on # o
  <2>1. \A u \in Tasks : work[u].on = o => u = t
    BY <1>2, Alone
  <2> QED
    BY <1>2, <2>1 DEF Follows, Changing
<1>3. ASSUME NEW x \in Offerings, FetchOffering(t, x) PROVE Follows(o)'
  <2>1. /\ work[t].step = "next" /\ Only(t) /\ UNCHANGED <<mongo, elastic>>
        /\ work'[t].step = "read" \/ work'[t] = Task("next", work[t].todo \ {x}, Nobody)
    BY <1>3, FetchOfferingEffect
  <2> QED
    BY <1>1, <2>1, FollowsKept
<1>4. CASE FetchPart(t)
  <2>1. /\ work[t].step = "read" /\ Only(t) /\ UNCHANGED <<mongo, elastic>> /\ work'[t].step = "read"
    BY <1>4, FetchPartEffect
  <2> QED
    BY <2>1, FollowsKept
<1>5. CASE WriteMongo(t)
  <2>1. /\ work[t].step = "read" /\ Only(t) /\ UNCHANGED elastic
        /\ \/ /\ mongo' = [mongo EXCEPT ![work[t].on] = work[t].doc]
              /\ work'[t].step = "index" /\ work'[t].on = work[t].on /\ work'[t].doc = work[t].doc
           \/ UNCHANGED mongo /\ work'[t] = Task("next", work[t].todo, Nobody)
    BY <1>5, WriteMongoEffect
  <2>2. CASE work'[t].on = o
    <3>1. Changing(t, o)'
      BY <1>1, <2>1, <2>2 DEF Changing
    <3> QED
      BY <3>1 DEF Follows
  <2>3. CASE work'[t].on # o
    <3>1. mongo'[o] = mongo[o]
      BY <1>1, <2>1, <2>3
    <3> QED
      BY <2>1, <2>3, <3>1, FollowsKept
  <2> QED
    BY <2>2, <2>3
<1>6. CASE IndexElastic(t)
  <2>1. /\ work[t].step = "index" /\ Only(t) /\ UNCHANGED mongo /\ work'[t].on = Nobody
        /\ elastic' = [elastic EXCEPT ![work[t].on] = work[t].doc]
    BY <1>1, <1>6, IndexElasticEffect
  <2>2. CASE work[t].on = o
    <3>1. mongo[o] = work[t].doc /\ \A u \in Tasks : u # t => work[u].on # o
      BY <1>2, <2>1, <2>2 DEF Changing
    <3>2. elastic'[o] = mongo'[o]
      BY <1>1, <2>1, <2>2, <3>1
    <3>3. \A u \in Tasks : work'[u].on # o
      BY <1>1, <2>1, <3>1 DEF Only
    <3> QED
      BY <3>2, <3>3 DEF Follows
  <2>3. CASE work[t].on # o
    <3>1. elastic'[o] = elastic[o]
      BY <1>1, <2>1, <2>3
    <3> QED
      BY <1>1, <2>1, <2>3, <3>1, FollowsKept
  <2> QED
    BY <2>2, <2>3
<1>7. CASE RemoveMongo(t)
  <2>1. /\ work[t].step = "remove" /\ Only(t) /\ UNCHANGED elastic
        /\ \/ /\ mongo' = [mongo EXCEPT ![work[t].on] = NoDocument]
              /\ work'[t].step = "unindex" /\ work'[t].on = work[t].on
           \/ UNCHANGED mongo /\ work'[t] = Raised(t)
    BY <1>7, RemoveMongoEffect
  <2>2. CASE work'[t].on = o
    <3>1. Changing(t, o)'
      BY <1>1, <2>1, <2>2 DEF Changing
    <3> QED
      BY <3>1 DEF Follows
  <2>3. CASE work'[t].on # o
    <3>1. mongo'[o] = mongo[o]
      BY <1>1, <2>1, <2>3
    <3> QED
      BY <2>1, <2>3, <3>1, FollowsKept
  <2> QED
    BY <2>2, <2>3
<1>8. CASE RemoveElastic(t)
  <2>1. /\ work[t].step = "unindex" /\ Only(t) /\ UNCHANGED mongo /\ work'[t].on = Nobody
        /\ elastic' = [elastic EXCEPT ![work[t].on] = NoDocument]
    BY <1>1, <1>8, RemoveElasticEffect
  <2>2. CASE work[t].on = o
    <3>1. mongo[o] = NoDocument /\ \A u \in Tasks : u # t => work[u].on # o
      BY <1>2, <2>1, <2>2 DEF Changing
    <3>2. elastic'[o] = mongo'[o]
      BY <1>1, <2>1, <2>2, <3>1
    <3>3. \A u \in Tasks : work'[u].on # o
      BY <1>1, <2>1, <3>1 DEF Only
    <3> QED
      BY <3>2, <3>3 DEF Follows
  <2>3. CASE work[t].on # o
    <3>1. elastic'[o] = elastic[o]
      BY <1>1, <2>1, <2>3
    <3> QED
      BY <1>1, <2>1, <2>3, <3>1, FollowsKept
  <2> QED
    BY <2>2, <2>3
<1> QED
  BY <1>3, <1>4, <1>5, <1>6, <1>7, <1>8 DEF TaskStep

\* The other steps write neither store, and none of them leaves a task between the
\* two.
LEMMA OthersFollow ==
  ASSUME Inv, Hands, NEW o \in Offerings, Follows(o), happened' \subseteq FollowFaults,
         \/ Owners \/ Answer \/ Crash
         \/ \E t \in Topics : Consumer(t)
         \/ \E e \in issued : PublishAgain(e)
  PROVE  Follows(o)'
<1>1. "worker" \in Tasks /\ Topics \subseteq Tasks
  BY DEF Tasks
<1>2. ASSUME UNCHANGED <<mongo, elastic, work>> PROVE Follows(o)'
  BY <1>2 DEF Follows, Changing
<1>3. ASSUME NEW t \in Tasks, Only(t), UNCHANGED <<mongo, elastic>>,
             work[t].step \notin {"index", "unindex"}, work'[t].step \notin {"index", "unindex"}
      PROVE  Follows(o)'
  BY <1>3, FollowsKept
<1>4. \A step, todo, on : Task(step, todo, on).step = step
  BY TaskFields
<1>5. Idle.step = "idle" /\ \A t \in Tasks : Raised(t).step \in {"skip", "next"}
  BY IdleType, RaisedType
<1> USE DEF stores, tasks
<1>6. CASE Owners
  <2>1. ASSUME NEW x \in Offerings, CallSync(x) PROVE Follows(o)'
    <3>1. work'["worker"] = Task("next", {x}, Nobody) /\ Only("worker") /\ UNCHANGED <<mongo, elastic>>
      BY <1>1, <2>1, GoesWork DEF CallSync, Inv, Only
    <3>2. work["worker"] = Idle
      BY <2>1 DEF CallSync
    <3> QED
      BY <1>1, <1>3, <1>4, <1>5, <3>1, <3>2
  <2>2. ASSUME NEW x \in Offerings, CallDelete(x) PROVE Follows(o)'
    <3>1. work'["worker"] = Task("remove", {}, x) /\ Only("worker") /\ UNCHANGED <<mongo, elastic>>
      BY <1>1, <2>2, GoesWork DEF CallDelete, Inv, Only
    <3>2. work["worker"] = Idle
      BY <2>2 DEF CallDelete
    <3> QED
      BY <1>1, <1>3, <1>4, <1>5, <3>1, <3>2
  <2>3. ASSUME NEW x \in Offerings, Publish(x) \/ Confirm(x) \/ Fail(x) \/ Retire(x) PROVE Follows(o)'
    BY <1>2, <2>3 DEF Publish, Confirm, Fail, Retire
  <2>4. ASSUME NEW p \in Parts, UpdatePart(p) \/ DeletePart(p) PROVE Follows(o)'
    BY <1>2, <2>4 DEF UpdatePart, DeletePart
  <2> QED
    BY <1>6, <2>1, <2>2, <2>3, <2>4 DEF Owners
<1>7. CASE Answer
  <2>1. work'["worker"] = Idle /\ Only("worker") /\ UNCHANGED <<mongo, elastic>>
    BY <1>1, <1>7, GoesWork DEF Answer, Inv, Only
  <2>2. work["worker"].step = "next"
    BY <1>7 DEF Answer
  <2> QED
    BY <1>1, <1>3, <1>5, <2>1, <2>2
<1>8. CASE Crash
  BY <1>8, FaultHappens DEF Crash, FollowFaults
<1>9. ASSUME NEW e \in issued, PublishAgain(e) PROVE Follows(o)'
  BY <1>2, <1>9 DEF PublishAgain
<1>10. ASSUME NEW t \in Topics, Consumer(t) PROVE Follows(o)'
  <2>1. t \in Tasks
    BY <1>1
  <2>2. CASE Begin(t)
    <3>1. FirstTask(Head(queue[t])).step \notin {"index", "unindex"}
      BY <1>4 DEF FirstTask
    <3>2. /\ Only(t) /\ UNCHANGED <<mongo, elastic>> /\ work[t] = Idle
          /\ \/ work'[t] = Task("skip", {}, Nobody)
             \/ work'[t] = FirstTask(Head(queue[t]))
             \/ work'[t] = Raised(t)
      BY <2>2, BeginEffect
    <3>3. work'[t].step \notin {"index", "unindex"}
      BY <1>4, <1>5, <2>1, <3>1, <3>2
    <3> QED
      BY <1>3, <1>5, <2>1, <3>2, <3>3
  <2>3. CASE FindAffected(t)
    <3>1. /\ Only(t) /\ UNCHANGED <<mongo, elastic>> /\ work[t].step = "find"
          /\ \/ \E todo : work'[t] = Task("next", todo, Nobody)
             \/ work'[t] = Raised(t)
      BY <2>3, FindAffectedEffect
    <3>2. work'[t].step \notin {"index", "unindex"}
      BY <1>4, <1>5, <2>1, <3>1
    <3> QED
      BY <1>3, <2>1, <3>1, <3>2
  <2>4. CASE MarkProcessed(t)
    <3>1. /\ Only(t) /\ UNCHANGED <<mongo, elastic>> /\ work[t].step = "next"
          /\ work'[t] = Task("skip", {}, Nobody)
      BY <2>4, MarkProcessedEffect
    <3> QED
      BY <1>3, <1>4, <2>1, <3>1
  <2>5. CASE Acknowledge(t)
    <3>1. Only(t) /\ UNCHANGED <<mongo, elastic>> /\ work[t].step = "skip" /\ work'[t] = Idle
      BY <2>5, AcknowledgeEffect
    <3> QED
      BY <1>3, <1>5, <2>1, <3>1
  <2> QED
    BY <1>10, <2>2, <2>3, <2>4, <2>5 DEF Consumer
<1> QED
  BY <1>6, <1>7, <1>8, <1>9, <1>10

LEMMA NextFollows == ASSUME Inv, Hands, OneTask, FollowInv, [Next]_vars PROVE FollowInv'
<1> SUFFICES ASSUME happened' \subseteq FollowFaults, NEW o \in Offerings \ disturbed'
             PROVE  Follows(o)'
  BY DEF FollowInv
<1>1. o \in Offerings \ disturbed /\ Follows(o)
  BY RecordsGrow DEF FollowInv
<1>2. CASE UNCHANGED vars
  BY <1>1, <1>2 DEF vars, stores, tasks, Follows, Changing
<1> QED
  BY <1>1, <1>2, TaskStepFollows, OthersFollow DEF Next

LEMMA InitHands == Init => Hands /\ OneTask /\ FollowInv
<1> SUFFICES ASSUME Init PROVE Hands /\ OneTask /\ FollowInv
  OBVIOUS
<1>1. \A t \in Tasks : work[t] = Idle
  BY DEF Init
<1>2. \A t \in Tasks : Touched(work, t) = {} /\ work[t].on = Nobody
  BY <1>1, TaskFields DEF Touched, Idle
<1>3. \A o \in Offerings : o # Nobody /\ elastic[o] = mongo[o]
  BY StoreAssumption DEF Init
<1> QED
  BY <1>1, <1>2, <1>3, SimpleHands DEF Hands, OneTask, FollowInv, Follows

\* The inductive invariant of what the tasks have in hand.
HandsInv == Inv /\ Hands /\ OneTask

LEMMA HandsInvariance == Spec => []HandsInv
<1>1. Init => HandsInv
  BY InitInv, InitHands DEF HandsInv
<1>2. HandsInv /\ [Next]_vars => HandsInv'
  BY NextInv, NextHands, NextOneTask DEF HandsInv
<1> QED
  BY <1>1, <1>2, PTL DEF Spec

\* When the events are handled the search index holds what MongoDB holds of every
\* offering that no two tasks worked on at a time, unless the index has failed or the
\* service has crashed between the two stores.
THEOREM IndexFollowsMongo == Spec => []ElasticFollows
<1>1. Init => FollowInv
  BY InitHands
<1>2. HandsInv /\ FollowInv /\ [Next]_vars => FollowInv'
  BY NextFollows DEF HandsInv
<1>3. FollowInv => ElasticFollows
  <2> SUFFICES ASSUME FollowInv, AtRest, happened \subseteq {"duplicate", "fetch", "part", "mongo"},
                      NEW o \in Offerings \ disturbed
               PROVE  elastic[o] = mongo[o]
    BY DEF ElasticFollows
  <2>1. Follows(o)
    BY DEF FollowInv, FollowFaults
  <2>2. \A t \in Tasks : work[t].step = "idle"
    BY IdleType DEF AtRest
  <2> QED
    BY <2>1, <2>2 DEF Follows, Changing
<1> QED
  BY <1>1, <1>2, <1>3, HandsInvariance, PTL DEF Spec

------------------------------------------------------------------------------
(* The events and the steps of the owners.                                 *)

\* What a step does to a task, and to events.
LEMMA TaskNext ==
  ASSUME Inv, [Next]_vars, NEW t \in Tasks
  PROVE  \/ work'[t] = work[t]
         \/ TaskStep(t)
         \/ t \in Topics /\ Consumer(t)
         \/ t = "worker" /\ \E o \in Offerings : CallSync(o) /\ work'[t] = Task("next", {o}, Nobody)
         \/ t = "worker" /\ \E o \in Offerings : CallDelete(o) /\ work'[t] = Task("remove", {}, o)
         \/ t = "worker" /\ Answer /\ work'[t] = Idle
         \/ Crash /\ work'[t] = Idle
<1>1. "worker" \in Tasks /\ Topics \subseteq Tasks
  BY DEF Tasks
<1> USE DEF tasks
<1>2. CASE UNCHANGED vars
  BY <1>2 DEF vars
<1>3. ASSUME NEW u \in Tasks, TaskStep(u), u # t PROVE work'[t] = work[t]
  <2>1. \E task : Goes(u, task)
    BY <1>3, TaskStepGoes
  <2> QED
    BY <1>3, <2>1, GoesWork DEF Inv
<1>4. ASSUME NEW u \in Topics, Consumer(u), u # t PROVE work'[t] = work[t]
  <2>1. \E task : Goes(u, task)
    BY <1>4 DEF Consumer, Begin, FindAffected, MarkProcessed, Acknowledge
  <2> QED
    BY <1>1, <1>4, <2>1, GoesWork DEF Inv
<1>5. ASSUME NEW task, Goes("worker", task)
      PROVE  IF t = "worker" THEN work'[t] = task ELSE work'[t] = work[t]
  BY <1>1, <1>5, GoesWork DEF Inv
<1>6. ASSUME NEW o \in Offerings, Publish(o) \/ Confirm(o) \/ Fail(o) \/ Retire(o) PROVE work'[t] = work[t]
  BY <1>6 DEF Publish, Confirm, Fail, Retire
<1>7. ASSUME NEW p \in Parts, UpdatePart(p) \/ DeletePart(p) PROVE work'[t] = work[t]
  BY <1>7 DEF UpdatePart, DeletePart
<1>8. ASSUME NEW o \in Offerings, CallSync(o)
      PROVE  IF t = "worker" THEN work'[t] = Task("next", {o}, Nobody) ELSE work'[t] = work[t]
  BY <1>5, <1>8 DEF CallSync
<1>9. ASSUME NEW o \in Offerings, CallDelete(o)
      PROVE  IF t = "worker" THEN work'[t] = Task("remove", {}, o) ELSE work'[t] = work[t]
  BY <1>5, <1>9 DEF CallDelete
<1>10. CASE Answer
  BY <1>5, <1>10 DEF Answer
<1>11. CASE Crash
  BY <1>11 DEF Crash
<1>12. ASSUME NEW e \in issued, PublishAgain(e) PROVE work'[t] = work[t]
  BY <1>12 DEF PublishAgain
<1>13. CASE Owners
  BY <1>6, <1>7, <1>8, <1>9, <1>13 DEF Owners
<1> QED
  BY <1>2, <1>3, <1>4, <1>10, <1>11, <1>12, <1>13 DEF Next

\* Something is issued, and no task moves.
Issues(type, x) == Issue(type, x) /\ UNCHANGED <<processed, stores, tasks, happened>>

LEMMA EventNext ==
  ASSUME Inv, [Next]_vars
  PROVE  \/ UNCHANGED events
         \/ \E o \in Offerings : Confirm(o) /\ Issues("OfferingPublished", o)
         \/ \E o \in Offerings : Retire(o) /\ Issues("OfferingRetired", o)
         \/ \E p \in Parts : UpdatePart(p) /\ Issues("Updated", p)
         \/ \E p \in Parts : DeletePart(p) /\ Issues("Deleted", p)
         \/ \E e \in issued : PublishAgain(e)
         \/ \E t \in Topics : MarkProcessed(t)
         \/ \E t \in Topics : Acknowledge(t)
<1> USE DEF events
<1>1. CASE UNCHANGED vars
  BY <1>1 DEF vars
<1>2. ASSUME NEW t \in Tasks, TaskStep(t) PROVE UNCHANGED events
  BY <1>2 DEF TaskStep, FetchOffering, FetchPart, WriteMongo, IndexElastic, RemoveMongo, RemoveElastic
<1>3. ASSUME NEW t \in Topics, Begin(t) \/ FindAffected(t) PROVE UNCHANGED events
  BY <1>3 DEF Begin, FindAffected
<1>4. CASE Answer \/ Crash
  BY <1>4 DEF Answer, Crash
<1>5. ASSUME NEW o \in Offerings, Publish(o) \/ Fail(o) \/ CallSync(o) \/ CallDelete(o) PROVE UNCHANGED events
  BY <1>5 DEF Publish, Fail, CallSync, CallDelete
<1>6. ASSUME NEW o \in Offerings, Confirm(o) PROVE Issues("OfferingPublished", o)
  BY <1>6 DEF Confirm, Issues
<1>7. ASSUME NEW o \in Offerings, Retire(o) PROVE Issues("OfferingRetired", o)
  BY <1>7 DEF Retire, Issues
<1>8. ASSUME NEW p \in Parts, UpdatePart(p) PROVE Issues("Updated", p)
  BY <1>8 DEF UpdatePart, Issues
<1>9. ASSUME NEW p \in Parts, DeletePart(p) PROVE Issues("Deleted", p)
  BY <1>9 DEF DeletePart, Issues
<1>10. CASE Owners
  BY <1>5, <1>6, <1>7, <1>8, <1>9, <1>10 DEF Owners
<1> QED
  BY <1>1, <1>2, <1>3, <1>4, <1>10 DEF Next, Consumer

\* The steps of the offering service and of the owners of the parts.
LEMMA StatusNext ==
  ASSUME Inv, [Next]_vars, NEW o \in Offerings
  PROVE  \/ status'[o] = status[o]
         \/ Publish(o) /\ status'[o] = "PUBLISHING"
         \/ Confirm(o) /\ status'[o] = "PUBLISHED"
         \/ Fail(o) /\ status'[o] = "DRAFT"
         \/ Retire(o) /\ status'[o] = "RETIRED"
<1> USE DEF sources
<1>1. CASE UNCHANGED status
  BY <1>1
<1>2. ASSUME NEW t \in Tasks, TaskStep(t) PROVE UNCHANGED status
  BY <1>2 DEF TaskStep, FetchOffering, FetchPart, WriteMongo, IndexElastic, RemoveMongo, RemoveElastic
<1>3. ASSUME NEW t \in Topics, Consumer(t) PROVE UNCHANGED status
  BY <1>3 DEF Consumer, Begin, FindAffected, MarkProcessed, Acknowledge
<1>4. ASSUME Answer \/ Crash \/ \E e \in issued : PublishAgain(e) PROVE UNCHANGED status
  BY <1>4 DEF Answer, Crash, PublishAgain
<1>5. ASSUME NEW x \in Offerings, x # o, Publish(x) \/ Fail(x) \/ Confirm(x) \/ Retire(x) PROVE status'[o] = status[o]
  BY <1>5 DEF Publish, Fail, Confirm, Retire, Inv, TypeOK
<1>6. /\ Publish(o) => status'[o] = "PUBLISHING"
      /\ Confirm(o) => status'[o] = "PUBLISHED"
      /\ Fail(o) => status'[o] = "DRAFT"
      /\ Retire(o) => status'[o] = "RETIRED"
  BY DEF Publish, Fail, Confirm, Retire, Inv, TypeOK
<1>7. ASSUME NEW x \in Offerings, CallSync(x) \/ CallDelete(x) PROVE UNCHANGED status
  BY <1>7 DEF CallSync, CallDelete
<1>8. ASSUME NEW p \in Parts, UpdatePart(p) \/ DeletePart(p) PROVE UNCHANGED status
  BY <1>8 DEF UpdatePart, DeletePart
<1>9. ASSUME UNCHANGED vars PROVE UNCHANGED status
  BY <1>9 DEF vars
<1>10. CASE Owners
  BY <1>1, <1>5, <1>6, <1>7, <1>8, <1>10 DEF Owners
<1> QED
  BY <1>2, <1>3, <1>4, <1>9, <1>10 DEF Next

LEMMA VersionNext ==
  ASSUME Inv, [Next]_vars, NEW p \in Parts
  PROVE  \/ version'[p] = version[p]
         \/ UpdatePart(p) \/ DeletePart(p)
<1> USE DEF sources
<1>1. ASSUME NEW t \in Tasks, TaskStep(t) PROVE UNCHANGED version
  BY <1>1 DEF TaskStep, FetchOffering, FetchPart, WriteMongo, IndexElastic, RemoveMongo, RemoveElastic
<1>2. ASSUME NEW t \in Topics, Consumer(t) PROVE UNCHANGED version
  BY <1>2 DEF Consumer, Begin, FindAffected, MarkProcessed, Acknowledge
<1>3. ASSUME Answer \/ Crash \/ \E e \in issued : PublishAgain(e) PROVE UNCHANGED version
  BY <1>3 DEF Answer, Crash, PublishAgain
<1>4. ASSUME NEW x \in Offerings, Publish(x) \/ Fail(x) \/ Confirm(x) \/ Retire(x) \/ CallSync(x) \/ CallDelete(x)
      PROVE  UNCHANGED version
  BY <1>4 DEF Publish, Fail, Confirm, Retire, CallSync, CallDelete
<1>5. ASSUME NEW q \in Parts, q # p, UpdatePart(q) \/ DeletePart(q) PROVE version'[p] = version[p]
  BY <1>5 DEF UpdatePart, DeletePart, Inv, TypeOK
<1>6. ASSUME UNCHANGED vars PROVE UNCHANGED version
  BY <1>6 DEF vars
<1> QED
  BY <1>1, <1>2, <1>3, <1>4, <1>5, <1>6 DEF Next, Owners

\* Events have numbers of their own, and queues have their topics.
Numbered ==
    /\ \A e \in issued : e.id \in 1 .. Cardinality(issued)
    /\ \A e, f \in issued : e.id = f.id => e = f
    /\ processed \subseteq 1 .. Cardinality(issued)
    /\ \A t \in Topics : \A i \in DOMAIN queue[t] : TopicOf(queue[t][i].of) = t

LEMMA IssuedOne ==
  ASSUME Inv, Numbered, NEW x, NEW type, Issue(type, x)
  PROVE  \E e \in issued' :
            /\ e.id = Cardinality(issued) + 1 /\ e.type = type /\ e.of = x
            /\ issued' = issued \union {e} /\ Adds(e) /\ e \notin issued
            /\ Cardinality(issued) \in Nat /\ Cardinality(issued') = Cardinality(issued) + 1
<1>1. PICK e \in issued' : /\ e.id = Cardinality(issued) + 1 /\ e.type = type /\ e.of = x
                           /\ issued' = issued \union {e} /\ Adds(e)
  BY IssueEffect
<1>2. IsFiniteSet(issued) /\ Cardinality(issued) \in Nat
  BY FS_CardinalityType DEF Inv, EventsInv
<1>3. e \notin issued
  <2>1. ~(Cardinality(issued) + 1 \in 1 .. Cardinality(issued))
    BY <1>2
  <2> QED
    BY <1>1, <2>1 DEF Numbered
<1>4. Cardinality(issued') = Cardinality(issued) + 1
  BY <1>1, <1>2, <1>3, FS_AddElement
<1> QED
  BY <1>1, <1>2, <1>3, <1>4

\* A queue that gets one more event of its topic.
LEMMA AddsInTopic ==
  ASSUME Inv, Inv', NEW e \in issued', issued \subseteq issued', Adds(e),
         \A t \in Topics : \A i \in DOMAIN queue[t] : TopicOf(queue[t][i].of) = t
  PROVE  \A t \in Topics : \A i \in DOMAIN queue'[t] : TopicOf(queue'[t][i].of) = t
<1> SUFFICES ASSUME NEW t \in Topics, NEW i \in DOMAIN queue'[t] PROVE TopicOf(queue'[t][i].of) = t
  OBVIOUS
<1>1. DOMAIN queue[t] = 1 .. Len(queue[t]) /\ Len(queue[t]) \in Nat
  BY QueueType
<1>2. DOMAIN queue'[t] = 1 .. Len(queue'[t])
  <2>1. queue'[t] \in Seq(issued')
    BY DEF Inv, TypeOK
  <2> QED
    BY <2>1, LenProperties
<1>3. CASE i \in 1 .. Len(queue[t])
  BY <1>1, <1>3, AddsEffect
<1>4. CASE i \notin 1 .. Len(queue[t])
  <2>1. t = TopicOf(e.of) /\ Len(queue'[t]) = Len(queue[t]) + 1 /\ queue'[t][Len(queue[t]) + 1] = e
    BY <1>2, <1>4, AddsEffect
  <2>2. i = Len(queue[t]) + 1
    BY <1>1, <1>2, <1>4, <2>1
  <2> QED
    BY <2>1, <2>2
<1> QED
  BY <1>3, <1>4

LEMMA NextNumbered == ASSUME Inv, Inv', Numbered, [Next]_vars PROVE Numbered'
<1>1. CASE UNCHANGED events
  BY <1>1 DEF Numbered, events
<1>2. ASSUME NEW x, NEW type, Issues(type, x) PROVE Numbered'
  <2>1. PICK e \in issued' :
            /\ e.id = Cardinality(issued) + 1 /\ e.type = type /\ e.of = x
            /\ issued' = issued \union {e} /\ Adds(e) /\ e \notin issued
            /\ Cardinality(issued) \in Nat /\ Cardinality(issued') = Cardinality(issued) + 1
    BY <1>2, IssuedOne DEF Issues
  <2> DEFINE n == Cardinality(issued)
  <2>2. n \in Nat /\ n + 1 \in 1 .. n + 1 /\ 1 .. n \subseteq 1 .. n + 1 /\ n + 1 \notin 1 .. n
    BY <2>1
  <2>3. \A f \in issued' : f.id \in 1 .. Cardinality(issued')
    BY <2>1, <2>2 DEF Numbered
  <2>4. \A f, g \in issued' : f.id = g.id => f = g
    BY <2>1, <2>2 DEF Numbered
  <2>5. processed' \subseteq 1 .. Cardinality(issued')
    BY <1>2, <2>1, <2>2 DEF Numbered, Issues
  <2>6. \A t \in Topics : \A i \in DOMAIN queue'[t] : TopicOf(queue'[t][i].of) = t
    BY <2>1, AddsInTopic DEF Numbered
  <2> QED
    BY <2>3, <2>4, <2>5, <2>6 DEF Numbered
<1>3. ASSUME NEW e \in issued, PublishAgain(e) PROVE Numbered'
  <2>1. Adds(e) /\ UNCHANGED <<issued, processed>>
    BY <1>3 DEF PublishAgain, Adds
  <2>2. \A t \in Topics : \A i \in DOMAIN queue'[t] : TopicOf(queue'[t][i].of) = t
    BY <2>1, AddsInTopic DEF Numbered
  <2> QED
    BY <2>1, <2>2 DEF Numbered
<1>4. ASSUME NEW t \in Topics, MarkProcessed(t) PROVE Numbered'
  <2>1. /\ queue[t] # <<>> /\ UNCHANGED <<issued, queue>>
        /\ processed' = processed \/ processed' = processed \union {Head(queue[t]).id}
    BY <1>4, MarkProcessedEffect
  <2>2. Head(queue[t]) \in issued
    BY <2>1, QueueType
  <2> QED
    BY <2>1, <2>2 DEF Numbered
<1>5. ASSUME NEW t \in Topics, Acknowledge(t) PROVE Numbered'
  <2>1. /\ queue[t] # <<>> /\ UNCHANGED <<issued, processed>>
        /\ queue'[t] = Tail(queue[t]) /\ \A u \in Topics : u # t => queue'[u] = queue[u]
    BY <1>5, AcknowledgeEffect
  <2>2. queue[t] \in Seq(issued) /\ Len(queue[t]) \in Nat /\ DOMAIN queue[t] = 1 .. Len(queue[t])
    BY QueueType
  <2>3. /\ Tail(queue[t]) \in Seq(issued) /\ Len(Tail(queue[t])) = Len(queue[t]) - 1
        /\ \A i \in 1 .. Len(Tail(queue[t])) : Tail(queue[t])[i] = queue[t][i + 1]
    BY <2>1, <2>2, HeadTailProperties
  <2>4. DOMAIN Tail(queue[t]) = 1 .. Len(queue[t]) - 1
    BY <2>3, LenProperties
  <2>5. \A i \in 1 .. Len(queue[t]) - 1 : i + 1 \in 1 .. Len(queue[t])
    BY <2>2
  <2>6. \A i \in DOMAIN queue'[t] : TopicOf(queue'[t][i].of) = t
    BY <2>1, <2>2, <2>3, <2>4, <2>5 DEF Numbered
  <2> QED
    BY <2>1, <2>6 DEF Numbered
<1> QED
  BY <1>1, <1>2, <1>3, <1>4, <1>5, EventNext

LEMMA EntryNext ==
  ASSUME Inv, [Next]_vars, NEW o \in Offerings
  PROVE  \/ entry'[o] = entry[o]
         \/ Fail(o) /\ entry'[o] = "none"
         \/ CallSync(o) /\ entry'[o] = "syncing"
         \/ CallDelete(o) /\ entry'[o] = "deleting"
         \/ Answer /\ entry'[o] = Answered[entry[o]]
         \/ Crash /\ entry'[o] = CASE entry[o] = "syncing" -> "again"
                                   [] entry[o] = "deleting" -> "synced"
                                   [] OTHER -> entry[o]
<1> USE DEF sources
<1>1. ASSUME NEW t \in Tasks, TaskStep(t) PROVE UNCHANGED entry
  BY <1>1 DEF TaskStep, FetchOffering, FetchPart, WriteMongo, IndexElastic, RemoveMongo, RemoveElastic
<1>2. ASSUME NEW t \in Topics, Consumer(t) PROVE UNCHANGED entry
  BY <1>2 DEF Consumer, Begin, FindAffected, MarkProcessed, Acknowledge
<1>3. ASSUME NEW e \in issued, PublishAgain(e) PROVE UNCHANGED entry
  BY <1>3 DEF PublishAgain
<1>4. ASSUME NEW x \in Offerings, Publish(x) \/ Confirm(x) \/ Retire(x) PROVE UNCHANGED entry
  BY <1>4 DEF Publish, Confirm, Retire
<1>5. ASSUME NEW p \in Parts, UpdatePart(p) \/ DeletePart(p) PROVE UNCHANGED entry
  BY <1>5 DEF UpdatePart, DeletePart
<1>6. ASSUME NEW x \in Offerings, x # o, Fail(x) \/ CallSync(x) \/ CallDelete(x) PROVE entry'[o] = entry[o]
  BY <1>6 DEF Fail, CallSync, CallDelete, Inv, TypeOK
<1>7. /\ Fail(o) => entry'[o] = "none"
      /\ CallSync(o) => entry'[o] = "syncing"
      /\ CallDelete(o) => entry'[o] = "deleting"
  BY DEF Fail, CallSync, CallDelete, Inv, TypeOK
<1>8. Answer => entry'[o] = Answered[entry[o]]
  BY DEF Answer
<1>9. Crash => entry'[o] = CASE entry[o] = "syncing" -> "again"
                             [] entry[o] = "deleting" -> "synced"
                             [] OTHER -> entry[o]
  BY DEF Crash
<1>10. ASSUME UNCHANGED vars PROVE UNCHANGED entry
  BY <1>10 DEF vars
<1>11. CASE Owners
  BY <1>4, <1>5, <1>6, <1>7, <1>11 DEF Owners
<1> QED
  BY <1>1, <1>2, <1>3, <1>8, <1>9, <1>10, <1>11 DEF Next

\* Where a new event comes from.
LEMMA NewEvents ==
  ASSUME Inv, [Next]_vars, NEW e \in issued', e \notin issued
  PROVE  \/ e.type = "OfferingPublished" /\ e.of \in Offerings /\ Confirm(e.of)
         \/ e.type = "OfferingRetired" /\ e.of \in Offerings /\ Retire(e.of)
         \/ e.type \in {"Updated", "Deleted"} /\ e.of \in Parts
<1>1. ASSUME NEW x, NEW type, Issues(type, x) PROVE e.type = type /\ e.of = x
  BY <1>1, IssueEffect DEF Issues
<1>2. ASSUME NEW t \in Topics, MarkProcessed(t) \/ Acknowledge(t) PROVE issued' = issued
  BY <1>2 DEF MarkProcessed, Acknowledge
<1>3. ASSUME NEW f \in issued, PublishAgain(f) PROVE issued' = issued
  BY <1>3 DEF PublishAgain
<1> QED
  BY <1>1, <1>2, <1>3, EventNext DEF events

\* An offering's events tell what it has become, and its entry goes with it.
Told ==
    /\ \A e \in issued : e.type = "OfferingPublished" => status[e.of] \in {"PUBLISHED", "RETIRED"}
    /\ \A e \in issued : e.type = "OfferingRetired" => status[e.of] = "RETIRED"
    /\ \A o \in Offerings : status[o] \in {"PUBLISHED", "RETIRED"} => entry[o] = "synced"
    /\ \A o \in Offerings : status[o] = "DRAFT" => entry[o] = "none"
    /\ work["worker"].step \in {"remove", "unindex"} => entry[work["worker"].on] = "deleting"

\* No step of a task but the first of a request begins a removal.
LEMMA RemovesOn ==
  ASSUME Inv, NEW t \in Tasks, TaskStep(t), work'[t].step \in {"remove", "unindex"}
  PROVE  /\ work[t].step \in {"remove", "unindex"} /\ work'[t].on = work[t].on
         /\ UNCHANGED entry
<1>1. \A step, todo, on : Task(step, todo, on).step = step
  BY TaskFields
<1>2. Raised(t).step \in {"skip", "next"}
  BY RaisedType
<1>3. ASSUME NEW o \in Offerings, FetchOffering(t, o) PROVE FALSE
  <2>1. work'[t].step = "read" \/ work'[t] = Task("next", work[t].todo \ {o}, Nobody)
    BY <1>3, FetchOfferingEffect
  <2>2. work'[t].step \in {"read", "next"}
    BY <1>1, <2>1
  <2> QED
    BY <2>2
<1>4. ~FetchPart(t)
  <2>1. FetchPart(t) => work'[t].step = "read"
    BY FetchPartEffect
  <2> QED
    BY <2>1
<1>5. ~WriteMongo(t)
  <2>1. WriteMongo(t) => work'[t].step \in {"index", "next"}
    BY <1>1, WriteMongoEffect
  <2> QED
    BY <2>1
<1>6. ~IndexElastic(t)
  <2>1. IndexElastic(t) => work'[t].step = "next"
    BY <1>1, IndexElasticEffect
  <2> QED
    BY <2>1
<1>7. ~RemoveElastic(t)
  <2>1. RemoveElastic(t) => work'[t].step \in {"skip", "next"}
    BY <1>1, <1>2, RemoveElasticEffect
  <2> QED
    BY <2>1
<1>8. CASE RemoveMongo(t)
  <2>1. /\ work[t].step = "remove" /\ UNCHANGED entry
        /\ work'[t].on = work[t].on \/ work'[t] = Raised(t)
    BY <1>8, RemoveMongoEffect
  <2> QED
    BY <1>2, <2>1
<1> QED
  BY <1>3, <1>4, <1>5, <1>6, <1>7, <1>8 DEF TaskStep

LEMMA NextTold == ASSUME Inv, Hands, Told, [Next]_vars PROVE Told'
<1>1. ASSUME NEW e \in issued', e \in issued, e.type \in {"OfferingPublished", "OfferingRetired"}
      PROVE  /\ e.of \in Offerings
             /\ e.type = "OfferingPublished" => status'[e.of] \in {"PUBLISHED", "RETIRED"}
             /\ e.type = "OfferingRetired" => status'[e.of] = "RETIRED"
  <2>1. e.of \in Offerings
    BY <1>1 DEF Inv, EventsInv, OfAPart
  <2> QED
    BY <1>1, <2>1, StatusNext DEF Told, Publish, Fail, Confirm, Retire
<1>2. ASSUME NEW e \in issued', e \notin issued
      PROVE  /\ e.type = "OfferingPublished" => status'[e.of] \in {"PUBLISHED", "RETIRED"}
             /\ e.type = "OfferingRetired" => status'[e.of] = "RETIRED"
  BY <1>2, NewEvents DEF Confirm, Retire, Inv, TypeOK
<1>3. ASSUME NEW o \in Offerings
      PROVE  /\ status'[o] \in {"PUBLISHED", "RETIRED"} => entry'[o] = "synced"
             /\ status'[o] = "DRAFT" => entry'[o] = "none"
  <2>1. Answered["synced"] = "synced" /\ Answered["none"] = "none"
    BY DEF Answered
  <2>2. CASE status'[o] = status[o]
    BY <2>1, <2>2, EntryNext DEF Told, Fail, CallSync, CallDelete
  <2>3. CASE Publish(o) /\ status'[o] = "PUBLISHING"
    BY <2>3
  <2>4. CASE Confirm(o) /\ status'[o] = "PUBLISHED"
    BY <2>4 DEF Confirm
  <2>5. CASE Fail(o) /\ status'[o] = "DRAFT"
    BY <2>5 DEF Fail, Inv, TypeOK
  <2>6. CASE Retire(o) /\ status'[o] = "RETIRED"
    BY <2>6 DEF Retire, Told
  <2> QED
    BY <2>2, <2>3, <2>4, <2>5, <2>6, StatusNext
<1>4. ASSUME work'["worker"].step \in {"remove", "unindex"}
      PROVE  entry'[work'["worker"].on] = "deleting"
  <2>1. PICK w \in Tasks : w = "worker" /\ w \notin Topics
    BY DEF Tasks, Topics
  <2>2. \A step, todo, on : Task(step, todo, on).step = step /\ Task(step, todo, on).on = on
    BY TaskFields
  <2>3. Idle.step = "idle"
    BY IdleType
  <2>4. ASSUME work[w].step \in {"remove", "unindex"}, work'[w].on = work[w].on
        PROVE  entry'[work'[w].on] = "deleting"
    <3>1. work[w].on \in Offerings /\ entry[work[w].on] = "deleting"
      BY <2>1, <2>4 DEF Hands, AtHand, Told
    <3>2. ~Answer /\ ~\E o \in Offerings : CallSync(o)
      BY <2>1, <2>3, <2>4 DEF Answer, CallSync
    <3>3. ~Crash
      BY <1>4, <2>1, <2>3 DEF Crash
    <3> QED
      BY <2>4, <3>1, <3>2, <3>3, EntryNext DEF Fail
  <2>5. ASSUME TaskStep(w) PROVE entry'[work'[w].on] = "deleting"
    BY <1>4, <2>1, <2>4, <2>5, RemovesOn
  <2>6. ASSUME work'[w] = work[w] PROVE entry'[work'[w].on] = "deleting"
    BY <1>4, <2>1, <2>4, <2>6
  <2>7. ASSUME NEW o \in Offerings, CallDelete(o), work'[w] = Task("remove", {}, o)
        PROVE  entry'[work'[w].on] = "deleting"
    <3>1. entry'[o] = "deleting"
      BY <2>7 DEF CallDelete, Inv, TypeOK
    <3> QED
      BY <2>2, <2>7, <3>1
  <2>8. /\ \A o \in Offerings : work'[w] # Task("next", {o}, Nobody)
        /\ work'[w] # Idle
    BY <1>4, <2>1, <2>2, <2>3
  <2>9. \/ work'[w] = work[w] \/ TaskStep(w)
        \/ \E o \in Offerings : CallDelete(o) /\ work'[w] = Task("remove", {}, o)
    BY <2>1, <2>8, TaskNext
  <2>10. entry'[work'[w].on] = "deleting"
    BY <2>5, <2>6, <2>7, <2>9
  <2> QED
    BY <2>1, <2>10
<1> QED
  BY <1>1, <1>2, <1>3, <1>4 DEF Told

------------------------------------------------------------------------------
(* The events that are still to be handled.                                *)

\* The events in a queue.
Queued(t) == {queue[t][i] : i \in DOMAIN queue[t]}

\* An event that its consumer has not handled, and one that the consumer has not
\* begun either.
Pending(e, t) == e \in Queued(t) /\ e.id \notin processed
Ahead(e, t) == Pending(e, t) /\ (e # Head(queue[t]) \/ work[t] = Idle)

\* A consumer that has nothing in hand begins with the oldest event, if it moves.
LEMMA IdleNext ==
  ASSUME Inv, [Next]_vars, NEW t \in Topics, work[t] = Idle
  PROVE  work'[t] = Idle \/ Begin(t)
<1>1. t \in Tasks /\ t # "worker" /\ work[t].step = "idle"
  BY IdleType DEF Tasks, Topics
<1>2. ~TaskStep(t)
  BY <1>1 DEF TaskStep, FetchOffering, FetchPart, WriteMongo, IndexElastic, RemoveMongo, RemoveElastic
<1>3. ~FindAffected(t) /\ ~MarkProcessed(t) /\ ~Acknowledge(t)
  BY <1>1 DEF FindAffected, MarkProcessed, Acknowledge
<1> QED
  BY <1>1, <1>2, <1>3, TaskNext DEF Consumer

\* The head of a queue stays till it is acknowledged.
LEMMA HeadNext ==
  ASSUME Inv, [Next]_vars, NEW t \in Topics, queue[t] # <<>>, ~Acknowledge(t)
  PROVE  queue'[t] # <<>> /\ Head(queue'[t]) = Head(queue[t])
<1>1. CASE queue'[t] = queue[t]
  BY <1>1
<1>2. ASSUME NEW x, NEW type, Issues(type, x) PROVE queue'[t] # <<>> /\ Head(queue'[t]) = Head(queue[t])
  BY <1>2, IssueEffect, AddsEffect DEF Issues
<1>3. ASSUME NEW e \in issued, PublishAgain(e) PROVE queue'[t] # <<>> /\ Head(queue'[t]) = Head(queue[t])
  BY <1>3, AddsEffect DEF PublishAgain, Adds
<1>4. ASSUME NEW u \in Topics, MarkProcessed(u) \/ Acknowledge(u) PROVE queue'[t] = queue[t]
  BY <1>4, AcknowledgeEffect DEF MarkProcessed
<1> QED
  BY <1>1, <1>2, <1>3, <1>4, EventNext DEF events

\* What an added event leaves in the queues, and where it stands itself.
LEMMA AddsQueued ==
  ASSUME Inv, Inv', NEW e \in issued', issued \subseteq issued', Adds(e)
  PROVE  /\ \A t \in Topics : Queued(t) \subseteq Queued(t)'
         /\ e \in Queued(TopicOf(e.of))'
<1>1. ASSUME NEW t \in Topics
      PROVE  /\ DOMAIN queue[t] = 1 .. Len(queue[t]) /\ Len(queue[t]) \in Nat
             /\ DOMAIN queue'[t] = 1 .. Len(queue'[t])
  <2>1. queue'[t] \in Seq(issued')
    BY DEF Inv, TypeOK
  <2> QED
    BY <2>1, QueueType, LenProperties
<1>2. ASSUME NEW t \in Topics PROVE Queued(t) \subseteq Queued(t)'
  <2>1. DOMAIN queue[t] \subseteq DOMAIN queue'[t] /\ \A i \in DOMAIN queue[t] : queue'[t][i] = queue[t][i]
    <3>1. \A i \in DOMAIN queue[t] : queue'[t][i] = queue[t][i]
      BY <1>1, AddsEffect
    <3>2. CASE t # TopicOf(e.of)
      BY <3>1, <3>2, AddsEffect
    <3>3. CASE t = TopicOf(e.of)
      BY <1>1, <3>1, <3>3, AddsEffect
    <3> QED
      BY <3>2, <3>3
  <2> QED
    BY <2>1 DEF Queued
<1>3. e \in Queued(TopicOf(e.of))'
  <2> DEFINE t == TopicOf(e.of)
  <2>1. t \in Topics
    BY TopicOfType
  <2>2. Len(queue'[t]) = Len(queue[t]) + 1 /\ queue'[t][Len(queue[t]) + 1] = e
    BY <2>1, AddsEffect
  <2> HIDE DEF t
  <2>3. Len(queue[t]) + 1 \in DOMAIN queue'[t]
    BY <1>1, <2>1, <2>2
  <2>4. e \in Queued(t)'
    BY <2>2, <2>3 DEF Queued
  <2> QED
    BY <2>4 DEF t
<1> QED
  BY <1>2, <1>3

LEMMA TailQueued ==
  ASSUME Inv, NEW t \in Topics, Acknowledge(t), NEW e \in Queued(t), e # Head(queue[t])
  PROVE  e \in Queued(t)'
<1>1. queue[t] # <<>> /\ queue'[t] = Tail(queue[t])
  BY AcknowledgeEffect
<1>2. /\ queue[t] \in Seq(issued) /\ Len(queue[t]) \in Nat /\ DOMAIN queue[t] = 1 .. Len(queue[t])
      /\ Head(queue[t]) = queue[t][1]
  BY <1>1, QueueType
<1>3. /\ Tail(queue[t]) \in Seq(issued) /\ Len(Tail(queue[t])) = Len(queue[t]) - 1
      /\ \A i \in 1 .. Len(Tail(queue[t])) : Tail(queue[t])[i] = queue[t][i + 1]
  BY <1>1, <1>2, HeadTailProperties
<1>4. DOMAIN Tail(queue[t]) = 1 .. Len(queue[t]) - 1
  BY <1>3, LenProperties
<1>5. PICK i \in 1 .. Len(queue[t]) : e = queue[t][i] /\ i # 1
  BY <1>2 DEF Queued
<1>6. i - 1 \in 1 .. Len(queue[t]) - 1 /\ (i - 1) + 1 = i
  BY <1>2, <1>5
<1>7. Tail(queue[t])[i - 1] = e
  BY <1>3, <1>5, <1>6
<1> QED
  BY <1>1, <1>4, <1>6, <1>7 DEF Queued

LEMMA QueuedType ==
  ASSUME Inv, Numbered, NEW t \in Topics, NEW e \in Queued(t)
  PROVE  e \in issued /\ TopicOf(e.of) = t /\ queue[t] # <<>>
<1>1. /\ DOMAIN queue[t] = 1 .. Len(queue[t]) /\ \A i \in 1 .. Len(queue[t]) : queue[t][i] \in issued
  BY QueueType
<1>2. PICK i \in 1 .. Len(queue[t]) : e = queue[t][i]
  BY <1>1 DEF Queued
<1>3. queue[t] # <<>>
  <2>1. Len(<<>>) = 0
    BY EmptySeq
  <2>2. 1 .. 0 = {}
    OBVIOUS
  <2> QED
    BY <1>2, <2>1, <2>2
<1> QED
  BY <1>1, <1>2, <1>3 DEF Numbered

\* A pending event stays so till its consumer, which has it in hand, marks or
\* acknowledges it.
LEMMA PendingNext ==
  ASSUME Inv, Inv', Numbered, [Next]_vars, NEW t \in Topics, NEW e, Pending(e, t)
  PROVE  Pending(e, t)' \/ (e = Head(queue[t]) /\ (MarkProcessed(t) \/ Acknowledge(t)))
<1>1. e \in issued /\ TopicOf(e.of) = t /\ queue[t] # <<>>
  BY QueuedType DEF Pending
<1>2. CASE UNCHANGED events
  BY <1>2 DEF events, Pending, Queued
<1>3. ASSUME NEW x, NEW type, Issues(type, x) PROVE Pending(e, t)'
  <2>1. PICK f \in issued' : issued' = issued \union {f} /\ Adds(f)
    BY <1>3, IssueEffect DEF Issues
  <2>2. e \in Queued(t)'
    BY <2>1, AddsQueued DEF Pending
  <2> QED
    BY <1>3, <2>2 DEF Pending, Issues
<1>4. ASSUME NEW f \in issued, PublishAgain(f) PROVE Pending(e, t)'
  <2>1. Adds(f) /\ UNCHANGED <<issued, processed>>
    BY <1>4 DEF PublishAgain, Adds
  <2>2. e \in Queued(t)'
    BY <2>1, AddsQueued DEF Pending
  <2> QED
    BY <2>1, <2>2 DEF Pending
<1>5. ASSUME NEW u \in Topics, MarkProcessed(u)
      PROVE  Pending(e, t)' \/ (e = Head(queue[t]) /\ MarkProcessed(t))
  <2>1. /\ queue[u] # <<>> /\ UNCHANGED queue
        /\ processed' = processed \/ processed' = processed \union {Head(queue[u]).id}
    BY <1>5, MarkProcessedEffect
  <2>2. e \in Queued(t)'
    BY <2>1 DEF Pending, Queued
  <2>3. CASE e.id \in processed'
    <3>1. e.id = Head(queue[u]).id
      BY <2>1, <2>3 DEF Pending
    <3>2. Head(queue[u]) \in issued /\ TopicOf(Head(queue[u]).of) = u
      BY <2>1, QueueType DEF Numbered
    <3>3. e = Head(queue[u])
      BY <1>1, <3>1, <3>2 DEF Numbered
    <3> QED
      BY <1>1, <1>5, <3>2, <3>3
  <2> QED
    BY <2>2, <2>3 DEF Pending
<1>6. ASSUME NEW u \in Topics, Acknowledge(u)
      PROVE  Pending(e, t)' \/ (e = Head(queue[t]) /\ Acknowledge(t))
  <2>1. UNCHANGED processed /\ \A v \in Topics : v # u => queue'[v] = queue[v]
    BY <1>6, AcknowledgeEffect
  <2>2. CASE u # t
    BY <2>1, <2>2 DEF Pending, Queued
  <2>3. CASE u = t /\ e # Head(queue[t])
    BY <1>6, <2>1, <2>3, TailQueued DEF Pending
  <2> QED
    BY <1>6, <2>2, <2>3
<1> QED
  BY <1>2, <1>3, <1>4, <1>5, <1>6, EventNext

\* An event that is ahead stays ahead till its consumer begins it.
LEMMA AheadNext ==
  ASSUME Inv, Inv', Numbered, [Next]_vars, NEW t \in Topics, NEW e, Ahead(e, t)
  PROVE  \/ Ahead(e, t)'
         \/ Begin(t) /\ e = Head(queue[t]) /\ Pending(e, t)' /\ Head(queue'[t]) = e
<1>1. queue[t] # <<>> /\ Pending(e, t)
  BY QueuedType DEF Ahead, Pending
<1>2. CASE e # Head(queue[t])
  <2>1. Pending(e, t)'
    BY <1>1, <1>2, PendingNext
  <2>2. CASE Acknowledge(t)
    BY <2>1, <2>2, AcknowledgeEffect DEF Ahead
  <2>3. CASE ~Acknowledge(t)
    BY <1>1, <1>2, <2>1, <2>3, HeadNext DEF Ahead
  <2> QED
    BY <2>2, <2>3
<1>3. CASE e = Head(queue[t])
  <2>1. work[t] = Idle /\ work[t].step = "idle"
    BY <1>3, IdleType DEF Ahead
  <2>2. ~MarkProcessed(t) /\ ~Acknowledge(t)
    BY <2>1 DEF MarkProcessed, Acknowledge
  <2>3. Pending(e, t)' /\ Head(queue'[t]) = e
    BY <1>1, <1>3, <2>2, PendingNext, HeadNext
  <2>4. work'[t] = Idle \/ Begin(t)
    BY <2>1, IdleNext
  <2> QED
    BY <1>3, <2>3, <2>4 DEF Ahead
<1> QED
  BY <1>2, <1>3

\* An event that is in hand stays in hand till it is marked or acknowledged.
LEMMA InHandNext ==
  ASSUME Inv, Inv', Numbered, [Next]_vars, NEW t \in Topics, NEW e, Pending(e, t),
         e = Head(queue[t]), ~MarkProcessed(t), ~Acknowledge(t)
  PROVE  Pending(e, t)' /\ Head(queue'[t]) = e
<1>1. queue[t] # <<>>
  BY QueuedType DEF Pending
<1> QED
  BY <1>1, PendingNext, HeadNext

\* An event that is issued is ahead.
LEMMA IssueAhead ==
  ASSUME Inv, Inv', Hands, Numbered, NEW x, NEW type, Issues(type, x)
  PROVE  \E e \in issued' : e.of = x /\ e.type = type /\ Ahead(e, TopicOf(x))'
<1>1. PICK e \in issued' :
         /\ e.id = Cardinality(issued) + 1 /\ e.type = type /\ e.of = x
         /\ issued' = issued \union {e} /\ Adds(e) /\ e \notin issued
         /\ Cardinality(issued) \in Nat
  BY IssuedOne DEF Issues
<1> DEFINE t == TopicOf(x)
<1>2. t \in Topics /\ t \in Tasks
  BY TopicOfType DEF Tasks
<1>3. e.id \notin processed'
  <2>1. ~(Cardinality(issued) + 1 \in 1 .. Cardinality(issued))
    BY <1>1
  <2> QED
    BY <1>1, <2>1 DEF Issues, Numbered
<1>4. e \in Queued(t)'
  BY <1>1, AddsQueued
<1>5. e # Head(queue'[t]) \/ work'[t] = Idle
  <2>1. CASE queue[t] = <<>>
    <3>1. work[t] = Idle
      BY <1>2, <2>1 DEF Inv, Busy, Hands, AtHand
    <3> QED
      BY <3>1 DEF Issues, tasks
  <2>2. CASE queue[t] # <<>>
    <3>1. Head(queue[t]) \in issued /\ Head(queue'[t]) = Head(queue[t])
      BY <1>1, <1>2, <2>2, QueueType, AddsEffect
    <3> QED
      BY <1>1, <3>1
  <2> QED
    BY <2>1, <2>2
<1> QED
  BY <1>1, <1>3, <1>4, <1>5 DEF Ahead, Pending

------------------------------------------------------------------------------
(* How a sync begins and how it ends, when no source and no MongoDB fails.  *)

\* The faults after which MongoDB still converges.
CalmFaults == {"duplicate", "crash", "elastic"}

\* Task t reads the offering before it writes MongoDB the next time; or it has a
\* sync of the offering in hand at all.
WillSync(t, o) == o \in work[t].todo \/ (o = work[t].on /\ work[t].step = "read")
InSync(t, o) == o \in work[t].todo \/ (o = work[t].on /\ work[t].step \notin {"remove", "unindex"})

LEMMA Calm == happened' \subseteq CalmFaults => {"fetch", "part", "mongo"} \intersect happened' = {}
  BY DEF CalmFaults

\* A sync that is to come stays to come till the task writes MongoDB.
LEMMA SyncNext ==
  ASSUME Inv, Hands, [Next]_vars, happened' \subseteq CalmFaults,
         NEW t \in Tasks, NEW o \in Offerings, WillSync(t, o)
  PROVE  WillSync(t, o)' \/ (WriteMongo(t) /\ o = work[t].on) \/ Crash
<1>1. o # Nobody /\ AtHand(t, work[t], Head(queue[t]))
  BY StoreAssumption DEF Hands
<1>2. \A step, todo, on : Task(step, todo, on).todo = todo
  BY TaskFields
<1>3. work[t].step \in {"next", "read", "index"}
  <2>1. work[t].step \in Steps
    BY WorkType
  <2>2. Idle.todo = {} /\ Idle.on = Nobody
    BY TaskFields DEF Idle
  <2> QED
    BY <1>1, <2>1, <2>2 DEF AtHand, WillSync, Steps
<1>4. ASSUME NEW x \in Offerings, FetchOffering(t, x) PROVE WillSync(t, o)'
  <2>1. /\ work[t].step = "next"
        /\ work'[t].step = "read" /\ work'[t].todo = work[t].todo \ {x} /\ work'[t].on = x
    BY <1>4, Calm, FetchOfferingEffect
  <2> QED
    BY <2>1 DEF WillSync
<1>5. CASE FetchPart(t)
  <2>1. /\ work[t].step = "read" /\ work'[t].step = "read"
        /\ work'[t].todo = work[t].todo /\ work'[t].on = work[t].on
    BY <1>5, FetchPartEffect
  <2> QED
    BY <2>1 DEF WillSync
<1>6. CASE WriteMongo(t) /\ o # work[t].on
  <2>1. work'[t].todo = work[t].todo
    BY <1>6, Calm, WriteMongoEffect
  <2> QED
    BY <1>6, <2>1 DEF WillSync
<1>7. CASE IndexElastic(t)
  <2>1. work[t].step = "index" /\ work'[t] = Task("next", work[t].todo, Nobody)
    BY <1>7, IndexElasticEffect
  <2> QED
    BY <1>2, <2>1 DEF WillSync
<1>8. CASE TaskStep(t)
  <2>1. ~RemoveMongo(t) /\ ~RemoveElastic(t)
    BY <1>3 DEF RemoveMongo, RemoveElastic
  <2> QED
    BY <1>4, <1>5, <1>6, <1>7, <1>8, <2>1 DEF TaskStep
<1>9. work[t] # Idle
  BY <1>3, IdleType
<1>10. ~(t \in Topics /\ Consumer(t))
  <2>1. ~Begin(t) /\ ~FindAffected(t) /\ ~Acknowledge(t)
    BY <1>3, <1>9 DEF Begin, FindAffected, Acknowledge
  <2>2. ~MarkProcessed(t)
    BY DEF MarkProcessed, WillSync
  <2> QED
    BY <2>1, <2>2 DEF Consumer
<1>11. t = "worker" => ~Answer /\ \A x \in Offerings : ~CallSync(x) /\ ~CallDelete(x)
  BY <1>9 DEF Answer, CallSync, CallDelete, WillSync
<1>12. CASE work'[t] = work[t]
  BY <1>12 DEF WillSync
<1> QED
  BY <1>8, <1>10, <1>11, <1>12, TaskNext

\* How a sync of an offering begins.
LEMMA SyncBegins ==
  ASSUME Inv, Hands, [Next]_vars, happened' \subseteq CalmFaults,
         NEW t \in Tasks, NEW o \in Offerings, InSync(t, o)'
  PROVE  \/ InSync(t, o)
         \/ CallSync(o)
         \/ /\ t \in Topics /\ Begin(t)
            /\ Head(queue[t]).type = "OfferingPublished" /\ Head(queue[t]).of = o
            /\ Head(queue[t]).id \notin processed
         \/ /\ t \in Topics /\ FindAffected(t)
            /\ mongo[o].shows[Head(queue[t]).of] # 0
<1>1. o # Nobody
  BY StoreAssumption
<1>2. \A step, todo, on : /\ Task(step, todo, on).todo = todo
                          /\ Task(step, todo, on).on = on
                          /\ Task(step, todo, on).step = step
  BY TaskFields
<1>3. work'[t] # Idle /\ work'[t] # Raised(t) /\ work'[t] # Task("skip", {}, Nobody)
  BY <1>1, <1>2 DEF InSync, Idle, Raised
<1>4. ASSUME NEW x \in Offerings, FetchOffering(t, x) PROVE InSync(t, o)
  <2>1. /\ x \in work[t].todo
        /\ work'[t].step = "read" /\ work'[t].todo = work[t].todo \ {x} /\ work'[t].on = x
    BY <1>4, Calm, FetchOfferingEffect
  <2> QED
    BY <2>1 DEF InSync
<1>5. CASE FetchPart(t)
  <2>1. /\ work[t].step = "read"
        /\ work'[t].todo = work[t].todo /\ work'[t].on = work[t].on
    BY <1>5, FetchPartEffect
  <2> QED
    BY <2>1 DEF InSync
<1>6. CASE WriteMongo(t)
  <2>1. work[t].step = "read" /\ work'[t].todo = work[t].todo /\ work'[t].on = work[t].on
    BY <1>6, Calm, WriteMongoEffect
  <2> QED
    BY <2>1 DEF InSync
<1>7. CASE IndexElastic(t)
  <2>1. work'[t] = Task("next", work[t].todo, Nobody)
    BY <1>7, IndexElasticEffect
  <2> QED
    BY <1>1, <1>2, <2>1 DEF InSync
<1>8. CASE RemoveMongo(t)
  <2>1. work'[t].step = "unindex" /\ work'[t].todo = work[t].todo
    BY <1>3, <1>8, RemoveMongoEffect
  <2> QED
    BY <2>1 DEF InSync
<1>9. ~RemoveElastic(t)
  <2>1. RemoveElastic(t) => work'[t] = Task("next", {}, Nobody)
    BY <1>3, RemoveElasticEffect
  <2> QED
    BY <1>1, <1>2, <2>1 DEF InSync
<1>10. CASE TaskStep(t)
  BY <1>4, <1>5, <1>6, <1>7, <1>8, <1>9, <1>10 DEF TaskStep
<1>11. ASSUME t \in Topics, Begin(t)
       PROVE  /\ Head(queue[t]).type = "OfferingPublished" /\ Head(queue[t]).of = o
              /\ Head(queue[t]).id \notin processed
  <2> DEFINE e == Head(queue[t])
  <2>1. e.id \notin processed /\ work'[t] = FirstTask(e)
    BY <1>3, <1>11, BeginEffect
  <2>2. e.type = "OfferingPublished"
    BY <1>1, <1>2, <2>1 DEF FirstTask, InSync
  <2>3. FirstTask(e) = Task("next", {e.of}, Nobody)
    BY <2>2 DEF FirstTask
  <2> HIDE DEF e
  <2>4. e.of = o
    BY <1>1, <1>2, <2>1, <2>3 DEF InSync
  <2> QED
    BY <2>1, <2>2, <2>4 DEF e
<1>12. ASSUME t \in Topics, FindAffected(t) PROVE mongo[o].shows[Head(queue[t]).of] # 0
  <2> DEFINE found == {x \in Offerings : mongo[x].shows[Head(queue[t]).of] # 0}
  <2>1. work'[t] = Task("next", found, Nobody)
    BY <1>3, <1>12, FindAffectedEffect
  <2>2. o \in found
    <3> HIDE DEF found
    <3>1. work'[t].todo = found /\ work'[t].on = Nobody
      BY <1>2, <2>1
    <3> QED
      BY <1>1, <3>1 DEF InSync
  <2> QED
    BY <2>2
<1>13. ~(t \in Topics /\ (MarkProcessed(t) \/ Acknowledge(t)))
  BY <1>3, MarkProcessedEffect, AcknowledgeEffect
<1>14. ASSUME NEW x \in Offerings, CallSync(x), work'[t] = Task("next", {x}, Nobody) PROVE CallSync(o)
  <2>1. x = o
    BY <1>1, <1>2, <1>14 DEF InSync
  <2> QED
    BY <1>14, <2>1
<1>15. ASSUME NEW x \in Offerings PROVE work'[t] # Task("remove", {}, x)
  BY <1>2 DEF InSync
<1>16. CASE work'[t] = work[t]
  BY <1>16 DEF InSync
<1> QED
  BY <1>3, <1>10, <1>11, <1>12, <1>13, <1>14, <1>15, <1>16, TaskNext DEF Consumer

\* Who writes MongoDB, and what.
LEMMA MongoNext ==
  ASSUME Inv, [Next]_vars, happened' \subseteq CalmFaults, NEW o \in Offerings
  PROVE  \/ mongo'[o] = mongo[o]
         \/ \E t \in Tasks : WriteMongo(t) /\ work[t].on = o /\ mongo'[o] = work[t].doc
         \/ \E t \in Tasks : RemoveMongo(t) /\ work[t].on = o /\ mongo'[o] = NoDocument
<1> USE DEF stores
<1>1. mongo \in [Offerings -> Document]
  BY DEF Inv, TypeOK
<1>2. ASSUME NEW t \in Tasks, WriteMongo(t)
      PROVE  mongo'[o] = mongo[o] \/ (work[t].on = o /\ mongo'[o] = work[t].doc)
  <2>1. mongo' = [mongo EXCEPT ![work[t].on] = work[t].doc]
    BY <1>2, Calm, WriteMongoEffect
  <2> QED
    BY <1>1, <2>1
<1>3. ASSUME NEW t \in Tasks, RemoveMongo(t)
      PROVE  mongo'[o] = mongo[o] \/ (work[t].on = o /\ mongo'[o] = NoDocument)
  <2>1. mongo' = [mongo EXCEPT ![work[t].on] = NoDocument]
    BY <1>3, Calm, RemoveMongoEffect
  <2> QED
    BY <1>1, <2>1
<1>4. ASSUME NEW t \in Tasks, TaskStep(t), ~WriteMongo(t), ~RemoveMongo(t) PROVE mongo' = mongo
  BY <1>4 DEF TaskStep, FetchOffering, FetchPart, IndexElastic, RemoveElastic
<1>5. ASSUME NEW t \in Topics, Consumer(t) PROVE mongo' = mongo
  BY <1>5 DEF Consumer, Begin, FindAffected, MarkProcessed, Acknowledge
<1>6. CASE Owners
  BY <1>6 DEF Owners, Publish, Confirm, Fail, Retire, CallSync, CallDelete, UpdatePart, DeletePart
<1>7. CASE Answer \/ Crash \/ \E e \in issued : PublishAgain(e)
  BY <1>7 DEF Answer, Crash, PublishAgain
<1>8. CASE UNCHANGED vars
  BY <1>8 DEF vars
<1>9. ASSUME NEW t \in Tasks, TaskStep(t)
      PROVE  \/ mongo'[o] = mongo[o]
             \/ WriteMongo(t) /\ work[t].on = o /\ mongo'[o] = work[t].doc
             \/ RemoveMongo(t) /\ work[t].on = o /\ mongo'[o] = NoDocument
  BY <1>2, <1>3, <1>4, <1>9
<1> QED
  BY <1>5, <1>6, <1>7, <1>8, <1>9 DEF Next

\* How a task comes to read an offering.
LEMMA ReadNext ==
  ASSUME Inv, Hands, [Next]_vars, happened' \subseteq CalmFaults,
         NEW t \in Tasks, NEW o \in Offerings, work'[t].step = "read", work'[t].on = o
  PROVE  \/ work'[t] = work[t]
         \/ FetchOffering(t, o)
         \/ FetchPart(t) /\ work[t].on = o
<1>1. \A step, todo, on : Task(step, todo, on).step = step
  BY TaskFields
<1>2. Idle.step = "idle" /\ Raised(t).step \in {"skip", "next"}
  BY IdleType, RaisedType
<1>3. ASSUME NEW x \in Offerings, FetchOffering(t, x) PROVE x = o
  <2>1. work'[t].on = x
    BY <1>3, Calm, FetchOfferingEffect
  <2> QED
    BY <2>1
<1>4. FetchPart(t) => work[t].on = o
  BY FetchPartEffect
<1>5. ~WriteMongo(t)
  <2>1. WriteMongo(t) => work'[t].step = "index"
    BY Calm, WriteMongoEffect
  <2> QED
    BY <2>1
<1>6. ~IndexElastic(t)
  <2>1. IndexElastic(t) => work'[t].step = "next"
    BY <1>1, IndexElasticEffect
  <2> QED
    BY <2>1
<1>7. ~RemoveMongo(t)
  <2>1. RemoveMongo(t) => work'[t].step = "unindex"
    BY Calm, RemoveMongoEffect
  <2> QED
    BY <2>1
<1>8. ~RemoveElastic(t)
  <2>1. RemoveElastic(t) => work'[t].step \in {"skip", "next"}
    BY <1>1, <1>2, RemoveElasticEffect
  <2> QED
    BY <2>1
<1>9. ASSUME t \in Topics, Consumer(t) PROVE FALSE
  <2>1. FirstTask(Head(queue[t])).step # "read"
    BY <1>1 DEF FirstTask
  <2>2. ~Begin(t)
    <3>1. Begin(t) => work'[t] \in {Task("skip", {}, Nobody), FirstTask(Head(queue[t])), Raised(t)}
      BY <1>9, BeginEffect
    <3> QED
      BY <1>1, <1>2, <2>1, <3>1
  <2>3. ~FindAffected(t)
    <3>1. FindAffected(t) => work'[t] = Raised(t) \/ \E todo : work'[t] = Task("next", todo, Nobody)
      BY <1>9, FindAffectedEffect
    <3> QED
      BY <1>1, <1>2, <3>1
  <2>4. ~MarkProcessed(t) /\ ~Acknowledge(t)
    <3>1. /\ MarkProcessed(t) => work'[t] = Task("skip", {}, Nobody)
          /\ Acknowledge(t) => work'[t] = Idle
      BY <1>9, MarkProcessedEffect, AcknowledgeEffect
    <3> QED
      BY <1>1, <1>2, <3>1
  <2> QED
    BY <1>9, <2>2, <2>3, <2>4 DEF Consumer
<1>10. /\ \A x \in Offerings : work'[t] # Task("next", {x}, Nobody) /\ work'[t] # Task("remove", {}, x)
       /\ work'[t] # Idle
  BY <1>1, <1>2
<1>11. CASE TaskStep(t)
  BY <1>3, <1>4, <1>5, <1>6, <1>7, <1>8, <1>11 DEF TaskStep
<1> QED
  BY <1>9, <1>10, <1>11, TaskNext

------------------------------------------------------------------------------
(* MongoDB is right or an event that puts it right is to come.              *)

\* An event that is skipped is handled, or it retires an offering that is removed.
SkipsHandled ==
    \A t \in Topics : work[t].step = "skip" =>
        Head(queue[t]).id \in processed \/ Head(queue[t]).type = "OfferingRetired"

\* No publication is lost, and none is handled after the retirement.
InTurn ==
    /\ \A e \in issued : e.type = "OfferingPublished" => e.id \in processed \/ e \in Queued("offering")
    /\ \A j \in DOMAIN queue["offering"] : queue["offering"][j].type = "OfferingRetired" =>
          \A e \in issued : e.type = "OfferingPublished" /\ e.of = queue["offering"][j].of =>
              e.id \in processed \/ \E i \in 1 .. (j - 1) : queue["offering"][i] = e

\* MongoDB has no document of the offering, and no task will write one.
Absent(o) == mongo[o] = NoDocument /\ \A t \in Tasks : ~InSync(t, o)

\* The saga has not made the entry, or it has taken it back or is about to.
Unpublished(o) ==
    status[o] \in {"DRAFT", "PUBLISHING"} =>
        /\ entry[o] \in {"none", "deleted"} => Absent(o)
        /\ entry[o] = "deleting" => Absent(o) \/ (work["worker"].step = "remove" /\ work["worker"].on = o)

\* A retired offering has left MongoDB for good, or its retirement is still to come.
Retiring(o) ==
    \E e \in issued :
        /\ e.type = "OfferingRetired" /\ e.of = o
        /\ \/ Ahead(e, "offering")
           \/ /\ Pending(e, "offering") /\ e = Head(queue["offering"])
              /\ work["offering"].step = "remove" /\ work["offering"].on = o

Retired(o) ==
    status[o] = "RETIRED" =>
        \/ Retiring(o)
        \/ /\ Absent(o)
           /\ \A e \in issued : e.type = "OfferingPublished" /\ e.of = o => e.id \in processed

\* The document of a published offering says so, or its publication is still to come.
PublicationAhead(o) ==
    \E e \in issued : e.type = "OfferingPublished" /\ e.of = o /\ Ahead(e, "offering")

Publishing(o) ==
    \/ PublicationAhead(o)
    \/ \E e \in issued :
          /\ e.type = "OfferingPublished" /\ e.of = o
          /\ Pending(e, "offering") /\ e = Head(queue["offering"]) /\ WillSync("offering", o)

Published(o) == status[o] = "PUBLISHED" => mongo[o].status = "PUBLISHED" \/ Publishing(o)

\* A document shows a part as it is, or an event of the part is still to come.
Shown(o) == {PartsOf[o][i] : i \in DOMAIN PartsOf[o]} \ Characteristics

PartAhead(p) == \E e \in issued : e.of = p /\ Ahead(e, TopicOf(p))

PartComing(p, o) ==
    \/ PartAhead(p)
    \/ \E e \in issued :
          /\ e.of = p
          /\ Pending(e, TopicOf(p)) /\ e = Head(queue[TopicOf(p)])
          /\ work[TopicOf(p)].step = "find" \/ WillSync(TopicOf(p), o)

Fresh(o) ==
    /\ \A p \in Parts \ Shown(o) : mongo[o].shows[p] = 0
    /\ mongo[o].status # "none" =>
          \A p \in Shown(o) : \/ mongo[o].shows[p] = version[p]
                              \/ mongo[o].shows[p] # 0 /\ PartComing(p, o)

\* The same of the document that a task composes, but for the parts still to read.
Unread(t) == {work[t].unread[i] : i \in DOMAIN work[t].unread}

Reading(t, o) ==
    work[t].step = "read" /\ work[t].on = o =>
        /\ Unread(t) \subseteq {PartsOf[o][i] : i \in DOMAIN PartsOf[o]}
        /\ work[t].doc.status # "none"
        /\ status[o] = "PUBLISHED" => work[t].doc.status = "PUBLISHED" \/ PublicationAhead(o)
        /\ \A p \in Parts \ Shown(o) : work[t].doc.shows[p] = 0
        /\ \A p \in Shown(o) : \/ work[t].doc.shows[p] = version[p]
                               \/ work[t].doc.shows[p] # 0 /\ PartAhead(p)
                               \/ work[t].doc.shows[p] = 0 /\ p \in Unread(t)

\* What holds of an offering that no two tasks have worked on at a time.
InOrder(o) ==
    /\ Unpublished(o) /\ Retired(o) /\ Published(o) /\ Fresh(o)
    /\ \A t \in Tasks : Reading(t, o)

\* The inductive invariant of MongoDB, while no other fault has happened.
CalmInv ==
    happened \subseteq CalmFaults =>
        SkipsHandled /\ InTurn /\ \A o \in Offerings \ disturbed : InOrder(o)

LEMMA EventsGrow == ASSUME Inv, [Next]_vars PROVE issued \subseteq issued' /\ processed \subseteq processed'
<1>1. ASSUME NEW x, NEW type, Issues(type, x) PROVE issued \subseteq issued' /\ processed \subseteq processed'
  BY <1>1, IssueEffect DEF Issues
<1>2. ASSUME NEW t \in Topics, MarkProcessed(t) \/ Acknowledge(t)
      PROVE  issued \subseteq issued' /\ processed \subseteq processed'
  BY <1>2 DEF MarkProcessed, Acknowledge
<1>3. ASSUME NEW e \in issued, PublishAgain(e) PROVE issued \subseteq issued' /\ processed \subseteq processed'
  BY <1>3 DEF PublishAgain
<1> QED
  BY <1>1, <1>2, <1>3, EventNext DEF events

LEMMA OfferingTopic == \A o \in Offerings : TopicOf(o) = "offering"
  BY StoreAssumption DEF TopicOf, Parts

\* What is absent stays so, but for the saga's sync and a publication.
LEMMA AbsentNext ==
  ASSUME Inv, Hands, Numbered, [Next]_vars, happened' \subseteq CalmFaults,
         NEW o \in Offerings, Absent(o), ~CallSync(o),
         \A e \in issued : e.type = "OfferingPublished" /\ e.of = o => e.id \in processed
  PROVE  Absent(o)'
<1>1. mongo'[o] = NoDocument
  <2>1. ASSUME NEW t \in Tasks, WriteMongo(t), work[t].on = o PROVE FALSE
    BY <2>1 DEF WriteMongo, Absent, InSync
  <2> QED
    BY <2>1, MongoNext DEF Absent
<1>2. ASSUME NEW t \in Topics, Begin(t),
             Head(queue[t]).type = "OfferingPublished", Head(queue[t]).of = o
      PROVE  Head(queue[t]).id \in processed
  <2>1. Head(queue[t]) \in issued
    BY <1>2, QueueType DEF Begin
  <2> QED
    BY <1>2, <2>1
<1>3. ASSUME NEW t \in Topics, FindAffected(t) PROVE mongo[o].shows[Head(queue[t]).of] = 0
  <2>1. queue[t] # <<>> /\ OfAPart(Head(queue[t]))
    BY <1>3 DEF FindAffected, Inv, Busy
  <2>2. Head(queue[t]) \in issued
    BY <2>1, QueueType
  <2>3. Head(queue[t]).of \in Parts
    BY <2>1, <2>2 DEF Inv, EventsInv
  <2> QED
    BY <2>3 DEF Absent, NoDocument
<1>4. ASSUME NEW t \in Tasks PROVE ~InSync(t, o)'
  BY <1>2, <1>3, SyncBegins DEF Absent
<1> QED
  BY <1>1, <1>4 DEF Absent

\* The task that removes a document has the offering to itself.
LEMMA RemovalAbsent ==
  ASSUME Inv, Hands, OneTask, NEW o \in Offerings \ disturbed, NEW t \in Tasks,
         RemoveMongo(t), work[t].on = o, happened' \subseteq CalmFaults
  PROVE  Absent(o)'
<1>1. /\ work[t].step = "remove" /\ Only(t)
      /\ mongo' = [mongo EXCEPT ![work[t].on] = NoDocument]
      /\ work'[t].step = "unindex" /\ work'[t].todo = work[t].todo
  BY Calm, RemoveMongoEffect
<1>2. work[t].todo = {}
  BY <1>1 DEF Hands, AtHand
<1>3. ~InSync(t, o)'
  BY <1>1, <1>2 DEF InSync
<1>4. ASSUME NEW u \in Tasks, u # t PROVE ~InSync(u, o)'
  <2>1. ~(o \in work[u].todo \/ o = work[u].on)
    BY <1>4, Alone
  <2> QED
    BY <1>1, <1>4, <2>1 DEF InSync, Only
<1>5. mongo'[o] = NoDocument
  BY <1>1 DEF Inv, TypeOK
<1> QED
  BY <1>3, <1>4, <1>5 DEF Absent

LEMMA UnpublishedNext ==
  ASSUME Inv, Hands, OneTask, Numbered, Told, [Next]_vars, happened' \subseteq CalmFaults,
         NEW o \in Offerings \ disturbed, Unpublished(o)
  PROVE  Unpublished(o)'
<1> SUFFICES ASSUME status'[o] \in {"DRAFT", "PUBLISHING"}
             PROVE  /\ entry'[o] \in {"none", "deleted"} => Absent(o)'
                    /\ entry'[o] = "deleting" =>
                          Absent(o)' \/ (work'["worker"].step = "remove" /\ work'["worker"].on = o)
  BY DEF Unpublished
<1>1. status[o] \in {"DRAFT", "PUBLISHING"}
  BY StatusNext DEF Publish, Fail
<1>2. \A e \in issued : e.type = "OfferingPublished" /\ e.of = o => e.id \in processed
  BY <1>1 DEF Told
<1>3. Absent(o) /\ ~CallSync(o) => Absent(o)'
  BY <1>2, AbsentNext
<1>4. /\ CallSync(o) => entry'[o] = "syncing"
      /\ entry[o] \in {"none", "syncing", "again", "synced", "deleting", "deleted"}
  BY DEF CallSync, Inv, TypeOK
<1>5. PICK w \in Tasks : w = "worker"
  BY DEF Tasks
<1>6. ASSUME entry'[o] \in {"none", "deleted"} PROVE Absent(o)
  <2>1. CASE entry'[o] = entry[o] \/ Fail(o)
    BY <1>1, <1>6, <2>1 DEF Unpublished, Fail
  <2>2. CASE Answer /\ entry'[o] = Answered[entry[o]]
    <3>1. entry[o] \in {"none", "deleting", "deleted"}
      BY <1>4, <1>6, <2>2 DEF Answered
    <3>2. work["worker"].step # "remove"
      BY <2>2 DEF Answer
    <3> QED
      BY <1>1, <3>1, <3>2 DEF Unpublished
  <2>3. CASE Crash /\ entry'[o] = CASE entry[o] = "syncing" -> "again"
                                    [] entry[o] = "deleting" -> "synced"
                                    [] OTHER -> entry[o]
    <3>1. entry[o] \in {"none", "deleted"}
      BY <1>4, <1>6, <2>3
    <3> QED
      BY <1>1, <3>1 DEF Unpublished
  <2> QED
    BY <1>6, <2>1, <2>2, <2>3, EntryNext
<1>7. ASSUME entry'[o] = "deleting"
      PROVE  Absent(o)' \/ (work'[w].step = "remove" /\ work'[w].on = o)
  <2>1. CASE entry'[o] = entry[o] /\ Absent(o)
    BY <1>3, <1>4, <1>7, <2>1
  <2>2. CASE work[w].step = "remove" /\ work[w].on = o
    <3>1. CASE TaskStep(w)
      <4>1. RemoveMongo(w)
        BY <2>2, <3>1
           DEF TaskStep, FetchOffering, FetchPart, WriteMongo, IndexElastic, RemoveElastic
      <4> QED
        BY <2>2, <4>1, RemovalAbsent
    <3>2. w \notin Topics
      BY <1>5 DEF Topics
    <3>3. work[w] # Idle
      BY <2>2, IdleType
    <3>4. ~Answer /\ \A x \in Offerings : ~CallSync(x) /\ ~CallDelete(x)
      BY <1>5, <2>2, <3>3 DEF Answer, CallSync, CallDelete
    <3>5. ~Crash
      BY <1>4, <1>7 DEF Crash
    <3> QED
      BY <2>2, <3>1, <3>2, <3>4, <3>5, TaskNext
  <2>3. CASE CallDelete(o)
    <3>1. work'["worker"] = Task("remove", {}, o)
      BY <1>5, <2>3, GoesWork DEF CallDelete, Inv
    <3> QED
      BY <1>5, <3>1, TaskFields
  <2>4. ~(Answer /\ entry'[o] = Answered[entry[o]])
    BY <1>4, <1>7 DEF Answered
  <2>5. ~Crash
    BY <1>4, <1>7 DEF Crash
  <2>6. entry'[o] = entry[o] \/ CallDelete(o)
    BY <1>7, <2>4, <2>5, EntryNext
  <2>7. entry'[o] = entry[o] => Absent(o) \/ (work[w].step = "remove" /\ work[w].on = o)
    BY <1>1, <1>5, <1>7 DEF Unpublished
  <2> QED
    BY <2>1, <2>2, <2>3, <2>6, <2>7
<1> QED
  BY <1>3, <1>4, <1>5, <1>6, <1>7

LEMMA RetiredNext ==
  ASSUME Inv, Inv', Hands, OneTask, Numbered, Told, InTurn, [Next]_vars,
         happened' \subseteq CalmFaults, NEW o \in Offerings \ disturbed, Retired(o)
  PROVE  Retired(o)'
<1> SUFFICES ASSUME status'[o] = "RETIRED"
             PROVE  \/ Retiring(o)'
                    \/ /\ Absent(o)'
                       /\ \A e \in issued' : e.type = "OfferingPublished" /\ e.of = o => e.id \in processed'
  BY DEF Retired
<1>1. CASE Retire(o)
  <2>1. Issues("OfferingRetired", o) /\ TopicOf(o) = "offering"
    BY <1>1, OfferingTopic DEF Retire, Issues
  <2> QED
    BY <2>1, IssueAhead DEF Retiring
<1>2. PICK t \in Topics : t = "offering" /\ t \in Tasks /\ t # "worker"
  BY DEF Topics, Tasks
<1>3. issued \subseteq issued' /\ processed \subseteq processed'
  BY EventsGrow
<1>4. CASE status[o] = "RETIRED"
  <2>1. ASSUME NEW e \in issued, e.type = "OfferingRetired", e.of = o, Ahead(e, t)
        PROVE  Retiring(o)'
    <3>1. CASE Ahead(e, t)'
      BY <1>2, <1>3, <2>1, <3>1 DEF Retiring
    <3>2. CASE Begin(t) /\ e = Head(queue[t]) /\ Pending(e, t)' /\ Head(queue'[t]) = e
      <4>1. work'[t] = FirstTask(e)
        BY <2>1, <3>2, Calm, BeginEffect DEF Ahead, Pending
      <4>2. FirstTask(e) = Task("remove", {}, o)
        BY <2>1 DEF FirstTask
      <4>3. work'[t].step = "remove" /\ work'[t].on = o
        BY <4>1, <4>2, TaskFields
      <4> QED
        BY <1>2, <1>3, <2>1, <3>2, <4>3 DEF Retiring
    <3> QED
      BY <2>1, <3>1, <3>2, AheadNext
  <2>2. ASSUME NEW e \in issued, e.type = "OfferingRetired", e.of = o, Pending(e, t), e = Head(queue[t]),
               work[t].step = "remove", work[t].on = o
        PROVE  \/ Retiring(o)'
               \/ /\ Absent(o)'
                  /\ \A f \in issued' : f.type = "OfferingPublished" /\ f.of = o => f.id \in processed'
    <3>1. work[t] # Idle
      BY <2>2, IdleType
    <3>2. ~(t \in Topics /\ Consumer(t))
      BY <2>2, <3>1 DEF Consumer, Begin, FindAffected, MarkProcessed, Acknowledge
    <3>3. Pending(e, t)' /\ Head(queue'[t]) = e
      BY <2>2, <3>2, InHandNext DEF Consumer
    <3>4. CASE work'[t] = work[t]
      BY <1>2, <1>3, <2>2, <3>3, <3>4 DEF Retiring
    <3>5. CASE work'[t] = Idle
      BY <1>2, <1>3, <2>2, <3>3, <3>5 DEF Retiring, Ahead
    <3>6. CASE TaskStep(t)
      <4>1. RemoveMongo(t)
        BY <2>2, <3>6
           DEF TaskStep, FetchOffering, FetchPart, WriteMongo, IndexElastic, RemoveElastic
      <4>2. Absent(o)'
        BY <1>2, <2>2, <4>1, RemovalAbsent
      <4>3. issued' = issued
        BY <1>2, <4>1, RemoveMongoEffect
      <4>4. \A f \in issued : f.type = "OfferingPublished" /\ f.of = o => f.id \in processed
        <5>1. 1 \in DOMAIN queue[t] /\ Head(queue[t]) = queue[t][1]
          BY <2>2, QueueType, QueuedType DEF Pending
        <5>2. 1 .. (1 - 1) = {}
          OBVIOUS
        <5> QED
          BY <1>2, <2>2, <5>1, <5>2 DEF InTurn
      <4> QED
        BY <1>3, <4>2, <4>3, <4>4
    <3> QED
      BY <1>2, <3>2, <3>4, <3>5, <3>6, TaskNext
  <2>3. ASSUME Absent(o), \A e \in issued : e.type = "OfferingPublished" /\ e.of = o => e.id \in processed
        PROVE  /\ Absent(o)'
               /\ \A e \in issued' : e.type = "OfferingPublished" /\ e.of = o => e.id \in processed'
    <3>1. ~CallSync(o) /\ ~Confirm(o)
      BY <1>4 DEF CallSync, Confirm
    <3>2. Absent(o)'
      BY <2>3, <3>1, AbsentNext
    <3>3. \A e \in issued' : e \notin issued /\ e.of = o => e.type # "OfferingPublished"
      BY <3>1, NewEvents
    <3> QED
      BY <1>3, <2>3, <3>2, <3>3
  <2> QED
    BY <1>2, <1>4, <2>1, <2>2, <2>3 DEF Retired, Retiring
<1> QED
  BY <1>1, <1>4, StatusNext

\* The publication that is ahead is still ahead, or its consumer has begun it.
LEMMA PublicationBegins ==
  ASSUME Inv, Inv', Numbered, [Next]_vars, happened' \subseteq CalmFaults,
         NEW o \in Offerings, PublicationAhead(o)
  PROVE  /\ PublicationAhead(o)' \/ work'["offering"] = Task("next", {o}, Nobody)
         /\ Publishing(o)'
<1>1. PICK t \in Topics : t = "offering"
  BY DEF Topics
<1>2. PICK e \in issued : e.type = "OfferingPublished" /\ e.of = o /\ Ahead(e, t)
  BY <1>1 DEF PublicationAhead
<1>3. e \in issued'
  BY EventsGrow
<1>4. CASE Ahead(e, t)'
  BY <1>1, <1>2, <1>3, <1>4 DEF PublicationAhead, Publishing
<1>5. CASE Begin(t) /\ e = Head(queue[t]) /\ Pending(e, t)' /\ Head(queue'[t]) = e
  <2>1. work'[t] = FirstTask(e)
    BY <1>2, <1>5, Calm, BeginEffect DEF Ahead, Pending
  <2>2. FirstTask(e) = Task("next", {o}, Nobody)
    BY <1>2 DEF FirstTask
  <2>3. WillSync(t, o)'
    BY <2>1, <2>2, TaskFields DEF WillSync
  <2> QED
    BY <1>1, <1>2, <1>3, <1>5, <2>1, <2>2, <2>3 DEF Publishing
<1> QED
  BY <1>2, <1>4, <1>5, AheadNext

LEMMA PublishedNext ==
  ASSUME Inv, Inv', Hands, Numbered, Told, [Next]_vars, happened' \subseteq CalmFaults,
         NEW o \in Offerings, Published(o), \A t \in Tasks : Reading(t, o)
  PROVE  Published(o)'
<1> SUFFICES ASSUME status'[o] = "PUBLISHED"
             PROVE  mongo'[o].status = "PUBLISHED" \/ Publishing(o)'
  BY DEF Published
<1>1. CASE Confirm(o)
  <2>1. Issues("OfferingPublished", o) /\ TopicOf(o) = "offering"
    BY <1>1, OfferingTopic DEF Confirm, Issues
  <2> QED
    BY <2>1, IssueAhead DEF Publishing, PublicationAhead
<1>2. ASSUME status[o] = "PUBLISHED", NEW t \in Tasks, WriteMongo(t), work[t].on = o
      PROVE  mongo'[o].status = "PUBLISHED" \/ Publishing(o)'
  <2>1. work[t].step = "read" /\ mongo'[o] = work[t].doc
    BY <1>2, Calm, WriteMongoEffect DEF Inv, TypeOK
  <2>2. work[t].doc.status = "PUBLISHED" \/ PublicationAhead(o)
    BY <1>2, <2>1 DEF Reading
  <2> QED
    BY <2>1, <2>2, PublicationBegins
<1>3. ASSUME status[o] = "PUBLISHED", NEW t \in Tasks, RemoveMongo(t), work[t].on = o PROVE FALSE
  <2>1. work[t].step = "remove"
    BY <1>3 DEF RemoveMongo
  <2>2. CASE t \in Topics
    <3>1. Head(queue[t]).type = "OfferingRetired" /\ Head(queue[t]).of = o /\ queue[t] # <<>>
      BY <1>3, <2>1, <2>2, WorkType DEF Hands, AtHand
    <3>2. Head(queue[t]) \in issued
      BY <2>2, <3>1, QueueType
    <3> QED
      BY <1>3, <3>1, <3>2 DEF Told
  <2>3. CASE t = "worker"
    BY <1>3, <2>1, <2>3 DEF Told
  <2> QED
    BY <2>2, <2>3 DEF Tasks
<1>4. CASE status[o] = "PUBLISHED"
  <2>1. CASE \E t \in Tasks : WriteMongo(t) /\ work[t].on = o
    BY <1>2, <1>4, <2>1
  <2>2. CASE mongo'[o] = mongo[o] /\ ~\E t \in Tasks : WriteMongo(t) /\ work[t].on = o
    <3>1. CASE PublicationAhead(o)
      BY <3>1, PublicationBegins
    <3>2. PICK t \in Topics : t = "offering" /\ t \in Tasks
      BY DEF Topics, Tasks
    <3>3. ASSUME NEW e \in issued, e.type = "OfferingPublished", e.of = o,
                 Pending(e, t), e = Head(queue[t]), WillSync(t, o)
          PROVE  Publishing(o)'
      <4>1. ~MarkProcessed(t) /\ ~Acknowledge(t)
        <5>1. o # Nobody /\ (work[t].step = "skip" => work[t].todo = {})
          BY <3>2, StoreAssumption DEF Hands, AtHand
        <5> QED
          BY <3>3, <5>1 DEF MarkProcessed, Acknowledge, WillSync
      <4>2. Pending(e, t)' /\ Head(queue'[t]) = e /\ e \in issued'
        BY <3>3, <4>1, InHandNext, EventsGrow
      <4>3. CASE WillSync(t, o)'
        BY <3>2, <3>3, <4>2, <4>3 DEF Publishing
      <4>4. CASE Crash
        <5>1. Ahead(e, t)'
          BY <3>2, <4>2, <4>4 DEF Crash, Ahead
        <5> QED
          BY <3>2, <3>3, <4>2, <5>1 DEF Publishing, PublicationAhead
      <4> QED
        BY <2>2, <3>2, <3>3, <4>3, <4>4, SyncNext
    <3> QED
      BY <1>4, <2>2, <3>1, <3>2, <3>3 DEF Published, Publishing
  <2> QED
    BY <1>3, <1>4, <2>1, <2>2, MongoNext
<1> QED
  BY <1>1, <1>4, StatusNext

\* An event of a part that is ahead is still ahead, or the offerings that show the
\* part are being looked for.
LEMMA PartBegins ==
  ASSUME Inv, Inv', Numbered, [Next]_vars, happened' \subseteq CalmFaults,
         NEW p \in Parts, PartAhead(p)
  PROVE  /\ \/ PartAhead(p)'
            \/ work'[TopicOf(p)].step = "find" /\ Head(queue'[TopicOf(p)]).of = p
         /\ \A o : PartComing(p, o)'
<1>1. PICK t \in Topics : t = TopicOf(p)
  BY TopicOfType
<1>2. PICK e \in issued : e.of = p /\ Ahead(e, t)
  BY <1>1 DEF PartAhead
<1>3. e \in issued' /\ OfAPart(e)
  BY <1>2, EventsGrow, StoreAssumption DEF Inv, EventsInv
<1>4. CASE Ahead(e, t)'
  BY <1>1, <1>2, <1>3, <1>4 DEF PartAhead, PartComing
<1>5. CASE Begin(t) /\ e = Head(queue[t]) /\ Pending(e, t)' /\ Head(queue'[t]) = e
  <2>1. work'[t] = FirstTask(e)
    BY <1>2, <1>5, Calm, BeginEffect DEF Ahead, Pending
  <2>2. FirstTask(e) = Task("find", {}, Nobody)
    BY <1>3 DEF FirstTask, OfAPart
  <2>3. work'[t].step = "find"
    BY <2>1, <2>2, TaskFields
  <2> QED
    BY <1>1, <1>2, <1>3, <1>5, <2>3 DEF PartComing
<1> QED
  BY <1>2, <1>4, <1>5, AheadNext

\* A part changes together with an event of it.
LEMMA PartChanges ==
  ASSUME Inv, Inv', Hands, Numbered, [Next]_vars, NEW p \in Parts, version'[p] # version[p]
  PROVE  version[p] # 0 /\ PartAhead(p)'
<1>1. CASE UpdatePart(p)
  <2>1. Issues("Updated", p) /\ version[p] # 0
    <3>1. 0 \notin 1 .. MaxVersion - 1
      BY StoreAssumption
    <3> QED
      BY <1>1, <3>1 DEF UpdatePart, Issues
  <2> QED
    BY <2>1, IssueAhead DEF PartAhead
<1>2. CASE DeletePart(p)
  <2>1. Issues("Deleted", p) /\ version[p] # 0
    BY <1>2 DEF DeletePart, Issues
  <2> QED
    BY <2>1, IssueAhead DEF PartAhead
<1> QED
  BY <1>1, <1>2, VersionNext

LEMMA PartComingNext ==
  ASSUME Inv, Inv', Hands, Numbered, [Next]_vars, happened' \subseteq CalmFaults,
         NEW o \in Offerings, NEW p \in Parts, PartComing(p, o), mongo[o].shows[p] # 0
  PROVE  \/ PartComing(p, o)'
         \/ \E t \in Tasks : WriteMongo(t) /\ work[t].on = o
<1>1. CASE PartAhead(p)
  BY <1>1, PartBegins
<1>2. PICK t \in Topics : t = TopicOf(p) /\ t \in Tasks /\ t # "worker"
  BY TopicOfType DEF Topics, Tasks
<1>3. ASSUME NEW e \in issued, e.of = p, Pending(e, t), e = Head(queue[t]),
             work[t].step = "find" \/ WillSync(t, o)
      PROVE  \/ PartComing(p, o)'
             \/ \E u \in Tasks : WriteMongo(u) /\ work[u].on = o
  <2>1. ~MarkProcessed(t) /\ ~Acknowledge(t)
    <3>1. o # Nobody /\ (work[t].step = "skip" => work[t].todo = {})
      BY <1>2, StoreAssumption DEF Hands, AtHand
    <3> QED
      BY <1>3, <3>1 DEF MarkProcessed, Acknowledge, WillSync
  <2>2. Pending(e, t)' /\ Head(queue'[t]) = e /\ e \in issued'
    BY <1>3, <2>1, InHandNext, EventsGrow
  <2>3. CASE work'[t].step = "find" \/ WillSync(t, o)'
    BY <1>2, <1>3, <2>2, <2>3 DEF PartComing
  <2>4. CASE work'[t] = Idle
    BY <1>2, <1>3, <2>2, <2>4 DEF PartComing, PartAhead, Ahead
  <2>5. CASE WillSync(t, o)
    <3>1. CASE Crash
      BY <1>2, <2>4, <3>1 DEF Crash
    <3> QED
      BY <1>2, <2>3, <2>5, <3>1, SyncNext
  <2>6. CASE work[t].step = "find"
    <3>1. ~TaskStep(t) /\ ~Begin(t)
      <4>1. work[t] # Idle
        BY <2>6, IdleType
      <4> QED
        BY <2>6, <4>1
           DEF TaskStep, FetchOffering, FetchPart, WriteMongo, IndexElastic, RemoveMongo, RemoveElastic, Begin
    <3>2. CASE FindAffected(t)
      <4> DEFINE found == {x \in Offerings : mongo[x].shows[Head(queue[t]).of] # 0}
      <4>1. work'[t] = Task("next", found, Nobody)
        BY <3>2, Calm, FindAffectedEffect
      <4>2. o \in found
        BY <1>3
      <4> HIDE DEF found
      <4>3. WillSync(t, o)'
        BY <4>1, <4>2, TaskFields DEF WillSync
      <4> QED
        BY <2>3, <4>3
    <3>3. work'[t] = work[t] \/ FindAffected(t) \/ work'[t] = Idle
      BY <1>2, <2>1, <3>1, TaskNext DEF Consumer
    <3> QED
      BY <2>3, <2>4, <2>6, <3>2, <3>3
  <2> QED
    BY <1>3, <2>5, <2>6
<1> QED
  BY <1>1, <1>2, <1>3 DEF PartComing

LEMMA ShownType == ASSUME NEW o \in Offerings PROVE Shown(o) \subseteq Parts
<1>1. PartsOf[o] \in Seq(Parts)
  BY StoreAssumption
<1> QED
  BY <1>1, LenProperties, ElementOfSeq DEF Shown

LEMMA FreshNext ==
  ASSUME Inv, Inv', Hands, Numbered, [Next]_vars, happened' \subseteq CalmFaults,
         NEW o \in Offerings, Fresh(o), \A t \in Tasks : Reading(t, o)
  PROVE  Fresh(o)'
<1>1. CASE \E t \in Tasks : WriteMongo(t) /\ work[t].on = o
  <2>1. PICK t \in Tasks : WriteMongo(t) /\ work[t].on = o
    BY <1>1
  <2>2. /\ work[t].step = "read" /\ work[t].unread = <<>> /\ mongo'[o] = work[t].doc
        /\ UNCHANGED version
    BY <2>1, Calm, WriteMongoEffect DEF Inv, TypeOK
  <2>3. Unread(t) = {}
    BY <2>2 DEF Unread
  <2>4. /\ \A p \in Parts \ Shown(o) : mongo'[o].shows[p] = 0
        /\ \A p \in Shown(o) : \/ mongo'[o].shows[p] = version'[p]
                               \/ mongo'[o].shows[p] # 0 /\ PartAhead(p)
    BY <2>1, <2>2, <2>3 DEF Reading
  <2>5. \A p \in Shown(o) : PartAhead(p) => PartComing(p, o)'
    BY PartBegins, ShownType
  <2> QED
    BY <2>4, <2>5 DEF Fresh, Shown
<1>2. CASE mongo'[o] = NoDocument
  BY <1>2 DEF Fresh, Shown, NoDocument
<1>3. CASE mongo'[o] = mongo[o] /\ ~\E t \in Tasks : WriteMongo(t) /\ work[t].on = o
  <2>1. ASSUME mongo[o].status # "none", NEW p \in Shown(o)
        PROVE  \/ mongo[o].shows[p] = version'[p]
               \/ mongo[o].shows[p] # 0 /\ PartComing(p, o)'
    <3>1. p \in Parts
      BY ShownType
    <3>2. CASE version'[p] # version[p]
      <4>1. version[p] # 0 /\ PartComing(p, o)'
        BY <3>1, <3>2, PartChanges DEF PartComing
      <4> QED
        BY <2>1, <4>1 DEF Fresh
    <3>3. CASE version'[p] = version[p]
      BY <1>3, <2>1, <3>1, <3>3, PartComingNext DEF Fresh
    <3> QED
      BY <3>2, <3>3
  <2> QED
    BY <1>3, <2>1 DEF Fresh, Shown
<1> QED
  BY <1>1, <1>2, <1>3, MongoNext

\* While a task reads an offering, no consumer begins an event that concerns it.
LEMMA AheadOfReading ==
  ASSUME Inv, Inv', Hands', OneTask', Numbered, [Next]_vars, happened' \subseteq CalmFaults,
         NEW o \in Offerings, o \notin disturbed', NEW t \in Tasks, work'[t].step = "read", work'[t].on = o
  PROVE  /\ PublicationAhead(o) => PublicationAhead(o)'
         /\ \A p \in Shown(o) : PartAhead(p) => PartAhead(p)'
<1>1. o # Nobody /\ o \in Touched(work, t)'
  BY StoreAssumption DEF Touched
<1>2. PublicationAhead(o) => PublicationAhead(o)'
  <2>1. PICK u \in Tasks : u = "offering"
    BY DEF Topics, Tasks
  <2>2. ASSUME work'[u] = Task("next", {o}, Nobody) PROVE FALSE
    <3>1. work'[u].step = "next" /\ work'[u].todo = {o}
      BY <2>2, TaskFields
    <3>2. o \in Touched(work, u)'
      BY <3>1 DEF Touched
    <3>3. t = u
      BY <1>1, <3>2 DEF OneTask
    <3> QED
      BY <3>1, <3>3
  <2> QED
    BY <2>1, <2>2, PublicationBegins
<1>3. ASSUME NEW p \in Shown(o), PartAhead(p) PROVE PartAhead(p)'
  <2>1. PICK u \in Tasks : u = TopicOf(p)
    BY TopicOfType DEF Tasks
  <2>2. ASSUME work'[u].step = "find", Head(queue'[u]).of = p PROVE FALSE
    <3>1. \E i \in DOMAIN PartsOf[o] : PartsOf[o][i] = p
      BY DEF Shown
    <3>2. o \in Touched(work, u)'
      BY <2>2, <3>1 DEF Touched
    <3>3. t = u
      BY <1>1, <3>2 DEF OneTask
    <3> QED
      BY <2>2, <3>3
  <2> QED
    BY <1>3, <2>1, <2>2, PartBegins, ShownType
<1> QED
  BY <1>2, <1>3

LEMMA ReadingNext ==
  ASSUME Inv, Inv', Hands, Hands', OneTask', Numbered, [Next]_vars, happened' \subseteq CalmFaults,
         NEW o \in Offerings, o \notin disturbed', NEW t \in Tasks, Reading(t, o)
  PROVE  Reading(t, o)'
<1> SUFFICES ASSUME work'[t].step = "read", work'[t].on = o
             PROVE  /\ Unread(t)' \subseteq {PartsOf[o][i] : i \in DOMAIN PartsOf[o]}
                    /\ work'[t].doc.status # "none"
                    /\ status'[o] = "PUBLISHED" => work'[t].doc.status = "PUBLISHED" \/ PublicationAhead(o)'
                    /\ \A p \in Parts \ Shown(o) : work'[t].doc.shows[p] = 0
                    /\ \A p \in Shown(o) : \/ work'[t].doc.shows[p] = version'[p]
                                           \/ work'[t].doc.shows[p] # 0 /\ PartAhead(p)'
                                           \/ work'[t].doc.shows[p] = 0 /\ p \in Unread(t)'
  BY DEF Reading, Shown
<1>1. /\ PublicationAhead(o) => PublicationAhead(o)'
      /\ \A p \in Shown(o) : PartAhead(p) => PartAhead(p)'
  BY AheadOfReading
<1>2. \A p \in Shown(o) : version'[p] # version[p] => version[p] # 0 /\ PartAhead(p)'
  BY PartChanges, ShownType
<1>3. CASE FetchOffering(t, o)
  <2>1. /\ work'[t].doc = [NoDocument EXCEPT !.status = status[o]] /\ work'[t].unread = PartsOf[o]
        /\ UNCHANGED status
    BY <1>3, Calm, FetchOfferingEffect
  <2>2. status[o] \in Statuses \ {"none"}
    BY DEF Inv, TypeOK
  <2>3. work'[t].doc.status = status[o] /\ \A p \in Parts : work'[t].doc.shows[p] = 0
    BY <2>1 DEF NoDocument
  <2>4. Unread(t)' = {PartsOf[o][i] : i \in DOMAIN PartsOf[o]}
    BY <2>1 DEF Unread
  <2>5. Shown(o) \subseteq Unread(t)' /\ Shown(o) \subseteq Parts
    BY <2>4, ShownType DEF Shown
  <2> QED
    BY <2>1, <2>2, <2>3, <2>4, <2>5
<1>4. CASE work'[t] = work[t]
  <2>1. /\ Unread(t)' = Unread(t)
        /\ Unread(t) \subseteq {PartsOf[o][i] : i \in DOMAIN PartsOf[o]}
        /\ work[t].doc.status # "none"
        /\ status[o] = "PUBLISHED" => work[t].doc.status = "PUBLISHED" \/ PublicationAhead(o)
        /\ \A p \in Parts \ Shown(o) : work[t].doc.shows[p] = 0
        /\ \A p \in Shown(o) : \/ work[t].doc.shows[p] = version[p]
                               \/ work[t].doc.shows[p] # 0 /\ PartAhead(p)
                               \/ work[t].doc.shows[p] = 0 /\ p \in Unread(t)
    BY <1>4 DEF Reading, Unread
  <2>2. status'[o] = "PUBLISHED" => work[t].doc.status = "PUBLISHED" \/ PublicationAhead(o)'
    <3>1. CASE Confirm(o)
      <4>1. Issues("OfferingPublished", o) /\ TopicOf(o) = "offering"
        BY <3>1, OfferingTopic DEF Confirm, Issues
      <4> QED
        BY <4>1, IssueAhead DEF PublicationAhead
    <3>2. CASE status'[o] = status[o]
      BY <1>1, <2>1, <3>2
    <3> QED
      BY <3>1, <3>2, StatusNext
  <2>3. ASSUME NEW p \in Shown(o)
        PROVE  \/ work[t].doc.shows[p] = version'[p]
               \/ work[t].doc.shows[p] # 0 /\ PartAhead(p)'
               \/ work[t].doc.shows[p] = 0 /\ p \in Unread(t)
    BY <1>1, <1>2, <2>1
  <2> QED
    BY <1>4, <2>1, <2>2, <2>3
<1>5. CASE FetchPart(t) /\ work[t].on = o
  <2> DEFINE q == Head(work[t].unread)
  <2>1. /\ work[t].step = "read" /\ work[t].unread # <<>> /\ work'[t].unread = Tail(work[t].unread)
        /\ UNCHANGED <<status, version>> /\ work'[t].doc.status = work[t].doc.status
        /\ \/ Answers(q) /\ work'[t].doc.shows = [work[t].doc.shows EXCEPT ![q] = version[q]]
           \/ ~Answers(q) /\ work'[t].doc.shows = work[t].doc.shows
    BY <1>5, Calm, FetchPartEffect
  <2>2. /\ Unread(t) \subseteq {PartsOf[o][i] : i \in DOMAIN PartsOf[o]}
        /\ work[t].doc.status # "none"
        /\ status[o] = "PUBLISHED" => work[t].doc.status = "PUBLISHED" \/ PublicationAhead(o)
        /\ \A p \in Parts \ Shown(o) : work[t].doc.shows[p] = 0
        /\ \A p \in Shown(o) : \/ work[t].doc.shows[p] = version[p]
                               \/ work[t].doc.shows[p] # 0 /\ PartAhead(p)
                               \/ work[t].doc.shows[p] = 0 /\ p \in Unread(t)
    BY <1>5, <2>1 DEF Reading
  <2>3. q \in Unread(t) /\ Unread(t)' \subseteq Unread(t) /\ Unread(t) \subseteq Unread(t)' \union {q}
    <3> DEFINE s == work[t].unread
    <3>1. s \in Seq(Parts) /\ s # <<>>
      BY <2>1, WorkType
    <3> HIDE DEF s
    <3>2. /\ Len(s) \in Nat \ {0} /\ DOMAIN s = 1 .. Len(s)
          /\ Tail(s) \in Seq(Parts) /\ Len(Tail(s)) = Len(s) - 1
          /\ \A i \in 1 .. Len(Tail(s)) : Tail(s)[i] = s[i + 1]
      BY <3>1, EmptySeq, LenProperties, HeadTailProperties
    <3>3. DOMAIN Tail(s) = 1 .. Len(s) - 1 /\ Head(s) = s[1]
      <4>1. \A r \in Seq(Parts) : r # <<>> => Head(r) = r[1]
        OBVIOUS
      <4> QED
        BY <3>1, <3>2, <4>1, LenProperties
    <3>4. /\ 1 \in 1 .. Len(s)
          /\ \A i \in 1 .. Len(s) - 1 : i + 1 \in 1 .. Len(s)
          /\ \A i \in 1 .. Len(s) : i # 1 => i - 1 \in 1 .. Len(s) - 1 /\ (i - 1) + 1 = i
      BY <3>2
    <3>5. Unread(t) = {s[i] : i \in 1 .. Len(s)} /\ Unread(t)' = {Tail(s)[i] : i \in 1 .. Len(s) - 1}
      BY <2>1, <3>2, <3>3 DEF Unread, s
    <3>6. \A i \in 1 .. Len(s) - 1 : Tail(s)[i] = s[i + 1]
      BY <3>2
    <3>7. Head(s) \in Unread(t) /\ Unread(t)' \subseteq Unread(t)
      BY <3>3, <3>4, <3>5, <3>6
    <3>8. ASSUME NEW i \in 1 .. Len(s) PROVE s[i] \in Unread(t)' \union {Head(s)}
      BY <3>3, <3>4, <3>5, <3>6
    <3> QED
      BY <3>5, <3>7, <3>8 DEF s
  <2>4. work[t].doc.shows \in [Parts -> 0 .. MaxVersion] /\ q \in Parts
    <3>1. work[t].doc \in Document /\ work[t].unread \in Seq(Parts)
      BY WorkType
    <3> QED
      BY <2>1, <3>1, HeadTailProperties DEF Document
  <2> HIDE DEF q
  <2>5. /\ \A p \in Parts : p # q => work'[t].doc.shows[p] = work[t].doc.shows[p]
        /\ Answers(q) => work'[t].doc.shows[q] = version[q]
        /\ ~Answers(q) => work'[t].doc.shows[q] = work[t].doc.shows[q]
    BY <2>1, <2>4
  <2>6. /\ q \in Shown(o) => (~Answers(q) => version[q] = 0)
        /\ q \notin Shown(o) => ~Answers(q)
    BY <2>2, <2>3 DEF Answers, Shown
  <2>7. \A p \in Parts \ Shown(o) : work'[t].doc.shows[p] = 0
    BY <2>2, <2>5, <2>6
  <2>8. ASSUME NEW p \in Shown(o)
        PROVE  \/ work'[t].doc.shows[p] = version'[p]
               \/ work'[t].doc.shows[p] # 0 /\ PartAhead(p)'
               \/ work'[t].doc.shows[p] = 0 /\ p \in Unread(t)'
    <3>1. p \in Parts /\ version'[p] = version[p]
      BY <2>1, ShownType
    <3>2. CASE p = q
      BY <1>1, <2>2, <2>5, <2>6, <3>1, <3>2
    <3>3. CASE p # q
      BY <1>1, <2>2, <2>3, <2>5, <3>1, <3>3
    <3> QED
      BY <3>2, <3>3
  <2> QED
    BY <1>1, <2>1, <2>2, <2>3, <2>7, <2>8
<1> QED
  BY <1>3, <1>4, <1>5, ReadNext

LEMMA SkipsNext ==
  ASSUME Inv, Hands, [Next]_vars, happened' \subseteq CalmFaults, SkipsHandled
  PROVE  SkipsHandled'
<1> SUFFICES ASSUME NEW t \in Topics, work'[t].step = "skip"
             PROVE  Head(queue'[t]).id \in processed' \/ Head(queue'[t]).type = "OfferingRetired"
  BY DEF SkipsHandled
<1>1. t \in Tasks /\ t # "worker" /\ Idle.step = "idle"
  BY IdleType DEF Tasks, Topics
<1>2. \A step, todo, on : Task(step, todo, on).step = step
  BY TaskFields
<1>3. processed \subseteq processed'
  BY EventsGrow
<1>4. ~Acknowledge(t)
  <2>1. Acknowledge(t) => work'[t] = Idle
    BY AcknowledgeEffect
  <2> QED
    BY <1>1, <2>1
<1>5. CASE work'[t] = work[t]
  <2>1. Head(queue[t]).id \in processed \/ Head(queue[t]).type = "OfferingRetired"
    BY <1>5 DEF SkipsHandled
  <2>2. Head(queue'[t]) = Head(queue[t])
    <3>1. queue[t] # <<>>
      BY <1>1, <1>5, WorkType
    <3> QED
      BY <1>4, <3>1, HeadNext
  <2> QED
    BY <1>3, <2>1, <2>2
<1>6. CASE TaskStep(t)
  <2>1. ASSUME NEW x \in Offerings, FetchOffering(t, x) PROVE FALSE
    <3>1. work'[t].step = "read"
      BY <1>1, <2>1, Calm, FetchOfferingEffect
    <3> QED
      BY <3>1
  <2>2. ~FetchPart(t)
    <3>1. FetchPart(t) => work'[t].step = "read"
      BY <1>1, FetchPartEffect
    <3> QED
      BY <3>1
  <2>3. ~WriteMongo(t)
    <3>1. WriteMongo(t) => work'[t].step = "index"
      BY <1>1, Calm, WriteMongoEffect
    <3> QED
      BY <3>1
  <2>4. ~IndexElastic(t)
    <3>1. IndexElastic(t) => work'[t].step = "next"
      BY <1>1, <1>2, IndexElasticEffect
    <3> QED
      BY <3>1
  <2>5. ~RemoveMongo(t)
    <3>1. RemoveMongo(t) => work'[t].step = "unindex"
      BY <1>1, Calm, RemoveMongoEffect
    <3> QED
      BY <3>1
  <2>6. RemoveElastic(t)
    BY <1>6, <2>1, <2>2, <2>3, <2>4, <2>5 DEF TaskStep
  <2>7. work[t].step = "unindex" /\ queue' = queue
    BY <1>1, <2>6, RemoveElasticEffect
  <2> QED
    BY <1>1, <2>7 DEF Hands, AtHand
<1>7. CASE Begin(t)
  <2>1. FirstTask(Head(queue[t])).step # "skip"
    BY <1>2 DEF FirstTask
  <2>2. \/ Head(queue[t]).id \in processed
        \/ work'[t] = FirstTask(Head(queue[t]))
    BY <1>7, Calm, BeginEffect
  <2>3. queue' = queue
    BY <1>7, BeginEffect
  <2> QED
    BY <1>3, <2>1, <2>2, <2>3
<1>8. ~FindAffected(t)
  <2>1. FindAffected(t) => \E todo : work'[t] = Task("next", todo, Nobody)
    BY Calm, FindAffectedEffect
  <2> QED
    BY <1>2, <2>1
<1>9. CASE MarkProcessed(t)
  <2>1. processed' = processed \union {Head(queue[t]).id} /\ queue' = queue
    BY <1>9, Calm, MarkProcessedEffect
  <2> QED
    BY <2>1
<1>10. work'[t] # Idle
  BY <1>1
<1> QED
  BY <1>1, <1>4, <1>5, <1>6, <1>7, <1>8, <1>9, <1>10, TaskNext DEF Consumer

\* No publication is lost: it leaves the queue when it is handled.
LEMMA PublicationKept ==
  ASSUME Inv, Inv', Numbered, SkipsHandled, InTurn, [Next]_vars, happened' \subseteq CalmFaults,
         NEW e \in issued', e.type = "OfferingPublished"
  PROVE  e.id \in processed' \/ e \in Queued("offering")'
<1>1. PICK t \in Topics : t = "offering"
  BY DEF Topics
<1>2. processed \subseteq processed'
  BY EventsGrow
<1>3. CASE e \in issued
  <2>1. e.id \in processed \/ Pending(e, t)
    BY <1>1, <1>3 DEF InTurn, Pending
  <2>2. ASSUME Pending(e, t), e = Head(queue[t]), MarkProcessed(t) PROVE e.id \in processed'
    <3>1. processed' = processed \union {Head(queue[t]).id}
      BY <2>2, Calm, MarkProcessedEffect
    <3> QED
      BY <2>2, <3>1
  <2>3. ASSUME Pending(e, t), e = Head(queue[t]), Acknowledge(t) PROVE FALSE
    <3>1. work[t].step = "skip"
      BY <2>3 DEF Acknowledge
    <3>2. e.id \in processed \/ e.type = "OfferingRetired"
      BY <2>3, <3>1 DEF SkipsHandled
    <3> QED
      BY <2>3, <3>2 DEF Pending
  <2> QED
    BY <1>1, <1>2, <2>1, <2>2, <2>3, PendingNext DEF Pending
<1>4. CASE e \notin issued
  <2>1. e.of \in Offerings /\ Confirm(e.of)
    BY <1>4, NewEvents
  <2>2. TopicOf(e.of) = "offering" /\ Issues("OfferingPublished", e.of)
    BY <2>1, OfferingTopic DEF Confirm, Issues
  <2>3. PICK f \in issued' : issued' = issued \union {f} /\ Adds(f)
    BY <2>2, IssueEffect DEF Issues
  <2>4. e = f
    BY <1>4, <2>3
  <2> QED
    BY <2>2, <2>3, <2>4, AddsQueued
<1> QED
  BY <1>3, <1>4

\* Where an event of a queue stood before a step.
LEMMA Earlier ==
  ASSUME Inv, Inv', [Next]_vars, NEW t \in Topics, NEW j \in 1 .. Len(queue'[t])
  PROVE  \/ /\ j \in 1 .. Len(queue[t]) /\ queue'[t][j] = queue[t][j]
            /\ \A i \in 1 .. (j - 1) : queue'[t][i] = queue[t][i]
         \/ /\ j = Len(queue[t]) + 1
            /\ \A i \in 1 .. (j - 1) : queue'[t][i] = queue[t][i]
         \/ /\ Acknowledge(t) /\ j + 1 \in 1 .. Len(queue[t]) /\ queue'[t][j] = queue[t][j + 1]
            /\ \A i \in 1 .. (j - 1) : queue'[t][i] = queue[t][i + 1]
<1>1. Len(queue[t]) \in Nat /\ Len(queue'[t]) \in Nat /\ queue[t] \in Seq(issued)
  BY QueueType
<1>2. 1 .. (j - 1) \subseteq 1 .. j /\ j - 1 \in Nat
  BY <1>1
<1>3. CASE queue'[t] = queue[t]
  BY <1>3
<1>4. ASSUME NEW e \in issued', issued \subseteq issued', Adds(e)
      PROVE  \/ /\ j \in 1 .. Len(queue[t]) /\ queue'[t][j] = queue[t][j]
                /\ \A i \in 1 .. (j - 1) : queue'[t][i] = queue[t][i]
             \/ /\ j = Len(queue[t]) + 1
                /\ \A i \in 1 .. (j - 1) : queue'[t][i] = queue[t][i]
  <2>1. CASE t # TopicOf(e.of)
    BY <1>3, <1>4, <2>1, AddsEffect
  <2>2. CASE t = TopicOf(e.of)
    <3>1. /\ Len(queue'[t]) = Len(queue[t]) + 1
          /\ \A i \in 1 .. Len(queue[t]) : queue'[t][i] = queue[t][i]
      BY <1>4, <2>2, AddsEffect
    <3>2. j \in 1 .. Len(queue[t]) \/ j = Len(queue[t]) + 1
      BY <1>1, <3>1
    <3>3. \A i \in 1 .. (j - 1) : i \in 1 .. Len(queue[t])
      BY <1>1, <3>1
    <3> QED
      BY <3>1, <3>2, <3>3
  <2> QED
    BY <2>1, <2>2
<1>5. ASSUME NEW x, NEW type, Issues(type, x)
      PROVE  \E e \in issued' : issued \subseteq issued' /\ Adds(e)
  BY <1>5, IssueEffect DEF Issues
<1>6. ASSUME NEW e \in issued, PublishAgain(e)
      PROVE  e \in issued' /\ issued \subseteq issued' /\ Adds(e)
  BY <1>6 DEF PublishAgain, Adds
<1>7. ASSUME NEW u \in Topics, MarkProcessed(u) PROVE queue'[t] = queue[t]
  BY <1>7 DEF MarkProcessed
<1>8. ASSUME NEW u \in Topics, Acknowledge(u), u # t PROVE queue'[t] = queue[t]
  BY <1>8, AcknowledgeEffect
<1>9. CASE Acknowledge(t)
  <2>1. queue[t] # <<>> /\ queue'[t] = Tail(queue[t])
    BY <1>9, AcknowledgeEffect
  <2>2. /\ Len(Tail(queue[t])) = Len(queue[t]) - 1
        /\ \A i \in 1 .. Len(Tail(queue[t])) : Tail(queue[t])[i] = queue[t][i + 1]
    BY <1>1, <2>1, HeadTailProperties
  <2>3. j + 1 \in 1 .. Len(queue[t]) /\ \A i \in 1 .. (j - 1) : i \in 1 .. Len(queue'[t])
    BY <1>1, <2>1, <2>2
  <2> QED
    BY <1>9, <2>1, <2>2, <2>3
<1> QED
  BY <1>3, <1>4, <1>5, <1>6, <1>7, <1>8, <1>9, EventNext DEF events

\* No publication is queued behind the retirement of its offering.
LEMMA InTurnNext ==
  ASSUME Inv, Inv', Numbered, Told, SkipsHandled, InTurn, [Next]_vars,
         happened' \subseteq CalmFaults
  PROVE  InTurn'
<1>1. PICK t \in Topics : t = "offering"
  BY DEF Topics
<1>2. processed \subseteq processed' /\ issued \subseteq issued'
  BY EventsGrow
<1>3. /\ Len(queue[t]) \in Nat /\ DOMAIN queue[t] = 1 .. Len(queue[t])
      /\ \A i \in 1 .. Len(queue[t]) : queue[t][i] \in issued
      /\ queue[t] # <<>> => Head(queue[t]) = queue[t][1]
      /\ Len(queue'[t]) \in Nat /\ DOMAIN queue'[t] = 1 .. Len(queue'[t])
      /\ \A i \in 1 .. Len(queue'[t]) : queue'[t][i] \in issued'
  <2>1. queue'[t] \in Seq(issued')
    BY DEF Inv, TypeOK
  <2> QED
    BY <2>1, QueueType, LenProperties, ElementOfSeq
<1>4. ASSUME NEW j \in 1 .. Len(queue'[t]), queue'[t][j].type = "OfferingRetired",
             NEW e \in issued', e.type = "OfferingPublished", e.of = queue'[t][j].of,
             e.id \notin processed'
      PROVE  \E i \in 1 .. (j - 1) : queue'[t][i] = e
  <2>1. e \in issued
    <3> SUFFICES ASSUME e \notin issued PROVE FALSE
      OBVIOUS
    <3>1. e.of \in Offerings /\ status[e.of] = "PUBLISHING"
      BY <1>4, NewEvents DEF Confirm
    <3>2. queue'[t][j] \notin issued
      BY <1>4, <3>1 DEF Told
    <3>3. status[e.of] = "PUBLISHED"
      BY <1>3, <1>4, <3>2, NewEvents DEF Retire
    <3> QED
      BY <3>1, <3>3
  <2>2. e.id \notin processed
    BY <1>2, <1>4
  <2>3. PICK i \in 1 .. Len(queue[t]) : queue[t][i] = e
    BY <1>1, <1>3, <1>4, <2>1, <2>2 DEF InTurn, Queued
  <2>4. ASSUME NEW k \in 1 .. Len(queue[t]), queue[t][k] = queue'[t][j]
        PROVE  \E m \in 1 .. (k - 1) : queue[t][m] = e
    BY <1>1, <1>3, <1>4, <2>1, <2>2, <2>4 DEF InTurn
  <2>5. CASE /\ j \in 1 .. Len(queue[t]) /\ queue'[t][j] = queue[t][j]
             /\ \A k \in 1 .. (j - 1) : queue'[t][k] = queue[t][k]
    BY <2>4, <2>5
  <2>6. CASE j = Len(queue[t]) + 1 /\ \A k \in 1 .. (j - 1) : queue'[t][k] = queue[t][k]
    <3>1. j - 1 = Len(queue[t])
      BY <1>3, <2>6
    <3> QED
      BY <2>3, <2>6, <3>1
  <2>7. CASE /\ Acknowledge(t) /\ j + 1 \in 1 .. Len(queue[t]) /\ queue'[t][j] = queue[t][j + 1]
             /\ \A k \in 1 .. (j - 1) : queue'[t][k] = queue[t][k + 1]
    <3>1. PICK m \in 1 .. ((j + 1) - 1) : queue[t][m] = e
      BY <2>4, <2>7
    <3>2. m # 1
      <4>1. work[t].step = "skip" /\ queue[t] # <<>>
        BY <2>7, AcknowledgeEffect
      <4>2. queue[t][1].id \in processed \/ queue[t][1].type = "OfferingRetired"
        BY <1>3, <4>1 DEF SkipsHandled
      <4> QED
        BY <1>4, <2>2, <3>1, <4>2
    <3>3. m - 1 \in 1 .. (j - 1) /\ (m - 1) + 1 = m
      BY <3>2
    <3> QED
      BY <2>7, <3>1, <3>3
  <2> QED
    BY <2>5, <2>6, <2>7, Earlier
<1>5. \A e \in issued' : e.type = "OfferingPublished" => e.id \in processed' \/ e \in Queued("offering")'
  BY PublicationKept
<1> QED
  BY <1>1, <1>3, <1>4, <1>5 DEF InTurn

------------------------------------------------------------------------------
(* MongoDB converges.                                                      *)

LEMMA NextCalm ==
  ASSUME Inv, Inv', Hands, Hands', OneTask, OneTask', Numbered, Told, CalmInv, [Next]_vars
  PROVE  CalmInv'
<1> SUFFICES ASSUME happened' \subseteq CalmFaults
             PROVE  SkipsHandled' /\ InTurn' /\ \A o \in Offerings \ disturbed' : InOrder(o)'
  BY DEF CalmInv, CalmFaults
<1>1. SkipsHandled /\ InTurn /\ \A o \in Offerings \ disturbed : InOrder(o)
  BY RecordsGrow DEF CalmInv
<1>2. SkipsHandled' /\ InTurn'
  BY <1>1, SkipsNext, InTurnNext
<1>3. ASSUME NEW o \in Offerings \ disturbed' PROVE InOrder(o)'
  <2>1. o \in Offerings \ disturbed /\ o \notin disturbed'
    BY RecordsGrow
  <2>2. Unpublished(o) /\ Retired(o) /\ Published(o) /\ Fresh(o) /\ \A t \in Tasks : Reading(t, o)
    BY <1>1, <2>1 DEF InOrder
  <2>3. Unpublished(o)'
    BY <2>1, <2>2, UnpublishedNext
  <2>4. Retired(o)'
    BY <1>1, <2>1, <2>2, RetiredNext
  <2>5. Published(o)'
    BY <2>2, PublishedNext
  <2>6. Fresh(o)'
    BY <2>2, FreshNext
  <2>7. \A t \in Tasks : Reading(t, o)'
    BY <2>1, <2>2, ReadingNext
  <2> QED
    BY <2>3, <2>4, <2>5, <2>6, <2>7 DEF InOrder
<1> QED
  BY <1>2, <1>3

LEMMA InitCalm == Init => Numbered /\ Told /\ CalmInv
<1> SUFFICES ASSUME Init PROVE Numbered /\ Told /\ CalmInv
  OBVIOUS
<1>1. /\ \A t \in Tasks : work[t] = Idle
      /\ issued = {} /\ processed = {} /\ \A t \in Topics : queue[t] = <<>>
      /\ \A o \in Offerings : status[o] = "DRAFT" /\ entry[o] = "none" /\ mongo[o] = NoDocument
  BY DEF Init
<1>2. /\ Idle.step = "idle" /\ Idle.todo = {} /\ Idle.on = Nobody
      /\ NoDocument.status = "none" /\ \A p \in Parts : NoDocument.shows[p] = 0
  BY TaskFields, IdleType DEF Idle, NoDocument
<1>3. \A t \in Topics : t \in Tasks
  BY DEF Tasks
<1>4. Numbered
  <2>1. \A t \in Topics : DOMAIN queue[t] = {}
    BY <1>1
  <2> QED
    BY <1>1, <2>1 DEF Numbered
<1>5. Told
  BY <1>1, <1>2 DEF Told, Tasks
<1>6. SkipsHandled /\ InTurn
  BY <1>1, <1>2, <1>3 DEF SkipsHandled, InTurn, Queued, Topics
<1>7. ASSUME NEW o \in Offerings PROVE InOrder(o)
  <2>1. Absent(o)
    BY <1>1, <1>2, StoreAssumption DEF Absent, InSync
  <2>2. Unpublished(o) /\ Retired(o) /\ Published(o)
    BY <1>1, <2>1 DEF Unpublished, Retired, Published
  <2>3. Fresh(o)
    BY <1>1, <1>2 DEF Fresh
  <2>4. \A t \in Tasks : Reading(t, o)
    BY <1>1, <1>2 DEF Reading
  <2> QED
    BY <2>2, <2>3, <2>4 DEF InOrder
<1> QED
  BY <1>4, <1>5, <1>6, <1>7 DEF CalmInv

\* At rest nothing is to come, and what is owed is there.
LEMMA RestIsOwed ==
  ASSUME Inv, Told, NEW o \in Offerings, InOrder(o), AtRest, status[o] # "PUBLISHING"
  PROVE  mongo[o] = Owed(o)
<1>1. \A t \in Topics : \A e : ~Pending(e, t) /\ ~Ahead(e, t)
  BY DEF AtRest, Pending, Ahead, Queued
<1>2. \A x : TopicOf(x) \in Topics
  BY TopicOfType
<1>3. "offering" \in Topics
  BY DEF Topics
<1>4. CASE status[o] = "DRAFT"
  <2>1. Absent(o)
    BY <1>4 DEF Told, InOrder, Unpublished
  <2> QED
    BY <1>4, <2>1 DEF Absent, Owed
<1>5. CASE status[o] = "RETIRED"
  <2>1. Absent(o)
    BY <1>1, <1>3, <1>5 DEF InOrder, Retired, Retiring
  <2> QED
    BY <1>5, <2>1 DEF Absent, Owed
<1>6. CASE status[o] = "PUBLISHED"
  <2>1. mongo[o].status = "PUBLISHED"
    BY <1>1, <1>3, <1>6 DEF InOrder, Published, Publishing, PublicationAhead
  <2>2. \A p \in Shown(o) : ~PartComing(p, o)
    BY <1>1, <1>2 DEF PartComing, PartAhead
  <2>3. /\ \A p \in Shown(o) : mongo[o].shows[p] = version[p]
        /\ \A p \in Parts \ Shown(o) : mongo[o].shows[p] = 0
    BY <2>1, <2>2 DEF InOrder, Fresh
  <2> DEFINE owed == [p \in Parts |-> IF Answers(p) /\ \E i \in DOMAIN PartsOf[o] : PartsOf[o][i] = p
                                      THEN version[p] ELSE 0]
  <2>4. ASSUME NEW p \in Parts PROVE mongo[o].shows[p] = owed[p]
    <3>1. p \in Shown(o) <=> p \notin Characteristics /\ \E i \in DOMAIN PartsOf[o] : PartsOf[o][i] = p
      BY DEF Shown
    <3>2. CASE p \in Shown(o)
      BY <2>3, <3>1, <3>2 DEF Answers
    <3>3. CASE p \notin Shown(o)
      BY <2>3, <3>1, <3>3 DEF Answers
    <3> QED
      BY <3>2, <3>3
  <2>5. mongo[o] \in Document
    BY DEF Inv, TypeOK
  <2>6. mongo[o].shows \in [Parts -> 0 .. MaxVersion]
    BY <2>5 DEF Document
  <2>7. mongo[o].shows = owed
    BY <2>4, <2>6
  <2> HIDE DEF owed
  <2>8. mongo[o] = [status |-> "PUBLISHED", shows |-> owed]
    BY <2>1, <2>5, <2>7 DEF Document
  <2> QED
    BY <1>6, <2>8 DEF Owed, owed
<1> QED
  BY <1>4, <1>5, <1>6 DEF Inv, TypeOK, Statuses

\* When the events are handled MongoDB holds, of every offering that no two tasks worked
\* on at a time, the document of a published one as its sources are now and none of any
\* other: a second delivery, a crash or a failing search index changes nothing of that.
THEOREM MongoIsRight == Spec => []MongoConverges
<1> DEFINE All == Numbered /\ Told /\ CalmInv
<1>1. Init => All
  BY InitCalm
<1>2. HandsInv /\ HandsInv' /\ All /\ [Next]_vars => All'
  BY NextNumbered, NextTold, NextCalm DEF HandsInv
<1>3. HandsInv /\ All => MongoConverges
  <2> SUFFICES ASSUME HandsInv, All, AtRest, happened \subseteq CalmFaults,
                      NEW o \in Offerings \ disturbed, status[o] # "PUBLISHING"
               PROVE  mongo[o] = Owed(o)
    BY DEF MongoConverges, CalmFaults
  <2> QED
    BY RestIsOwed DEF HandsInv, CalmInv
<1> QED
  BY <1>1, <1>2, <1>3, HandsInvariance, PTL DEF Spec
=============================================================================
