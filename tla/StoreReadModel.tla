--------------------------- MODULE StoreReadModel ---------------------------
(***************************************************************************)
(* The store service: for each offering it keeps one document in MongoDB    *)
(* and the same document in Elasticsearch.  Four consumers, one task each   *)
(* on one event loop, handle the events of four queues; the saga's worker   *)
(* calls the endpoints that sync and delete an entry.  A sync reads the     *)
(* offering and its parts from the services that own them, one request      *)
(* after the other, and then writes the two stores: other tasks run between *)
(* any two of these awaits.                                                 *)
(*                                                                         *)
(* Of an entity the document shows only its version; version 0 stands for   *)
(* an entity that is deleted or that a document does not show.  An event    *)
(* reaches its queue with the commit that causes it (the outbox is the      *)
(* subject of EventDelivery).                                               *)
(***************************************************************************)
EXTENDS Naturals, Sequences, FiniteSets

CONSTANTS
    Offerings, Nobody,
    Characteristics, Specifications, Prices,
    PartsOf,    \* the parts of an offering, in the order in which they are read
    MaxVersion, \* versions of a part (a bound)
    MaxEvents,  \* events that are issued (a bound)
    Faults,     \* the kinds of fault that may happen, each of them once
    MaxFaults   \* how many of them (a bound)

Parts == Characteristics \union Specifications \union Prices

FaultKinds ==
    { "fetch",      \* the offering cannot be read
      "part",       \* a part is answered with an error
      "mongo",      \* an operation of MongoDB fails
      "elastic",    \* an operation of Elasticsearch fails
      "duplicate",  \* an event is published again
      "crash" }     \* the store service is killed and started again

ASSUME StoreAssumption ==
    /\ PartsOf \in [Offerings -> Seq(Parts)]
    /\ Offerings \intersect Parts = {}
    /\ Nobody \notin Offerings
    /\ MaxVersion \in Nat \ {0}
    /\ MaxEvents \in Nat
    /\ Faults \subseteq FaultKinds
    /\ MaxFaults \in Nat

VARIABLES
    status,     \* lifecycle status of an offering, in the offering service
    entry,      \* how far the saga of the offering has come with its store entry
    version,    \* version of a part, in the service that owns it
    issued,     \* history: the events issued so far
    queue,      \* the queue of a consumer, oldest event first
    processed,  \* collection processed_events
    mongo,      \* collection published_offerings
    elastic,    \* the search index
    work,       \* what a consumer, or the request of the saga's worker, is doing
    disturbed,  \* history: offerings two tasks have worked on at a time
    happened    \* faults so far

sources == <<status, entry, version>>
stores == <<mongo, elastic>>
events == <<issued, queue, processed>>
tasks == <<work, disturbed>>
vars == <<sources, events, stores, tasks, happened>>

Topics == {"characteristic", "specification", "price", "offering"}
Tasks == Topics \union {"worker"}
Statuses == {"none", "DRAFT", "PUBLISHING", "PUBLISHED", "RETIRED"}
Steps == {"idle", "find", "next", "read", "index", "remove", "unindex", "skip"}

Document == [status : Statuses, shows : [Parts -> 0 .. MaxVersion]]
NoDocument == [status |-> "none", shows |-> [p \in Parts |-> 0]]

Event == [id : Nat, type : {"OfferingPublished", "OfferingRetired", "Updated", "Deleted"},
          of : Offerings \union Parts]

\* A task at a step: the offerings to sync, the one in hand, the document
\* composed for it so far and the parts still to read.
Task(step, todo, on) ==
    [step |-> step, todo |-> todo, on |-> on, doc |-> NoDocument, unread |-> <<>>]
Idle == Task("idle", {}, Nobody)

TopicOf(x) ==
    CASE x \in Offerings -> "offering"
      [] x \in Characteristics -> "characteristic"
      [] x \in Specifications -> "specification"
      [] OTHER -> "price"

TypeOK ==
    /\ status \in [Offerings -> Statuses \ {"none"}]
    /\ entry \in [Offerings -> {"none", "syncing", "again", "synced", "deleting", "deleted"}]
    /\ version \in [Parts -> 0 .. MaxVersion]
    /\ issued \in SUBSET Event
    /\ queue \in [Topics -> Seq(issued)]
    /\ processed \in SUBSET Nat
    /\ mongo \in [Offerings -> Document]
    /\ elastic \in [Offerings -> Document]
    /\ work \in [Tasks -> [step : Steps, todo : SUBSET Offerings, on : Offerings \union {Nobody},
                           doc : Document, unread : Seq(Parts)]]
    /\ disturbed \in SUBSET Offerings
    /\ happened \in SUBSET FaultKinds

Init ==
    /\ status = [o \in Offerings |-> "DRAFT"]
    /\ entry = [o \in Offerings |-> "none"]
    /\ version = [p \in Parts |-> 1]
    /\ issued = {}
    /\ queue = [t \in Topics |-> <<>>]
    /\ processed = {}
    /\ mongo = [o \in Offerings |-> NoDocument]
    /\ elastic = [o \in Offerings |-> NoDocument]
    /\ work = [t \in Tasks |-> Idle]
    /\ disturbed = {}
    /\ happened = {}

Fault(kind) ==
    /\ kind \in Faults \ happened
    /\ Cardinality(happened) < MaxFaults
    /\ happened' = happened \union {kind}

\* The offerings that task t of w works on, or is about to.
Touched(w, t) ==
    IF w[t].step = "find"
    THEN {o \in Offerings : \E i \in DOMAIN PartsOf[o] : PartsOf[o][i] = Head(queue[t]).of}
    ELSE w[t].todo \union ({w[t].on} \ {Nobody})

\* Task t takes a step; offerings that two tasks then touch are disturbed.
Goes(t, task) ==
    LET w == [work EXCEPT ![t] = task] IN
    /\ work' = w
    /\ disturbed' = disturbed \union
          {o \in Offerings : Cardinality({u \in Tasks : o \in Touched(w, u)}) > 1}

------------------------------------------------------------------------------
(* The services that own the data, and the saga of an offering.            *)

Issue(type, x) ==
    LET e == [id |-> Cardinality(issued) + 1, type |-> type, of |-> x] IN
    /\ Cardinality(issued) < MaxEvents
    /\ issued' = issued \union {e}
    /\ queue' = [queue EXCEPT ![TopicOf(x)] = Append(@, e)]

Publish(o) ==
    /\ status[o] = "DRAFT"
    /\ status' = [status EXCEPT ![o] = "PUBLISHING"]
    /\ UNCHANGED <<entry, version, events, stores, tasks, happened>>

Confirm(o) ==
    /\ status[o] = "PUBLISHING" /\ entry[o] = "synced"
    /\ status' = [status EXCEPT ![o] = "PUBLISHED"]
    /\ Issue("OfferingPublished", o)
    /\ UNCHANGED <<entry, version, processed, stores, tasks, happened>>

\* The saga fails before it makes the entry, or after it has deleted it.
Fail(o) ==
    /\ status[o] = "PUBLISHING" /\ entry[o] \in {"none", "deleted"}
    /\ status' = [status EXCEPT ![o] = "DRAFT"]
    /\ entry' = [entry EXCEPT ![o] = "none"]
    /\ UNCHANGED <<version, events, stores, tasks, happened>>

Retire(o) ==
    /\ status[o] = "PUBLISHED"
    /\ status' = [status EXCEPT ![o] = "RETIRED"]
    /\ Issue("OfferingRetired", o)
    /\ UNCHANGED <<entry, version, processed, stores, tasks, happened>>

UpdatePart(p) ==
    /\ version[p] \in 1 .. MaxVersion - 1
    /\ version' = [version EXCEPT ![p] = @ + 1]
    /\ Issue("Updated", p)
    /\ UNCHANGED <<status, entry, processed, stores, tasks, happened>>

DeletePart(p) ==
    /\ version[p] # 0
    /\ version' = [version EXCEPT ![p] = 0]
    /\ Issue("Deleted", p)
    /\ UNCHANGED <<status, entry, processed, stores, tasks, happened>>

\* CreateStoreEntry: the worker calls the sync endpoint.
CallSync(o) ==
    /\ status[o] = "PUBLISHING" /\ entry[o] \in {"none", "again"}
    /\ work["worker"] = Idle
    /\ entry' = [entry EXCEPT ![o] = "syncing"]
    /\ Goes("worker", Task("next", {o}, Nobody))
    /\ UNCHANGED <<status, version, events, stores, happened>>

\* DeleteStoreEntry, when the confirmation has failed.
CallDelete(o) ==
    /\ status[o] = "PUBLISHING" /\ entry[o] = "synced"
    /\ work["worker"] = Idle
    /\ entry' = [entry EXCEPT ![o] = "deleting"]
    /\ Goes("worker", Task("remove", {}, o))
    /\ UNCHANGED <<status, version, events, stores, happened>>

\* The endpoint answers: 204 to a sync, whether it has succeeded or not; and the
\* worker completes the deletion whatever the answer.
Answered == [none |-> "none", again |-> "again", syncing |-> "synced", synced |-> "synced",
             deleting |-> "deleted", deleted |-> "deleted"]

------------------------------------------------------------------------------
(* StoreService: the operations on one offering, one step per await.       *)

\* fetch_offering_details: the offering.  sync_offering swallows every error.
FetchOffering(t, o) ==
    /\ work[t].step = "next" /\ o \in work[t].todo
    /\ \/ /\ Goes(t, [step |-> "read", todo |-> work[t].todo \ {o}, on |-> o,
                       doc |-> [NoDocument EXCEPT !.status = status[o]], unread |-> PartsOf[o]])
          /\ UNCHANGED happened
       \/ Fault("fetch") /\ Goes(t, Task("next", work[t].todo \ {o}, Nobody))
    /\ UNCHANGED <<sources, events, stores>>

\* The store sends no token, and of the services it reads only the
\* characteristic service wants one to answer.
Answers(p) == version[p] # 0 /\ p \notin Characteristics

\* A part that is not answered with 200 is left out of the document.
FetchPart(t) ==
    LET p == Head(work[t].unread) IN
    /\ work[t].step = "read" /\ work[t].unread # <<>>
    /\ \/ /\ Answers(p)
          /\ Goes(t, [work[t] EXCEPT !.unread = Tail(@), !.doc.shows[p] = version[p]])
          /\ UNCHANGED happened
       \/ /\ Goes(t, [work[t] EXCEPT !.unread = Tail(@)])
          /\ IF Answers(p) THEN Fault("part") ELSE UNCHANGED happened
    /\ UNCHANGED <<sources, events, stores>>

\* Mutant: a failure of MongoDB does not end the sync.
WriteMongoAndGoOn(t) ==
    /\ work[t].step = "read" /\ work[t].unread = <<>>
    /\ \/ mongo' = [mongo EXCEPT ![work[t].on] = work[t].doc] /\ UNCHANGED happened
       \/ Fault("mongo") /\ UNCHANGED mongo
    /\ Goes(t, [work[t] EXCEPT !.step = "index"])
    /\ UNCHANGED <<sources, events, elastic>>

WriteMongo(t) ==
    /\ work[t].step = "read" /\ work[t].unread = <<>>
    /\ \/ /\ mongo' = [mongo EXCEPT ![work[t].on] = work[t].doc]
          /\ Goes(t, [work[t] EXCEPT !.step = "index"])
          /\ UNCHANGED happened
       \/ Fault("mongo") /\ Goes(t, Task("next", work[t].todo, Nobody)) /\ UNCHANGED mongo
    /\ UNCHANGED <<sources, events, elastic>>

IndexElastic(t) ==
    /\ work[t].step = "index"
    /\ \/ /\ elastic' = [elastic EXCEPT ![work[t].on] = work[t].doc]
          /\ UNCHANGED happened
       \/ Fault("elastic") /\ UNCHANGED elastic
    /\ Goes(t, Task("next", work[t].todo, Nobody))
    /\ UNCHANGED <<sources, events, mongo>>

\* An exception that leaves retire_offering: the event is acknowledged but not
\* marked; the endpoint answers 500.
Raised(t) == IF t \in Topics THEN Task("skip", {}, Nobody) ELSE Task("next", {}, Nobody)

\* Mutant: the document is only marked as deleted.
RemoveMongoSoftly(t) ==
    /\ work[t].step = "remove"
    /\ mongo' = [mongo EXCEPT ![work[t].on].status = "DELETED"]
    /\ Goes(t, [work[t] EXCEPT !.step = "unindex"])
    /\ UNCHANGED <<sources, events, elastic, happened>>

RemoveMongo(t) ==
    /\ work[t].step = "remove"
    /\ \/ /\ mongo' = [mongo EXCEPT ![work[t].on] = NoDocument]
          /\ Goes(t, [work[t] EXCEPT !.step = "unindex"])
          /\ UNCHANGED happened
       \/ Fault("mongo") /\ Goes(t, Raised(t)) /\ UNCHANGED mongo
    /\ UNCHANGED <<sources, events, elastic>>

RemoveElastic(t) ==
    /\ work[t].step = "unindex"
    /\ \/ /\ elastic' = [elastic EXCEPT ![work[t].on] = NoDocument]
          /\ Goes(t, Task("next", {}, Nobody))
          /\ UNCHANGED happened
       \/ Fault("elastic") /\ Goes(t, Raised(t)) /\ UNCHANGED elastic
    /\ UNCHANGED <<sources, events, mongo>>

Answer ==
    /\ work["worker"].step = "next" /\ work["worker"].todo = {}
    /\ Goes("worker", Idle)
    /\ entry' = [o \in Offerings |-> Answered[entry[o]]]
    /\ UNCHANGED <<status, version, events, stores, happened>>

------------------------------------------------------------------------------
(* EventConsumerService: a consumer handles the oldest event of its queue.  *)

\* What an event makes the consumer do first.
FirstTask(e) ==
    CASE e.type = "OfferingPublished" -> Task("next", {e.of}, Nobody)
      [] e.type = "OfferingRetired" -> Task("remove", {}, e.of)
      [] OTHER -> Task("find", {}, Nobody)

\* Mutant: no check whether the event is processed.
BeginAlways(t) ==
    LET e == Head(queue[t]) IN
    /\ work[t] = Idle /\ queue[t] # <<>>
    /\ Goes(t, FirstTask(e))
    /\ UNCHANGED <<sources, events, stores, happened>>

\* Mutant: an event that is processed is not acknowledged.
BeginUnacknowledged(t) ==
    LET e == Head(queue[t]) IN
    /\ work[t] = Idle /\ queue[t] # <<>> /\ e.id \notin processed
    /\ Goes(t, FirstTask(e))
    /\ UNCHANGED <<sources, events, stores, happened>>

\* The event that the consumer has in hand stays in the queue till it is
\* acknowledged.
Begin(t) ==
    LET e == Head(queue[t]) IN
    /\ work[t] = Idle /\ queue[t] # <<>>
    /\ \/ /\ e.id \in processed
          /\ Goes(t, Task("skip", {}, Nobody))
          /\ UNCHANGED happened
       \/ /\ e.id \notin processed
          /\ Goes(t, FirstTask(e))
          /\ UNCHANGED happened
       \/ Fault("mongo") /\ Goes(t, Raised(t))
    /\ UNCHANGED <<sources, events, stores>>

\* Mutant: it looks in the search index.
FindAffectedInIndex(t) ==
    /\ work[t].step = "find"
    /\ Goes(t, Task("next", {o \in Offerings : elastic[o].shows[Head(queue[t]).of] # 0}, Nobody))
    /\ UNCHANGED <<sources, events, stores, happened>>

\* find_affected_offerings looks for the part in the documents of MongoDB.
FindAffected(t) ==
    LET p == Head(queue[t]).of IN
    /\ work[t].step = "find"
    /\ \/ /\ Goes(t, Task("next", {o \in Offerings : mongo[o].shows[p] # 0}, Nobody))
          /\ UNCHANGED happened
       \/ Fault("mongo") /\ Goes(t, Raised(t))
    /\ UNCHANGED <<sources, events, stores>>

MarkProcessed(t) ==
    /\ t \in Topics
    /\ work[t].step = "next" /\ work[t].todo = {}
    /\ \/ processed' = processed \union {Head(queue[t]).id} /\ UNCHANGED happened
       \/ Fault("mongo") /\ UNCHANGED processed
    /\ Goes(t, Task("skip", {}, Nobody))
    /\ UNCHANGED <<sources, issued, queue, stores>>

Acknowledge(t) ==
    /\ work[t].step = "skip"
    /\ queue' = [queue EXCEPT ![t] = Tail(@)]
    /\ Goes(t, Idle)
    /\ UNCHANGED <<sources, issued, processed, stores, happened>>

------------------------------------------------------------------------------
(* Faults from outside.                                                    *)

PublishAgain(e) ==
    /\ Fault("duplicate")
    /\ queue' = [queue EXCEPT ![TopicOf(e.of)] = Append(@, e)]
    /\ UNCHANGED <<sources, issued, processed, stores, tasks>>

\* The events in hand are delivered again, and the worker repeats its request.
Crash ==
    /\ Fault("crash")
    /\ work' = [t \in Tasks |-> Idle]
    /\ entry' = [o \in Offerings |->
          CASE entry[o] = "syncing" -> "again" [] entry[o] = "deleting" -> "synced"
            [] OTHER -> entry[o]]
    /\ UNCHANGED <<status, version, events, stores, disturbed>>

------------------------------------------------------------------------------
Owners ==
    \/ \E o \in Offerings : Publish(o) \/ Confirm(o) \/ Fail(o) \/ Retire(o)
                           \/ CallSync(o) \/ CallDelete(o)
    \/ \E p \in Parts : UpdatePart(p) \/ DeletePart(p)

TaskStep(t) ==
    \/ \E o \in Offerings : FetchOffering(t, o)
    \/ FetchPart(t) \/ WriteMongo(t) \/ IndexElastic(t) \/ RemoveMongo(t) \/ RemoveElastic(t)

Consumer(t) == Begin(t) \/ FindAffected(t) \/ MarkProcessed(t) \/ Acknowledge(t)

Next ==
    \/ Owners
    \/ \E t \in Tasks : TaskStep(t)
    \/ \E t \in Topics : Consumer(t)
    \/ Answer
    \/ \E e \in issued : PublishAgain(e)
    \/ Crash

Spec == Init /\ [][Next]_vars

Fairness ==
    /\ \A t \in Tasks : WF_vars(TaskStep(t))
    /\ \A t \in Topics : WF_vars(Consumer(t))

FairSpec == Spec /\ Fairness

------------------------------------------------------------------------------
(* Properties.                                                             *)

AtRest == (\A t \in Topics : queue[t] = <<>>) /\ (\A t \in Tasks : work[t] = Idle)

\* The document of a published offering as its sources are now; no document else.
Owed(o) ==
    IF status[o] # "PUBLISHED" THEN NoDocument
    ELSE [status |-> status[o],
          shows |-> [p \in Parts |-> IF Answers(p) /\ \E i \in DOMAIN PartsOf[o] : PartsOf[o][i] = p
                                    THEN version[p] ELSE 0]]

\* When the events are handled, MongoDB shows a published offering as its
\* sources are and no other offering, if no two tasks worked on it at a time:
\* although events come twice, the service crashes or the search index fails.
MongoConverges ==
    AtRest /\ happened \subseteq {"duplicate", "crash", "elastic"} =>
        \A o \in Offerings \ disturbed : status[o] # "PUBLISHING" => mongo[o] = Owed(o)

\* When the events are handled, the search index holds what MongoDB holds,
\* although sources or MongoDB have failed: sync and retire_offering change the
\* index after MongoDB, and leave it alone when MongoDB fails.
ElasticFollows ==
    AtRest /\ happened \subseteq {"duplicate", "fetch", "part", "mongo"} =>
        \A o \in Offerings \ disturbed : elastic[o] = mongo[o]

\* "RETIRED offerings hidden from Store" (srs_backend.md:1610): when the events
\* are handled and nothing has failed, a retired offering has no document.
RetiredIsHidden ==
    AtRest /\ happened = {} =>
        \A o \in Offerings : status[o] = "RETIRED" => mongo[o] = NoDocument

\* A retired offering is out of both stores, no sync has it in hand and its
\* publication is marked.
Gone(o) ==
    /\ status[o] = "RETIRED" /\ mongo[o] = NoDocument /\ elastic[o] = NoDocument
    /\ \A t \in Tasks :
          o \notin work[t].todo /\ (o = work[t].on => work[t].step \in {"remove", "unindex"})
    /\ \A e \in issued : e.type = "OfferingPublished" /\ e.of = o => e.id \in processed

\* Nothing brings a retired offering back once it is gone: no event of a part,
\* no second delivery of its publication, no fault.
RetiredStaysOut == [][\A o \in Offerings : Gone(o) => Gone(o)']_vars

\* A retired offering leaves both stores, although events come twice and the
\* service crashes, if its sync never overlapped with another task.
RetiredLeaves ==
    \A o \in Offerings :
        status[o] = "RETIRED" ~>
            \/ mongo[o] = NoDocument /\ elastic[o] = NoDocument
            \/ o \in disturbed
            \/ happened \intersect {"mongo", "elastic"} # {}
=============================================================================
