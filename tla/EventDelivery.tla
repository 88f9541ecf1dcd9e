---------------------------- MODULE EventDelivery ----------------------------
(***************************************************************************)
(* An event's way from one service to another: the characteristic service  *)
(* writes a row and its event, the outbox listener of the common library    *)
(* publishes the event, RabbitMQ queues it, and the specification service's *)
(* consumer applies it to its cache of characteristics.                     *)
(*                                                                         *)
(* There is one characteristic: the events of others share the passes of   *)
(* the listener and are else independent of it.  Its row and its events     *)
(* are written by two commits (CharacteristicRepository commits on its      *)
(* own).  A pass of the listener reads the PENDING records once and works   *)
(* through them; the polling loop starts one every two seconds and every    *)
(* notification starts another, without waiting for those under way.        *)
(***************************************************************************)
EXTENDS Naturals, Sequences, FiniteSets

CONSTANTS
    Requests,   \* requests that can be under way at a time (a bound)
    Passes,     \* passes of the listener that can be under way (a bound)
    MaxRecords, \* outbox records of the characteristic (a bound)
    Faults,     \* the kinds of fault that may happen
    MaxFaults   \* how many of them (a bound)

FaultKinds ==
    { "cut",        \* a request fails between the commit of the row and its event
      "confirm",    \* the broker has the message, and the publisher does not know
      "broker",     \* the third attempt to publish fails too
      "database",   \* the commit that marks a record fails
      "crash",      \* the characteristic service is killed and started again
      "handler",    \* the consumer's handler fails
      "redelivery" }\* the consumer dies before it acknowledges a message

ASSUME DeliveryAssumption ==
    /\ MaxRecords \in Nat
    /\ Faults \subseteq FaultKinds
    /\ MaxFaults \in Nat

VARIABLES
    life,       \* the characteristic's row
    doing,      \* each request: its step, the event it owes, its outbox record
    outbox,     \* the records in the order of created_at
    pass,       \* each pass: records still to do; whether the first is published
    published,  \* history: records whose message has reached the queue
    queue,      \* the consumer's queue: records, oldest message first
    cached,     \* the characteristic is in the cache
    orderly,    \* history: no overlap so far, and no event lost
    faults      \* faults so far

vars == <<life, doing, outbox, pass, published, queue, cached, orderly, faults>>
serviceVars == <<life, doing>>
listenerVars == <<outbox, pass, published>>

Kinds == {"Created", "Updated", "Deleted"}
Steps == {"nothing", "write", "refresh", "flush", "commit"}
Statuses == {"flushed", "PENDING", "SENT", "FAILED", "rolled back"}
Record == [kind : Kinds, status : Statuses, before : SUBSET Nat]
Request == [step : Steps, kind : Kinds, record : Nat]
Pass == [todo : SUBSET Nat, sent : BOOLEAN]

NoRequest == [step |-> "nothing", kind |-> "Created", record |-> 0]
NoPass == [todo |-> {}, sent |-> FALSE]

TypeOK ==
    /\ life \in {"absent", "live", "gone"}
    /\ doing \in [Requests -> Request]
    /\ outbox \in Seq(Record)
    /\ pass \in [Passes -> Pass]
    /\ published \subseteq DOMAIN outbox
    /\ queue \in Seq(Nat)
    /\ cached \in BOOLEAN
    /\ orderly \in BOOLEAN
    /\ faults \in Nat

Init ==
    /\ life = "absent"
    /\ doing = [r \in Requests |-> NoRequest]
    /\ outbox = <<>>
    /\ pass = [p \in Passes |-> NoPass]
    /\ published = {}
    /\ queue = <<>>
    /\ cached = FALSE
    /\ orderly = TRUE
    /\ faults = 0

Fault(kind) ==
    /\ kind \in Faults
    /\ faults < MaxFaults
    /\ faults' = faults + 1

\* Records other sessions can see.
Committed == {i \in DOMAIN outbox : outbox[i].status \in {"PENDING", "SENT", "FAILED"}}
Pending == {i \in DOMAIN outbox : outbox[i].status = "PENDING"}
GivenUp == {i \in DOMAIN outbox : outbox[i].status = "FAILED"}

Marked(i, s) == outbox' = [outbox EXCEPT ![i].status = s]

-----------------------------------------------------------------------------
(* The characteristic service.                                             *)

Goes(r, step) == doing' = [doing EXCEPT ![r].step = step]
Ends(r) == doing' = [doing EXCEPT ![r] = NoRequest]

\* Requests whose record is not in the outbox yet.
Owing == {r \in Requests : doing[r].step \notin {"nothing", "commit"}}

Begins(r, step, kind) ==
    /\ doing[r].step = "nothing"
    /\ Len(outbox) + Cardinality(Owing) < MaxRecords
    /\ doing' = [doing EXCEPT ![r] = [step |-> step, kind |-> kind, record |-> 0]]
    /\ orderly' = (orderly /\ \A q \in Requests : doing[q].step = "nothing")

\* repository.create commits the row.
CreateRow(r) ==
    /\ life = "absent"
    /\ life' = "live"
    /\ Begins(r, "refresh", "Created")
    /\ UNCHANGED <<listenerVars, queue, cached, faults>>

\* get_characteristic; 404 and 409 change nothing.
ReadRow(r, kind) ==
    /\ life = "live"
    /\ kind \in {"Updated", "Deleted"}
    /\ Begins(r, "write", kind)
    /\ UNCHANGED <<life, listenerVars, queue, cached, faults>>

UpdateRow(r) ==
    /\ doing[r].step = "write"
    /\ doing[r].kind = "Updated"
    /\ life = "live"
    /\ Goes(r, "refresh")
    /\ UNCHANGED <<life, listenerVars, queue, cached, orderly, faults>>

\* Deleting a row that is gone only warns.
DeleteRow(r) ==
    /\ doing[r].step = "write"
    /\ doing[r].kind = "Deleted"
    /\ life' = "gone"
    /\ Goes(r, "flush")
    /\ UNCHANGED <<listenerVars, queue, cached, orderly, faults>>

Refresh(r) ==
    /\ doing[r].step = "refresh"
    /\ life = "live"
    /\ Goes(r, "flush")
    /\ UNCHANGED <<life, listenerVars, queue, cached, orderly, faults>>

\* The row is gone: StaleDataError or InvalidRequestError.
RowIsGone(r) ==
    /\ \/ doing[r].step = "refresh"
       \/ doing[r].step = "write" /\ doing[r].kind = "Updated"
    /\ life = "gone"
    /\ Ends(r)
    /\ UNCHANGED <<life, listenerVars, queue, cached, orderly, faults>>

\* The INSERT gives the record its created_at; nobody sees it before the commit.
FlushEvent(r) ==
    /\ doing[r].step = "flush"
    /\ outbox' = Append(outbox, [kind |-> doing[r].kind, status |-> "flushed", before |-> Committed])
    /\ doing' = [doing EXCEPT ![r] =
                    [step |-> "commit", kind |-> doing[r].kind, record |-> Len(outbox) + 1]]
    /\ UNCHANGED <<life, pass, published, queue, cached, orderly, faults>>

CommitEvent(r) ==
    /\ doing[r].step = "commit"
    /\ Marked(doing[r].record, "PENDING")
    /\ Ends(r)
    /\ UNCHANGED <<life, pass, published, queue, cached, orderly, faults>>

FailBeforeWrite(r) ==
    /\ doing[r].step = "write"
    /\ Ends(r)
    /\ UNCHANGED <<life, listenerVars, queue, cached, orderly, faults>>

\* The row is committed and its event is not.
FailBetweenCommits(r) ==
    /\ doing[r].step \in {"refresh", "flush", "commit"}
    /\ Fault("cut")
    /\ outbox' = [i \in DOMAIN outbox |->
                    IF doing[r].step = "commit" /\ i = doing[r].record
                    THEN [outbox[i] EXCEPT !.status = "rolled back"] ELSE outbox[i]]
    /\ Ends(r)
    /\ orderly' = FALSE
    /\ UNCHANGED <<life, pass, published, queue, cached>>

-----------------------------------------------------------------------------
(* The outbox listener.                                                    *)

Idle(p) == pass[p].todo = {}

\* Mutant: no poll, a pass starts for the newest record only.
StartPassForNewest(p) ==
    /\ Idle(p)
    /\ Len(outbox) \in Pending
    /\ pass' = [pass EXCEPT ![p] = [todo |-> Pending, sent |-> FALSE]]
    /\ orderly' = (orderly /\ \A q \in Passes : Idle(q))
    /\ UNCHANGED <<serviceVars, outbox, published, queue, cached, faults>>

StartPass(p) ==
    /\ Idle(p)
    /\ Pending # {}
    /\ pass' = [pass EXCEPT ![p] = [todo |-> Pending, sent |-> FALSE]]
    /\ orderly' = (orderly /\ \A q \in Passes : Idle(q))
    /\ UNCHANGED <<serviceVars, outbox, published, queue, cached, faults>>

\* Mutant: the query has no order_by.
NewestOf(p) == {i \in pass[p].todo : \A j \in pass[p].todo : j <= i}

\* The record the pass is at: order_by(created_at.asc()).
First(p) == {i \in pass[p].todo : \A j \in pass[p].todo : i <= j}

Reaches(p, i) ==
    /\ i \in First(p)
    /\ ~pass[p].sent
    /\ queue' = Append(queue, i)
    /\ published' = published \union {i}

Publish(p) ==
    /\ \E i \in First(p) : Reaches(p, i)
    /\ pass' = [pass EXCEPT ![p].sent = TRUE]
    /\ UNCHANGED <<serviceVars, outbox, cached, orderly, faults>>

\* An attempt fails whose message has arrived: publish tries again.
PublishUnconfirmed(p) ==
    /\ Fault("confirm")
    /\ \E i \in First(p) : Reaches(p, i)
    /\ UNCHANGED <<serviceVars, outbox, pass, cached, orderly>>

\* record.status is committed record by record.
Done(p, i, s) ==
    /\ Marked(i, s)
    /\ pass' = [pass EXCEPT ![p] = [todo |-> pass[p].todo \ {i}, sent |-> FALSE]]

\* RuntimeError after three attempts: the record is FAILED, and no pass looks
\* at it again.
GiveUp(p) ==
    /\ Fault("broker")
    /\ ~pass[p].sent
    /\ \E i \in First(p) : Done(p, i, "FAILED")
    /\ orderly' = FALSE
    /\ UNCHANGED <<serviceVars, published, queue, cached>>

MarkSent(p) ==
    /\ pass[p].sent
    /\ \E i \in First(p) : Done(p, i, "SENT")
    /\ UNCHANGED <<serviceVars, published, queue, cached, orderly, faults>>

\* session.commit fails: the pass ends, and its records are PENDING still.
PassFails(p) ==
    /\ Fault("database")
    /\ ~Idle(p)
    /\ pass' = [pass EXCEPT ![p] = NoPass]
    /\ UNCHANGED <<serviceVars, outbox, published, queue, cached, orderly>>

\* The service is killed: requests and passes are gone, the outbox is not.
Restart ==
    /\ Fault("crash")
    /\ doing' = [r \in Requests |-> NoRequest]
    /\ pass' = [p \in Passes |-> NoPass]
    /\ outbox' = [i \in DOMAIN outbox |->
                    IF outbox[i].status = "flushed"
                    THEN [outbox[i] EXCEPT !.status = "rolled back"] ELSE outbox[i]]
    /\ orderly' = (orderly /\ \A r \in Requests : doing[r].step \in {"nothing", "write"})
    /\ UNCHANGED <<life, published, queue, cached>>

-----------------------------------------------------------------------------
(* The consumer of the specification service.                              *)

\* Mutant: events are upserted whatever they say.
Upserted(i) == TRUE

\* Created and Updated are upserted.
Applied(i) == outbox[i].kind # "Deleted"

Consume ==
    /\ queue # <<>>
    /\ cached' = Applied(Head(queue))
    /\ queue' = Tail(queue)
    /\ UNCHANGED <<serviceVars, listenerVars, orderly, faults>>

\* The handler rolls back and logs; the message is acknowledged all the same.
ConsumeFails ==
    /\ Fault("handler")
    /\ queue # <<>>
    /\ queue' = Tail(queue)
    /\ orderly' = FALSE
    /\ UNCHANGED <<serviceVars, listenerVars, cached>>

\* The consumer dies between its commit and the acknowledgement.
ConsumeAgain ==
    /\ Fault("redelivery")
    /\ queue # <<>>
    /\ cached' = Applied(Head(queue))
    /\ UNCHANGED <<serviceVars, listenerVars, queue, orderly>>

-----------------------------------------------------------------------------
ServiceStep(r) ==
    \/ CreateRow(r)
    \/ \E kind \in Kinds : ReadRow(r, kind)
    \/ UpdateRow(r) \/ DeleteRow(r) \/ Refresh(r) \/ RowIsGone(r)
    \/ FlushEvent(r) \/ CommitEvent(r)
    \/ FailBeforeWrite(r) \/ FailBetweenCommits(r)

PassStep(p) ==
    \/ StartPass(p) \/ Publish(p) \/ PublishUnconfirmed(p)
    \/ GiveUp(p) \/ MarkSent(p) \/ PassFails(p)

Next ==
    \/ \E r \in Requests : ServiceStep(r)
    \/ \E p \in Passes : PassStep(p)
    \/ Restart
    \/ Consume \/ ConsumeFails \/ ConsumeAgain

Spec == Init /\ [][Next]_vars

\* The listener polls, its passes and the consumer go on.  No fault is fair:
\* PassStep is weakly fair as a whole, and a fault is never its only disjunct.
Fairness ==
    /\ \A p \in Passes : WF_vars(PassStep(p))
    /\ WF_vars(Consume \/ ConsumeFails \/ ConsumeAgain)

FairSpec == Spec /\ Fairness

-----------------------------------------------------------------------------
\* An event reaches the queue only after every event that was committed before it
\* was written, unless that one is FAILED: passes that overlap, fail or repeat may
\* publish an event twice and late, but never first before its predecessors.
CausalOrder ==
    \A i \in published : outbox[i].before \subseteq published \union GivenUp

\* Everything is at rest: no request, no record to publish, no message.
Quiet ==
    /\ \A r \in Requests : doing[r].step = "nothing"
    /\ Pending = {}
    /\ \A p \in Passes : Idle(p)
    /\ queue = <<>>

\* The cache of the specification service agrees with the characteristic service
\* at rest, though crashes publish and deliver events twice, as long as requests
\* for the characteristic and passes come one after another and no event is lost.
CacheConverges == orderly /\ Quiet => (cached <=> life = "live")

\* The same whatever overlaps (docs/backend/srs_backend.md:205).
CacheUpToDate == Quiet => (cached <=> life = "live")

\* In the end every committed event has been published or is FAILED, no record waits
\* for a pass, and the consumer has emptied its queue.
EventsAreDelivered ==
    <>[](/\ Committed \subseteq published \union GivenUp
         /\ Pending = {}
         /\ queue = <<>>)
=============================================================================
