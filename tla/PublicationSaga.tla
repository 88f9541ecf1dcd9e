--------------------------- MODULE PublicationSaga ---------------------------
(***************************************************************************)
(* The offering publication saga: the composition of the offering, pricing *)
(* and store services, the four external-task workers (saga_worker.py) and *)
(* the Camunda process docs/camunda/offering_publication_saga.bpmn.        *)
(*                                                                         *)
(* One step is one HTTP exchange of a worker or of the publish request, as *)
(* its server sees it.  A service's handler is atomic here; the races       *)
(* inside one service are the subject of PricingService and               *)
(* OfferingService.  Everything that can go wrong with an exchange is a    *)
(* disjunct that spends one unit of MaxFaults and whose kind is enabled in  *)
(* Faults, so that a run, or a theorem, names the faults it is about.      *)
(***************************************************************************)
EXTENDS Naturals, Sequences, FiniteSets

CONSTANTS
    Offerings,      \* product offerings, with the columns a publication reads
    Prices,         \* prices of the pricing service
    PricesOf,       \* PricesOf[o]: the offering's pricing_ids, in order
    Sagas,          \* process instances Camunda may create (a bound)
    NoSaga, NoOffering, NoPrice,
    Faults,         \* the kinds of fault that may happen
    MaxFaults       \* how many of them (a bound)

FaultKinds ==
    { "start",      \* the POST that starts the process fails or is refused
      "abort",      \* the offering service stops before it commits a publish
      "refused",    \* a service answers an error and changes nothing
      "unreached",  \* the client gets an exception, the request is never run
      "late",       \* the client times out, the request runs some time later
      "swallowed",  \* sync_offering fails inside and answers 204 all the same
      "token",      \* a worker's access token expires
      "report",     \* a report of the worker to Camunda fails
      "crash",      \* a worker process is killed and started again
      "event" }     \* an offering event never reaches the store

ASSUME SagaAssumption ==
    /\ PricesOf \in [Offerings -> Seq(Prices)]
    /\ \A o \in Offerings : PricesOf[o] # <<>>
    /\ NoSaga \notin Sagas
    /\ NoOffering \notin Offerings
    /\ NoPrice \notin Prices
    /\ Faults \subseteq FaultKinds
    /\ MaxFaults \in Nat

PriceSet(o) == {PricesOf[o][i] : i \in DOMAIN PricesOf[o]}

-----------------------------------------------------------------------------
(* The process definition.                                                 *)

Forward == {"LockPrices", "ValidateSpecs", "CreateStoreEntry", "ConfirmPublication"}
Compensation == {"DeleteStoreEntry", "UnlockPrices", "RevertToDraft"}
Activities == Forward \union Compensation
Ends == {"EndEvent_1", "EndEvent_Error"}

\* Mutants of the flows: wirings that a slip in the BPMN file would give.
FlowWithoutRevert ==
    [LockPrices |-> "ValidateSpecs", ValidateSpecs |-> "CreateStoreEntry",
     CreateStoreEntry |-> "ConfirmPublication", ConfirmPublication |-> "EndEvent_1",
     DeleteStoreEntry |-> "UnlockPrices", UnlockPrices |-> "EndEvent_Error",
     RevertToDraft |-> "EndEvent_Error"]
FlowFromConfirmToDelete ==
    [LockPrices |-> "ValidateSpecs", ValidateSpecs |-> "CreateStoreEntry",
     CreateStoreEntry |-> "ConfirmPublication", ConfirmPublication |-> "DeleteStoreEntry",
     DeleteStoreEntry |-> "UnlockPrices", UnlockPrices |-> "RevertToDraft",
     RevertToDraft |-> "EndEvent_Error"]
ErrorFlowOnward ==
    [LockPrices |-> "ValidateSpecs", ValidateSpecs |-> "UnlockPrices",
     CreateStoreEntry |-> "UnlockPrices", ConfirmPublication |-> "DeleteStoreEntry"]
ErrorFlowWithoutUnlock ==
    [LockPrices |-> "UnlockPrices", ValidateSpecs |-> "RevertToDraft",
     CreateStoreEntry |-> "UnlockPrices", ConfirmPublication |-> "DeleteStoreEntry"]
ErrorFlowWithoutDelete ==
    [LockPrices |-> "UnlockPrices", ValidateSpecs |-> "UnlockPrices",
     CreateStoreEntry |-> "UnlockPrices", ConfirmPublication |-> "UnlockPrices"]

\* Sequence flow taken when the worker completes the task.
OnComplete ==
    [LockPrices |-> "ValidateSpecs", ValidateSpecs |-> "CreateStoreEntry",
     CreateStoreEntry |-> "ConfirmPublication", ConfirmPublication |-> "EndEvent_1",
     DeleteStoreEntry |-> "UnlockPrices", UnlockPrices |-> "RevertToDraft",
     RevertToDraft |-> "EndEvent_Error"]

\* Sequence flow of the error boundary event attached to the task.
OnError ==
    [LockPrices |-> "UnlockPrices", ValidateSpecs |-> "UnlockPrices",
     CreateStoreEntry |-> "UnlockPrices", ConfirmPublication |-> "DeleteStoreEntry"]

\* The worker that subscribes to the topic of the activity.
Workers == {"pricing", "specification", "store", "offering"}
WorkerOf ==
    [LockPrices |-> "pricing", UnlockPrices |-> "pricing",
     ValidateSpecs |-> "specification",
     CreateStoreEntry |-> "store", DeleteStoreEntry |-> "store",
     ConfirmPublication |-> "offering", RevertToDraft |-> "offering"]

\* The endpoint that the activity's handler calls.
OpOf ==
    [LockPrices |-> "lock", UnlockPrices |-> "unlock", ValidateSpecs |-> "validate",
     CreateStoreEntry |-> "sync", DeleteStoreEntry |-> "delete",
     ConfirmPublication |-> "confirm", RevertToDraft |-> "fail"]

\* The store worker sends no Authorization header.
Authorized == Workers \ {"store"}

-----------------------------------------------------------------------------
VARIABLES
    status,         \* lifecycle_status of the offering rows, as committed
    committing,     \* offerings with a publish request between flush and commit
    events,         \* per offering, the events the store has not consumed
    lockedBy,       \* locked_by_saga_id of the price rows (NoSaga: not locked)
    inStore,        \* offerings with a document in the store's read model
    at,             \* Camunda: where each process instance stands
    offeringOf,     \* Camunda: process variable offeringId
    incident,       \* Camunda: instances whose task has no retries left
    worker,         \* the task a worker handles and how far it is
    token,          \* workers whose access token is still valid
    late,           \* requests given up by their client and still to be run
    faults          \* faults so far

offeringVars == <<status, committing, events>>
camundaVars == <<at, offeringOf, incident>>
serviceVars == <<status, events, lockedBy, inStore>>
vars == <<offeringVars, lockedBy, inStore, camundaVars, worker, token, late, faults>>

Pcs == {"idle", "call", "rollback", "complete", "bpmnError", "fail"}
Idle == [task |-> NoSaga, pc |-> "idle", i |-> 0, n |-> 0]
Call == [op : {OpOf[a] : a \in Activities}, saga : Sagas, price : Prices \union {NoPrice}]

TypeOK ==
    /\ status \in [Offerings -> {"DRAFT", "PUBLISHING", "PUBLISHED", "RETIRED"}]
    /\ committing \subseteq Offerings
    /\ events \in [Offerings -> Seq({"OfferingPublished", "OfferingRetired"})]
    /\ lockedBy \in [Prices -> Sagas \union {NoSaga}]
    /\ inStore \subseteq Offerings
    /\ at \in [Sagas -> Activities \union Ends \union {"NotStarted"}]
    /\ offeringOf \in [Sagas -> Offerings \union {NoOffering}]
    /\ incident \subseteq Sagas
    /\ worker \in [Workers -> [task : Sagas \union {NoSaga}, pc : Pcs, i : Nat, n : Nat]]
    /\ token \subseteq Authorized
    /\ late \subseteq Call
    /\ faults \in Nat

Init ==
    /\ status = [o \in Offerings |-> "DRAFT"]
    /\ committing = {}
    /\ events = [o \in Offerings |-> <<>>]
    /\ lockedBy = [p \in Prices |-> NoSaga]
    /\ inStore = {}
    /\ at = [s \in Sagas |-> "NotStarted"]
    /\ offeringOf = [s \in Sagas |-> NoOffering]
    /\ incident = {}
    /\ worker = [w \in Workers |-> Idle]
    /\ token = Authorized
    /\ late = {}
    /\ faults = 0

Fault(kind) ==
    /\ kind \in Faults
    /\ faults < MaxFaults
    /\ faults' = faults + 1

-----------------------------------------------------------------------------
(* The offering service's own requests.                                    *)

\* Mutant: the row is not write-locked while Camunda is called.
InitiateWithoutRowLock(o, s) ==
    /\ status[o] = "DRAFT"
    /\ at[s] = "NotStarted"
    /\ committing' = committing \union {o}
    /\ at' = [at EXCEPT ![s] = "LockPrices"]
    /\ offeringOf' = [offeringOf EXCEPT ![s] = o]
    /\ UNCHANGED <<serviceVars, incident, worker, token, late, faults>>

\* initiate_publication up to the answer of Camunda: the row is flushed (and
\* write-locked), the saga is started, nothing is committed.  The row lock
\* keeps a second publish of the offering waiting.
InitiatePublication(o, s) ==
    /\ status[o] = "DRAFT"
    /\ o \notin committing
    /\ at[s] = "NotStarted"
    /\ committing' = committing \union {o}
    /\ at' = [at EXCEPT ![s] = "LockPrices"]
    /\ offeringOf' = [offeringOf EXCEPT ![s] = o]
    /\ UNCHANGED <<serviceVars, incident, worker, token, late, faults>>

\* Camunda refuses or cannot be reached: the error is logged, nothing else.
InitiateWithoutSaga(o) ==
    /\ Fault("start")
    /\ status[o] = "DRAFT"
    /\ o \notin committing
    /\ committing' = committing \union {o}
    /\ UNCHANGED <<serviceVars, camundaVars, worker, token, late>>

CommitPublication(o) ==
    /\ o \in committing
    /\ committing' = committing \ {o}
    /\ status' = [status EXCEPT ![o] = "PUBLISHING"]
    /\ UNCHANGED <<events, lockedBy, inStore, camundaVars, worker, token, late, faults>>

\* The service stops, or the commit fails: the row stays as it was.
AbortPublication(o) ==
    /\ Fault("abort")
    /\ o \in committing
    /\ committing' = committing \ {o}
    /\ UNCHANGED <<serviceVars, camundaVars, worker, token, late>>

RetireOffering(o) ==
    /\ status[o] = "PUBLISHED"
    /\ status' = [status EXCEPT ![o] = "RETIRED"]
    /\ events' = [events EXCEPT ![o] = Append(@, "OfferingRetired")]
    /\ UNCHANGED <<committing, lockedBy, inStore, camundaVars, worker, token, late, faults>>

\* Mutant: every offering event is handled as a sync.
ConsumeAsSync(o) ==
    /\ events[o] # <<>>
    /\ events' = [events EXCEPT ![o] = Tail(@)]
    /\ inStore' = inStore \union {o}
    /\ UNCHANGED <<status, committing, lockedBy, camundaVars, worker, token, late, faults>>

\* The store's consumer of product.offering.events (outbox and queue keep the
\* order of one offering's events: a single poller publishes them).
ConsumeOfferingEvent(o) ==
    /\ events[o] # <<>>
    /\ events' = [events EXCEPT ![o] = Tail(@)]
    /\ \/ /\ inStore' = IF Head(events[o]) = "OfferingPublished"
                        THEN inStore \union {o} ELSE inStore \ {o}
          /\ faults' = faults
       \/ Fault("event") /\ inStore' = inStore
    /\ UNCHANGED <<status, committing, lockedBy, camundaVars, worker, token, late>>

-----------------------------------------------------------------------------
(* The endpoints the workers call: effect and answer (ok: a 2xx status).   *)

LockPrice(p, s, ok) ==
    /\ ok = (lockedBy[p] \in {NoSaga, s})
    /\ lockedBy' = IF ok THEN [lockedBy EXCEPT ![p] = s] ELSE lockedBy
    /\ UNCHANGED <<status, events, inStore>>

UnlockPrice(p, ok) ==
    /\ ok = TRUE
    /\ lockedBy' = [lockedBy EXCEPT ![p] = NoSaga]
    /\ UNCHANGED <<status, events, inStore>>

\* Any specification may have been deleted meanwhile.
ValidateSpecifications(ok) ==
    /\ ok \in BOOLEAN
    /\ UNCHANGED serviceVars

SyncOffering(o, ok) ==
    /\ ok = TRUE
    /\ inStore' = inStore \union {o}
    /\ UNCHANGED <<status, events, lockedBy>>

DeleteOfferingRead(o, ok) ==
    /\ ok = TRUE
    /\ inStore' = inStore \ {o}
    /\ UNCHANGED <<status, events, lockedBy>>

\* Mutant: confirm does not look at the status.
ConfirmFromAnyStatus(o, ok) ==
    /\ ok = TRUE
    /\ status' = [status EXCEPT ![o] = "PUBLISHED"]
    /\ events' = [events EXCEPT ![o] = Append(@, "OfferingPublished")]
    /\ UNCHANGED <<lockedBy, inStore>>

ConfirmPublication(o, ok) ==
    /\ ok = (status[o] = "PUBLISHING")
    /\ status' = IF ok THEN [status EXCEPT ![o] = "PUBLISHED"] ELSE status
    /\ events' = IF ok THEN [events EXCEPT ![o] = Append(@, "OfferingPublished")] ELSE events
    /\ UNCHANGED <<lockedBy, inStore>>

\* Mutants: fail does not look at the status; it writes a status of its own.
FailFromAnyStatus(o, ok) ==
    /\ ok = TRUE
    /\ status' = [status EXCEPT ![o] = "DRAFT"]
    /\ UNCHANGED <<events, lockedBy, inStore>>
FailToFailed(o, ok) ==
    /\ ok = (status[o] = "PUBLISHING")
    /\ status' = IF ok THEN [status EXCEPT ![o] = "FAILED"] ELSE status
    /\ UNCHANGED <<events, lockedBy, inStore>>

FailPublication(o, ok) ==
    /\ ok = (status[o] = "PUBLISHING")
    /\ status' = IF ok THEN [status EXCEPT ![o] = "DRAFT"] ELSE status
    /\ UNCHANGED <<events, lockedBy, inStore>>

Request(c, ok) ==
    LET o == offeringOf[c.saga]
    IN  \/ c.op = "lock" /\ LockPrice(c.price, c.saga, ok)
        \/ c.op = "unlock" /\ UnlockPrice(c.price, ok)
        \/ c.op = "validate" /\ ValidateSpecifications(ok)
        \/ c.op = "sync" /\ SyncOffering(o, ok)
        \/ c.op = "delete" /\ DeleteOfferingRead(o, ok)
        \/ c.op = "confirm" /\ ConfirmPublication(o, ok)
        \/ c.op = "fail" /\ FailPublication(o, ok)

\* A request whose client has gone is run now.
RunLateRequest(c) ==
    /\ c \in late
    /\ late' = late \ {c}
    /\ \E ok \in BOOLEAN : Request(c, ok)
    /\ UNCHANGED <<committing, camundaVars, worker, token, faults>>

-----------------------------------------------------------------------------
(* The handlers.  A handler is at its i-th call; the lock handler, when it  *)
(* rolls back, unlocks the first n prices it had locked.                   *)

Activity(w) == at[worker[w].task]
PricesOfTask(w) == PricesOf[offeringOf[worker[w].task]]

CallOf(w) ==
    [op |-> IF worker[w].pc = "rollback" THEN "unlock" ELSE OpOf[Activity(w)],
     saga |-> worker[w].task,
     price |-> IF w = "pricing" THEN PricesOfTask(w)[worker[w].i] ELSE NoPrice]

Goto(w, pc, i, n) ==
    worker' = [worker EXCEPT ![w] = [task |-> worker[w].task, pc |-> pc, i |-> i, n |-> n]]

\* Mutant: the loop stops before its last price.
NextCallButLast(w, k, report) ==
    IF worker[w].i + 1 < k
    THEN Goto(w, worker[w].pc, worker[w].i + 1, worker[w].n)
    ELSE Goto(w, report, 0, 0)

\* The next call of a loop of k calls, or the report that follows the loop.
NextCall(w, k, report) ==
    IF worker[w].i < k
    THEN Goto(w, worker[w].pc, worker[w].i + 1, worker[w].n)
    ELSE Goto(w, report, 0, 0)

\* except Exception of handle_lock_prices: unlock what this run has locked.
RollBackLocks(w) ==
    IF worker[w].i = 1
    THEN Goto(w, "bpmnError", 0, 0)
    ELSE Goto(w, "rollback", 1, worker[w].i - 1)

\* What the handler does with an answer.
Continue(w, ok) ==
    IF worker[w].pc = "rollback" THEN NextCall(w, worker[w].n, "bpmnError")
    ELSE IF Activity(w) = "UnlockPrices" THEN NextCall(w, Len(PricesOfTask(w)), "complete")
    ELSE IF Activity(w) = "LockPrices"
         THEN IF ok THEN NextCall(w, Len(PricesOfTask(w)), "complete") ELSE RollBackLocks(w)
    ELSE Goto(w, IF ok \/ Activity(w) \in Compensation THEN "complete" ELSE "bpmnError", 0, 0)

\* What it does with an httpx exception: _handle_task fails the task, except
\* that the lock handler catches it and rolls back.
Raise(w) ==
    IF worker[w].pc = "call" /\ Activity(w) = "LockPrices"
    THEN RollBackLocks(w)
    ELSE Goto(w, "fail", 0, 0)

Calling(w) == worker[w].pc \in {"call", "rollback"}

FetchAndLock(w, s) ==
    /\ worker[w] = Idle
    /\ at[s] \in Activities
    /\ WorkerOf[at[s]] = w
    /\ s \notin incident
    /\ worker' = [worker EXCEPT ![w] = [task |-> s, pc |-> "call", i |-> 1, n |-> 0]]
    /\ UNCHANGED <<offeringVars, lockedBy, inStore, camundaVars, token, late, faults>>

Answered(w) ==
    /\ Calling(w)
    /\ w \in Authorized => w \in token
    /\ \E ok \in BOOLEAN : Request(CallOf(w), ok) /\ Continue(w, ok)
    /\ UNCHANGED <<committing, camundaVars, token, late, faults>>

\* 401 for an expired token; or an error such as a deleted price or a failing
\* database, which changes nothing.
Refused(w) ==
    /\ Calling(w)
    /\ \/ w \in Authorized \ token /\ faults' = faults
       \/ Fault("refused")
    /\ Continue(w, FALSE)
    /\ UNCHANGED <<offeringVars, lockedBy, inStore, camundaVars, token, late>>

\* sync_offering catches every exception: the worker is told 204.
SyncSwallowed(w) ==
    /\ Calling(w)
    /\ CallOf(w).op = "sync"
    /\ Fault("swallowed")
    /\ Continue(w, TRUE)
    /\ UNCHANGED <<offeringVars, lockedBy, inStore, camundaVars, token, late>>

\* The client gets an exception; the request is lost, or runs later.
Broken(w) ==
    /\ Calling(w)
    /\ \/ Fault("unreached") /\ late' = late
       \/ Fault("late") /\ late' = late \union {CallOf(w)}
    /\ Raise(w)
    /\ UNCHANGED <<offeringVars, lockedBy, inStore, camundaVars, token>>

-----------------------------------------------------------------------------
(* The worker's reports to the engine.                                     *)

CompleteTask(w) ==
    /\ worker[w].pc = "complete"
    /\ at' = [at EXCEPT ![worker[w].task] = OnComplete[Activity(w)]]
    /\ worker' = [worker EXCEPT ![w] = Idle]
    /\ UNCHANGED <<offeringVars, lockedBy, inStore, offeringOf, incident, token, late, faults>>

\* raise_for_status of /complete is caught by `except Exception`.
CompleteFails(w) ==
    /\ worker[w].pc = "complete"
    /\ Fault("report")
    /\ Goto(w, "fail", 0, 0)
    /\ UNCHANGED <<offeringVars, lockedBy, inStore, camundaVars, token, late>>

\* Mutant: the handler's failure reaches the engine as an ordinary one.
ThrowOrdinaryError(w) ==
    /\ worker[w].pc = "bpmnError"
    /\ incident' = incident \union {worker[w].task}
    /\ worker' = [worker EXCEPT ![w] = Idle]
    /\ UNCHANGED <<offeringVars, lockedBy, inStore, at, offeringOf, token, late, faults>>

ThrowBpmnError(w) ==
    /\ worker[w].pc = "bpmnError"
    /\ at' = [at EXCEPT ![worker[w].task] = OnError[Activity(w)]]
    /\ worker' = [worker EXCEPT ![w] = Idle]
    /\ UNCHANGED <<offeringVars, lockedBy, inStore, offeringOf, incident, token, late, faults>>

\* _fail_task sends retries = 0: the engine raises an incident.
FailTask(w) ==
    /\ worker[w].pc = "fail"
    /\ incident' = incident \union {worker[w].task}
    /\ worker' = [worker EXCEPT ![w] = Idle]
    /\ UNCHANGED <<offeringVars, lockedBy, inStore, at, offeringOf, token, late, faults>>

\* /bpmnError or /failure raises out of _handle_task into run_forever: the task
\* is handed out again when its 60 s lock has expired.
ReportFails(w) ==
    /\ worker[w].pc \in {"bpmnError", "fail"}
    /\ Fault("report")
    /\ worker' = [worker EXCEPT ![w] = Idle]
    /\ UNCHANGED <<offeringVars, lockedBy, inStore, camundaVars, token, late>>

\* The worker is killed and started again; its request may be running still.
\* A new worker logs in and gets a new token.
Crash(w) ==
    /\ worker[w] # Idle
    /\ Fault("crash")
    /\ worker' = [worker EXCEPT ![w] = Idle]
    /\ token' = token \union ({w} \intersect Authorized)
    /\ \/ late' = late
       \/ Calling(w) /\ late' = late \union {CallOf(w)}
    /\ UNCHANGED <<offeringVars, lockedBy, inStore, camundaVars>>

\* ACCESS_TOKEN_EXPIRE_MINUTES after the worker has started.
TokenExpires(w) ==
    /\ w \in token
    /\ Fault("token")
    /\ token' = token \ {w}
    /\ UNCHANGED <<offeringVars, lockedBy, inStore, camundaVars, worker, late>>

-----------------------------------------------------------------------------
UserStep ==
    \E o \in Offerings :
        \/ \E s \in Sagas : InitiatePublication(o, s)
        \/ InitiateWithoutSaga(o)
        \/ CommitPublication(o)
        \/ AbortPublication(o)
        \/ RetireOffering(o)
        \/ ConsumeOfferingEvent(o)

WorkerStep(w) ==
    \/ \E s \in Sagas : FetchAndLock(w, s)
    \/ Answered(w)
    \/ Refused(w)
    \/ SyncSwallowed(w)
    \/ Broken(w)
    \/ CompleteTask(w)
    \/ CompleteFails(w)
    \/ ThrowBpmnError(w)
    \/ FailTask(w)
    \/ ReportFails(w)

Next ==
    \/ UserStep
    \/ \E w \in Workers : WorkerStep(w) \/ Crash(w) \/ TokenExpires(w)
    \/ \E c \in late : RunLateRequest(c)

Spec == Init /\ [][Next]_vars

\* run_forever never returns, the publish handler runs to its commit, and the
\* outbox poller and the consumer keep going.  No fault is fair: WorkerStep is
\* weakly fair as a whole and a fault is never its only enabled disjunct.
Fairness ==
    /\ \A w \in Workers : WF_vars(WorkerStep(w))
    /\ \A o \in Offerings : WF_vars(CommitPublication(o)) /\ WF_vars(ConsumeOfferingEvent(o))

FairSpec == Spec /\ Fairness

-----------------------------------------------------------------------------
(* Properties.                                                             *)

\* Faults that leave no request running behind its client's back, and make no
\* worker repeat a task it has already carried out.
OrderlyFaults == {"start", "refused", "unreached", "swallowed", "token", "event"}

Live(s) == at[s] \in Activities
TaskOf(w) == worker[w].task

\* The lock handler of s has met an error: it rolls back, and reports it or dies.
LockingFailed(s) ==
    /\ at[s] = "LockPrices"
    /\ \/ s \in incident
       \/ TaskOf("pricing") = s /\ worker["pricing"].pc \in {"rollback", "bpmnError", "fail"}

\* The publication of s has failed, and compensates or has compensated.
Failed(s) == at[s] \in Compensation \union {"EndEvent_Error"} \/ LockingFailed(s)

\* The price is also one of another offering, whose publication has failed.
\* unlock_price does not ask for the owner, and unlock-prices, unlike the rollback
\* of lock-prices, unlocks every price of its offering, whoever holds it.
Contested(s, p) ==
    \E t \in Sagas :
        /\ Failed(t)
        /\ offeringOf[t] # offeringOf[s]
        /\ p \in PriceSet(offeringOf[t])

StillHolds(s, p) == lockedBy[p] = s \/ Contested(s, p)
KeepsItsPrices(s) == \A p \in PriceSet(offeringOf[s]) : StillHolds(s, p)

\* The committed status follows DRAFT -> PUBLISHING -> PUBLISHED -> RETIRED, and
\* goes back only from PUBLISHING to DRAFT, whatever publish requests, sagas
\* and late requests are under way (ProductOffering's transition methods check
\* the status they read; the commit of a publish does not check again).
LifecycleStateMachine ==
    [][\A o \in Offerings : status'[o] # status[o] =>
          <<status[o], status'[o]>> \in
             {<<"DRAFT", "PUBLISHING">>, <<"PUBLISHING", "DRAFT">>,
              <<"PUBLISHING", "PUBLISHED">>, <<"PUBLISHED", "RETIRED">>}]_vars

\* A saga that ends at "Publication Successful" has published its offering, and
\* no other saga of the same offering ends there: an offering is published once,
\* though sagas of it may overlap and its confirm may be sent again.
SuccessIsPublishedOnce ==
    \A s \in Sagas : at[s] = "EndEvent_1" =>
        /\ status[offeringOf[s]] \in {"PUBLISHED", "RETIRED"}
        /\ \A t \in Sagas \ {s} :
              at[t] = "EndEvent_1" => offeringOf[t] # offeringOf[s]

\* Two sagas of one offering never run at the same time, the last task of a failed
\* one excepted: publish requires DRAFT, and only the end of a saga restores it.
OneSagaAtATime ==
    \A s, t \in Sagas :
        /\ s # t
        /\ offeringOf[s] = offeringOf[t]
        /\ Live(s)
        /\ Live(t)
        => "RevertToDraft" \in {at[s], at[t]}

\* Once past lock-prices, and for ever after a success, a saga owns the lock of
\* every price of its offering, but for those that a failed publication of another
\* offering has among its own.  That one may unlock them (unlock_price asks for no
\* owner); a newer or an older saga of the same offering, and a publication that
\* shares a price and does not fail, never do.
PricesStayLocked ==
    \A s \in Sagas :
        at[s] \in {"ValidateSpecs", "CreateStoreEntry", "ConfirmPublication", "EndEvent_1"}
            => KeepsItsPrices(s)

\* "Publication Failed" is reached with none of the saga's locks left behind, in
\* whichever task it has failed and whoever has locked its prices meanwhile, as long
\* as the pricing worker's token is valid: the handler of unlock-prices looks at no
\* answer and completes its task after a 401, the price still locked.
FailureReleasesPrices ==
    \A s \in Sagas : at[s] = "EndEvent_Error" /\ "pricing" \in token =>
        \A p \in Prices : lockedBy[p] # s

\* An offering becomes PUBLISHED only by the confirm-publication task of a saga of
\* its own that owns, at that moment, the locks of all its prices that no failed
\* publication of another offering has among its own.
PublishedUnderLock ==
    [][\A o \in Offerings : status[o] # "PUBLISHED" /\ status'[o] = "PUBLISHED" =>
          \E s \in Sagas : /\ offeringOf[s] = o
                           /\ at[s] = "ConfirmPublication"
                           /\ KeepsItsPrices(s)]_vars

\* When the store has consumed an offering's events, the offering is in the read
\* model if it is PUBLISHED and is not if it is RETIRED, whatever the saga's own
\* store tasks did before.
ReadModelSettles ==
    \A o \in Offerings : events[o] = <<>> =>
        /\ status[o] = "PUBLISHED" => o \in inStore
        /\ status[o] = "RETIRED" => o \notin inStore

\* A document of an offering that is not on sale is a saga's own: the saga is
\* about to confirm it, or about to delete it (CreateStoreEntry precedes
\* ConfirmPublication, and its boundary event skips DeleteStoreEntry).
NoOrphanStoreEntry ==
    \A o \in inStore : status[o] \in {"DRAFT", "PUBLISHING"} =>
        \E s \in Sagas :
            /\ offeringOf[s] = o
            /\ at[s] \in {"CreateStoreEntry", "ConfirmPublication", "DeleteStoreEntry"}

\* An offering goes back to DRAFT for its own failure only: no saga of it is still
\* on its way forward (POST .../fail names the offering, not the saga).
RevertOnlyOnFailure ==
    [][\A o \in Offerings : status[o] = "PUBLISHING" /\ status'[o] = "DRAFT" =>
          \A s \in Sagas : offeringOf[s] = o => at[s] \notin Forward]_vars

\* A publication reported as "Publication Failed" has not put its offering on sale,
\* unless another saga of the offering has.
FailureIsNotPublished ==
    \A s \in Sagas :
        /\ at[s] = "EndEvent_Error"
        /\ status[offeringOf[s]] \in {"PUBLISHED", "RETIRED"}
        => \E t \in Sagas : /\ offeringOf[t] = offeringOf[s]
                            /\ at[t] \in {"ConfirmPublication", "EndEvent_1"}

\* The transaction that a publication is to the offering, its prices and the store.

\* The offering worker has had a 200 for the confirm of s, or s is already over.
Confirmed(s) ==
    \/ at[s] = "EndEvent_1"
    \/ /\ TaskOf("offering") = s
       /\ worker["offering"].pc = "complete"
       /\ at[s] = "ConfirmPublication"

\* The task revert-offering-to-draft of s may still be carried out.
Reverting(s) ==
    /\ at[s] = "RevertToDraft"
    /\ s \notin incident
    /\ ~(TaskOf("offering") = s /\ worker["offering"].pc \in {"complete", "fail"})

PhaseAt ==
    [NotStarted |-> "idle", LockPrices |-> "taking",
     ValidateSpecs |-> "holding", CreateStoreEntry |-> "holding",
     ConfirmPublication |-> "holding", EndEvent_1 |-> "sold",
     DeleteStoreEntry |-> "undoing", UnlockPrices |-> "undoing",
     RevertToDraft |-> "undoing", EndEvent_Error |-> "over"]

Phase(s) ==
    IF Confirmed(s) THEN "sold"
    ELSE IF at[s] = "RevertToDraft" /\ ~Reverting(s) THEN "over"
    ELSE IF LockingFailed(s) THEN "undoing"
    ELSE PhaseAt[at[s]]

Phases == [s \in Sagas |-> Phase(s)]

\* A publication counts as begun when its saga has been started, which may be done
\* before the publish request has committed.
Lifecycle == [o \in Offerings |-> IF o \in committing THEN "PUBLISHING" ELSE status[o]]

Transaction == INSTANCE Publication WITH status <- Lifecycle, phase <- Phases

\* The saga, its workers and the services implement the transaction of Publication,
\* whatever they are refused or fail to reach: a lock is lost to nobody but the
\* failed publication of an offering that shares the price, and nobody sells without
\* having had all of them, or reverts or hides what another one has begun.
ImplementsTransaction == Transaction!Spec

\* Every publication that Camunda has accepted ends, in success or in failure.
SagaEnds == \A s \in Sagas : Live(s) ~> at[s] \in Ends

\* An offering does not stay in PUBLISHING: it is published or back in DRAFT.
PublishingEnds ==
    \A o \in Offerings : status[o] = "PUBLISHING" ~> status[o] # "PUBLISHING"

\* The same, for an offering whose saga has still to reach revert-offering-to-draft
\* when the publish commits.
PublishingEndsWithSaga ==
    \A o \in Offerings, s \in Sagas :
        /\ status[o] = "PUBLISHING"
        /\ offeringOf[s] = o
        /\ at[s] \in Activities \ {"RevertToDraft"}
        ~> status[o] # "PUBLISHING"

=============================================================================
