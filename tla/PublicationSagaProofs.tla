------------------------ MODULE PublicationSagaProofs ------------------------
(***************************************************************************)
(* Theorems about PublicationSaga and their proofs.                        *)
(***************************************************************************)
EXTENDS PublicationSaga, SequenceTheorems, TLAPS

-----------------------------------------------------------------------------
(* Type correctness.  TypeOK is not inductive: where a handler stands       *)
(* determines which flow and which price its next step looks up.           *)

PriceCount(w) == Len(PricesOfTask(w))

Busy(w) ==
    /\ TaskOf(w) \in Sagas
    /\ Activity(w) \in Activities
    /\ WorkerOf[Activity(w)] = w
    /\ worker[w].pc # "idle"
    /\ worker[w].pc = "bpmnError" => Activity(w) \in Forward
    /\ worker[w].pc = "rollback" => Activity(w) = "LockPrices"
    /\ worker[w].pc = "rollback" => worker[w].i \in 1 .. worker[w].n
    /\ worker[w].pc = "rollback" => worker[w].n \in 1 .. PriceCount(w)
    /\ worker[w].pc = "call" /\ w = "pricing" => worker[w].i \in 1 .. PriceCount(w)

WorkersOK == \A w \in Workers : worker[w] = Idle \/ Busy(w)

SagasOK == \A s \in Sagas : at[s] # "NotStarted" => offeringOf[s] \in Offerings

LateOK ==
    \A c \in late :
        /\ at[c.saga] # "NotStarted"
        /\ c.op \in {"lock", "unlock"} => c.price \in Prices

TypeInv == TypeOK /\ WorkersOK /\ SagasOK /\ LateOK

\* The prices of an offering are prices.
LEMMA PriceAt ==
    ASSUME NEW o \in Offerings, NEW i \in 1 .. Len(PricesOf[o])
    PROVE  PricesOf[o][i] \in Prices
BY SagaAssumption

LEMMA PricesNonEmpty ==
    ASSUME NEW o \in Offerings
    PROVE  Len(PricesOf[o]) \in Nat /\ Len(PricesOf[o]) >= 1
<1>1. PricesOf[o] \in Seq(Prices) /\ PricesOf[o] # <<>>
  BY SagaAssumption
<1> QED BY <1>1

\* A request that a service runs keeps the service's state well typed.
LEMMA RequestType ==
    ASSUME TypeOK, NEW c, NEW ok,
           offeringOf[c.saga] \in Offerings, c.saga \in Sagas,
           c.op \in {"lock", "unlock"} => c.price \in Prices,
           Request(c, ok)
    PROVE  /\ status' \in [Offerings -> {"DRAFT", "PUBLISHING", "PUBLISHED", "RETIRED"}]
           /\ events' \in [Offerings -> Seq({"OfferingPublished", "OfferingRetired"})]
           /\ lockedBy' \in [Prices -> Sagas \union {NoSaga}]
           /\ inStore' \subseteq Offerings
<1> DEFINE o == offeringOf[c.saga]
<1> USE DEF TypeOK
<1>1. CASE c.op = "lock" /\ LockPrice(c.price, c.saga, ok)
  BY <1>1 DEF LockPrice
<1>2. CASE c.op = "unlock" /\ UnlockPrice(c.price, ok)
  BY <1>2 DEF UnlockPrice
<1>3. CASE ValidateSpecifications(ok)
  BY <1>3 DEF ValidateSpecifications, serviceVars
<1>4. CASE SyncOffering(o, ok)
  BY <1>4 DEF SyncOffering
<1>5. CASE DeleteOfferingRead(o, ok)
  BY <1>5 DEF DeleteOfferingRead
<1>6. CASE ConfirmPublication(o, ok)
  <2>1. Append(events[o], "OfferingPublished") \in Seq({"OfferingPublished", "OfferingRetired"})
    OBVIOUS
  <2> QED BY <1>6, <2>1 DEF ConfirmPublication
<1>7. CASE FailPublication(o, ok)
  BY <1>7 DEF FailPublication
<1> QED BY <1>1, <1>2, <1>3, <1>4, <1>5, <1>6, <1>7 DEF Request

\* A handler that is calling is handling a task.
LEMMA CallingBusy ==
    ASSUME TypeInv, NEW w \in Workers, worker[w].pc # "idle"
    PROVE  Busy(w) /\ offeringOf[TaskOf(w)] \in Offerings
<1>1. Busy(w)
  BY DEF TypeInv, WorkersOK, Idle
<1>2. TaskOf(w) \in Sagas /\ at[TaskOf(w)] # "NotStarted"
  BY <1>1 DEF Busy, Activity, TaskOf, Activities, Forward, Compensation
<1> QED BY <1>1, <1>2 DEF TypeInv, SagasOK

\* The request a handler is about to send is well formed.
LEMMA CallType ==
    ASSUME TypeInv, NEW w \in Workers, Calling(w)
    PROVE  /\ CallOf(w) \in Call
           /\ CallOf(w).saga = TaskOf(w)
           /\ CallOf(w).op \in {"lock", "unlock"} => CallOf(w).price \in Prices
<1>1. Busy(w) /\ offeringOf[TaskOf(w)] \in Offerings
  BY CallingBusy DEF Calling
<1>2. w = "pricing" => worker[w].i \in 1 .. PriceCount(w)
  <2>1. CASE worker[w].pc = "call"
    BY <1>1, <2>1 DEF Busy
  <2>2. CASE worker[w].pc = "rollback"
    <3>1. PriceCount(w) \in Nat
      BY <1>1, PricesNonEmpty DEF PriceCount, PricesOfTask, TaskOf
    <3> QED BY <1>1, <2>2, <3>1 DEF Busy
  <2> QED BY <2>1, <2>2 DEF Calling
<1>3. w = "pricing" => PricesOfTask(w)[worker[w].i] \in Prices
  BY <1>1, <1>2, PriceAt DEF PriceCount, PricesOfTask, TaskOf
<1>4. Activity(w) \in Activities /\ worker[w].task \in Sagas
  BY <1>1 DEF Busy, TaskOf
<1>5. "unlock" = OpOf["UnlockPrices"] /\ "UnlockPrices" \in Activities
  BY DEF OpOf, Activities, Compensation
<1>6. CallOf(w) \in Call
  BY <1>3, <1>4, <1>5 DEF CallOf, Call
<1>7. CallOf(w).op \in {"lock", "unlock"} => w = "pricing"
  <2>1. CallOf(w).op \in {"lock", "unlock"} => Activity(w) \in {"LockPrices", "UnlockPrices"}
    BY <1>1, <1>4 DEF CallOf, OpOf, Activities, Forward, Compensation, Busy
  <2> QED BY <1>1, <2>1 DEF Busy, WorkerOf
<1> QED BY <1>3, <1>6, <1>7 DEF CallOf, TaskOf

\* Moving worker w on, within the task it has, keeps every worker consistent.
LEMMA GotoBusy ==
    ASSUME TypeInv, NEW w \in Workers, Busy(w),
           NEW pc \in Pcs \ {"idle"}, NEW i \in Nat, NEW n \in Nat,
           pc = "bpmnError" => Activity(w) \in Forward,
           pc = "rollback" => Activity(w) = "LockPrices",
           pc = "rollback" => i \in 1 .. n /\ n \in 1 .. PriceCount(w),
           pc = "call" /\ w = "pricing" => i \in 1 .. PriceCount(w),
           Goto(w, pc, i, n), UNCHANGED <<at, offeringOf>>
    PROVE  /\ worker' \in [Workers -> [task : Sagas \union {NoSaga}, pc : Pcs, i : Nat, n : Nat]]
           /\ WorkersOK'
<1>1. worker \in [Workers -> [task : Sagas \union {NoSaga}, pc : Pcs, i : Nat, n : Nat]]
  BY DEF TypeInv, TypeOK
<1>2. worker' = [worker EXCEPT ![w] = [task |-> worker[w].task, pc |-> pc, i |-> i, n |-> n]]
  BY DEF Goto
<1>3. worker[w].task \in Sagas
  BY DEF Busy, TaskOf
<1>4. worker' \in [Workers -> [task : Sagas \union {NoSaga}, pc : Pcs, i : Nat, n : Nat]]
  BY <1>1, <1>2, <1>3
<1>5. ASSUME NEW v \in Workers
      PROVE  worker'[v] = Idle \/ Busy(v)'
  <2>1. CASE v = w
    <3>1. worker'[w] = [task |-> worker[w].task, pc |-> pc, i |-> i, n |-> n]
      BY <1>1, <1>2
    <3>2. TaskOf(w)' = TaskOf(w) /\ Activity(w)' = Activity(w) /\ PriceCount(w)' = PriceCount(w)
      BY <3>1 DEF TaskOf, Activity, PriceCount, PricesOfTask
    <3> QED BY <2>1, <3>1, <3>2 DEF Busy
  <2>2. CASE v # w
    <3>1. worker'[v] = worker[v]
      BY <1>1, <1>2, <2>2
    <3>2. Activity(v)' = Activity(v) /\ PriceCount(v)' = PriceCount(v) /\ TaskOf(v)' = TaskOf(v)
      BY <3>1 DEF TaskOf, Activity, PriceCount, PricesOfTask
    <3>3. worker[v] = Idle \/ Busy(v)
      BY DEF TypeInv, WorkersOK
    <3> QED BY <3>1, <3>2, <3>3 DEF Busy
  <2> QED BY <2>1, <2>2
<1> QED BY <1>4, <1>5 DEF WorkersOK

\* So does what a handler does with an answer...
LEMMA ContinueBusy ==
    ASSUME TypeInv, NEW w \in Workers, Calling(w), NEW ok \in BOOLEAN,
           Continue(w, ok), UNCHANGED <<at, offeringOf>>
    PROVE  /\ worker' \in [Workers -> [task : Sagas \union {NoSaga}, pc : Pcs, i : Nat, n : Nat]]
           /\ WorkersOK'
<1>1. Busy(w) /\ offeringOf[TaskOf(w)] \in Offerings
  BY CallingBusy DEF Calling
<1>2. worker[w].i \in Nat /\ worker[w].n \in Nat /\ worker[w].pc \in {"call", "rollback"}
  BY DEF TypeInv, TypeOK, Calling
<1>3. PriceCount(w) \in Nat /\ PriceCount(w) = Len(PricesOfTask(w))
  BY <1>1, PricesNonEmpty DEF PriceCount, PricesOfTask, TaskOf
<1>4. CASE worker[w].pc = "rollback"
  <2>1. Activity(w) = "LockPrices" /\ worker[w].i \in 1 .. worker[w].n
        /\ worker[w].n \in 1 .. PriceCount(w)
    BY <1>1, <1>4 DEF Busy
  <2>2. NextCall(w, worker[w].n, "bpmnError")
    BY <1>4 DEF Continue
  <2>3. CASE worker[w].i < worker[w].n
    <3>1. Goto(w, "rollback", worker[w].i + 1, worker[w].n)
      BY <1>4, <2>2, <2>3 DEF NextCall
    <3>2. worker[w].i + 1 \in 1 .. worker[w].n /\ worker[w].i + 1 \in Nat
      BY <1>2, <2>1, <2>3
    <3> QED BY <1>1, <1>2, <2>1, <3>1, <3>2, GotoBusy DEF Pcs
  <2>4. CASE ~(worker[w].i < worker[w].n)
    <3>1. Goto(w, "bpmnError", 0, 0)
      BY <2>2, <2>4 DEF NextCall
    <3> QED BY <1>1, <2>1, <3>1, GotoBusy DEF Pcs, Forward
  <2> QED BY <2>3, <2>4
<1>5. CASE worker[w].pc = "call" /\ Activity(w) \in {"LockPrices", "UnlockPrices"}
  <2>0. w = "pricing" /\ worker[w].i \in 1 .. PriceCount(w)
    BY <1>1, <1>5 DEF Busy, WorkerOf
  <2>1. CASE NextCall(w, PriceCount(w), "complete")
    <3>1. CASE worker[w].i < PriceCount(w)
      <4>1. Goto(w, "call", worker[w].i + 1, worker[w].n)
        BY <1>5, <2>1, <3>1 DEF NextCall
      <4>2. worker[w].i + 1 \in 1 .. PriceCount(w) /\ worker[w].i + 1 \in Nat
        BY <1>2, <1>3, <3>1
      <4> QED BY <1>1, <1>2, <4>1, <4>2, GotoBusy DEF Pcs
    <3>2. CASE ~(worker[w].i < PriceCount(w))
      <4>1. Goto(w, "complete", 0, 0)
        BY <2>1, <3>2 DEF NextCall
      <4> QED BY <1>1, <4>1, GotoBusy DEF Pcs
    <3> QED BY <3>1, <3>2
  <2>2. CASE Activity(w) = "LockPrices" /\ RollBackLocks(w)
    <3>1. CASE worker[w].i = 1
      <4>1. Goto(w, "bpmnError", 0, 0)
        BY <2>2, <3>1 DEF RollBackLocks
      <4> QED BY <1>1, <2>2, <4>1, GotoBusy DEF Pcs, Forward
    <3>2. CASE worker[w].i # 1
      <4>1. Goto(w, "rollback", 1, worker[w].i - 1)
        BY <2>2, <3>2 DEF RollBackLocks
      <4>2. /\ worker[w].i - 1 \in 1 .. PriceCount(w)
            /\ 1 \in 1 .. (worker[w].i - 1)
            /\ worker[w].i - 1 \in Nat
        BY <1>2, <1>3, <2>0, <3>2
      <4> QED BY <1>1, <2>2, <4>1, <4>2, GotoBusy DEF Pcs
    <3> QED BY <3>1, <3>2
  <2> QED BY <1>3, <1>5, <2>1, <2>2 DEF Continue
<1>6. CASE worker[w].pc = "call" /\ Activity(w) \notin {"LockPrices", "UnlockPrices"}
  <2>1. Goto(w, IF ok \/ Activity(w) \in Compensation THEN "complete" ELSE "bpmnError", 0, 0)
    BY <1>6 DEF Continue
  <2>2. Activity(w) \notin Compensation => Activity(w) \in Forward
    BY <1>1 DEF Busy, Activities
  <2> QED BY <1>1, <2>1, <2>2, GotoBusy DEF Pcs
<1> QED BY <1>2, <1>4, <1>5, <1>6

\* ... and with an exception.
LEMMA RaiseBusy ==
    ASSUME TypeInv, NEW w \in Workers, Calling(w), Raise(w), UNCHANGED <<at, offeringOf>>
    PROVE  /\ worker' \in [Workers -> [task : Sagas \union {NoSaga}, pc : Pcs, i : Nat, n : Nat]]
           /\ WorkersOK'
<1>1. Busy(w)
  BY CallingBusy DEF Calling
<1>2. CASE worker[w].pc = "call" /\ Activity(w) = "LockPrices"
  <2>1. Continue(w, FALSE)
    BY <1>2 DEF Raise, Continue
  <2> QED BY <2>1, ContinueBusy
<1>3. CASE ~(worker[w].pc = "call" /\ Activity(w) = "LockPrices")
  <2>1. Goto(w, "fail", 0, 0)
    BY <1>3 DEF Raise
  <2> QED BY <1>1, <2>1, GotoBusy DEF Pcs
<1> QED BY <1>2, <1>3

\* A worker that leaves its task, with or without moving the process instance on,
\* disturbs no other worker: no two of them have the same task.
LEMMA LeaveTask ==
    ASSUME TypeInv, NEW w \in Workers, Busy(w),
           NEW a \in Activities \union Ends,
           worker' = [worker EXCEPT ![w] = Idle],
           at' = [at EXCEPT ![TaskOf(w)] = a],
           UNCHANGED offeringOf
    PROVE  /\ worker' \in [Workers -> [task : Sagas \union {NoSaga}, pc : Pcs, i : Nat, n : Nat]]
           /\ at' \in [Sagas -> Activities \union Ends \union {"NotStarted"}]
           /\ WorkersOK'
           /\ SagasOK'
<1>1. /\ worker \in [Workers -> [task : Sagas \union {NoSaga}, pc : Pcs, i : Nat, n : Nat]]
      /\ at \in [Sagas -> Activities \union Ends \union {"NotStarted"}]
  BY DEF TypeInv, TypeOK
<1>2. Idle \in [task : Sagas \union {NoSaga}, pc : Pcs, i : Nat, n : Nat]
  BY DEF Idle, Pcs
<1>3. /\ worker' \in [Workers -> [task : Sagas \union {NoSaga}, pc : Pcs, i : Nat, n : Nat]]
      /\ at' \in [Sagas -> Activities \union Ends \union {"NotStarted"}]
  BY <1>1, <1>2
<1>4. ASSUME NEW v \in Workers
      PROVE  worker'[v] = Idle \/ Busy(v)'
  <2>1. CASE v = w
    BY <1>1, <2>1
  <2>2. CASE v # w
    <3>1. worker'[v] = worker[v] /\ TaskOf(v)' = TaskOf(v)
      BY <1>1, <2>2 DEF TaskOf
    <3>2. worker[v] = Idle \/ Busy(v)
      BY DEF TypeInv, WorkersOK
    <3>3. CASE Busy(v)
      <4>1. TaskOf(v) # TaskOf(w)
        BY <2>2, <3>3 DEF Busy, Activity, TaskOf
      <4>2. Activity(v)' = Activity(v) /\ PriceCount(v)' = PriceCount(v)
        BY <1>1, <3>1, <3>3, <4>1 DEF Busy, TaskOf, Activity, PriceCount, PricesOfTask
      <4> QED BY <3>1, <3>3, <4>2 DEF Busy
    <3> QED BY <3>1, <3>2, <3>3
  <2> QED BY <2>1, <2>2
<1>5. SagasOK'
  <2>1. \A s \in Sagas : at'[s] # "NotStarted" => at[s] # "NotStarted"
    BY <1>1 DEF Busy, TaskOf, Activity, Activities, Forward, Compensation
  <2> QED BY <2>1 DEF TypeInv, SagasOK
<1> QED BY <1>3, <1>4, <1>5 DEF WorkersOK

LEMMA TypeInit == Init => TypeInv
<1> SUFFICES ASSUME Init PROVE TypeInv
  OBVIOUS
<1> USE DEF Init
<1>1. TypeOK
  <2>1. Idle \in [task : Sagas \union {NoSaga}, pc : Pcs, i : Nat, n : Nat]
    BY DEF Idle, Pcs
  <2>2. <<>> \in Seq({"OfferingPublished", "OfferingRetired"})
    OBVIOUS
  <2> QED BY <2>1, <2>2 DEF TypeOK
<1>2. WorkersOK /\ SagasOK /\ LateOK
  BY DEF WorkersOK, SagasOK, LateOK
<1> QED BY <1>1, <1>2 DEF TypeInv

\* A step that leaves the workers, the process instances and the late requests
\* alone keeps their part of the invariant.
LEMMA WorkersFrame ==
    ASSUME TypeInv, UNCHANGED <<worker, at, offeringOf>>, late' \subseteq late
    PROVE  WorkersOK' /\ SagasOK' /\ LateOK'
BY DEF TypeInv, WorkersOK, SagasOK, LateOK, Busy, TaskOf, Activity, PriceCount, PricesOfTask

LEMMA TypeStep == TypeInv /\ [Next]_vars => TypeInv'
<1> SUFFICES ASSUME TypeInv, [Next]_vars PROVE TypeInv'
  OBVIOUS
<1>0. TypeOK /\ WorkersOK /\ SagasOK /\ LateOK
  BY DEF TypeInv
<1> USE DEF TypeInv
<1>1. CASE UNCHANGED vars
  BY <1>0, <1>1, WorkersFrame DEF vars, offeringVars, camundaVars, TypeOK
<1>2. ASSUME NEW o \in Offerings, NEW s \in Sagas, InitiatePublication(o, s)
      PROVE  TypeInv'
  <2>1. TypeOK'
    BY <1>0, <1>2 DEF InitiatePublication, serviceVars, TypeOK, Activities, Forward
  <2>2. WorkersOK'
    <3>1. ASSUME NEW v \in Workers, Busy(v)
          PROVE  worker' = worker /\ Busy(v)'
      <4>1. TaskOf(v) # s
        BY <1>2, <3>1 DEF InitiatePublication, Busy, TaskOf, Activity, Activities, Forward, Compensation
      <4>2. worker' = worker /\ TaskOf(v)' = TaskOf(v) /\ TaskOf(v) \in Sagas
        BY <1>2, <3>1 DEF InitiatePublication, TaskOf, Busy
      <4>3. Activity(v)' = Activity(v) /\ PriceCount(v)' = PriceCount(v)
        BY <1>0, <1>2, <4>1, <4>2
          DEF InitiatePublication, TypeOK, TaskOf, Activity, PriceCount, PricesOfTask
      <4> QED BY <3>1, <4>2, <4>3 DEF Busy
    <3>2. worker' = worker
      BY <1>2 DEF InitiatePublication
    <3> QED BY <1>0, <3>1, <3>2 DEF WorkersOK
  <2>3. SagasOK' /\ LateOK'
    BY <1>0, <1>2 DEF InitiatePublication, TypeOK, SagasOK, LateOK, Call
  <2> QED BY <2>1, <2>2, <2>3
<1>3. ASSUME NEW o \in Offerings,
             \/ InitiateWithoutSaga(o) \/ CommitPublication(o) \/ AbortPublication(o)
             \/ RetireOffering(o) \/ ConsumeOfferingEvent(o)
      PROVE  TypeInv'
  <2>1. TypeOK'
    <3>1. CASE InitiateWithoutSaga(o)
      BY <1>0, <3>1 DEF InitiateWithoutSaga, Fault, serviceVars, camundaVars, TypeOK
    <3>2. CASE CommitPublication(o)
      BY <1>0, <3>2 DEF CommitPublication, camundaVars, TypeOK
    <3>3. CASE AbortPublication(o)
      BY <1>0, <3>3 DEF AbortPublication, Fault, serviceVars, camundaVars, TypeOK
    <3>4. CASE RetireOffering(o)
      <4>1. Append(events[o], "OfferingRetired") \in Seq({"OfferingPublished", "OfferingRetired"})
        BY <1>0 DEF TypeOK
      <4> QED BY <1>0, <3>4, <4>1 DEF RetireOffering, camundaVars, TypeOK
    <3>5. CASE ConsumeOfferingEvent(o)
      <4>1. Tail(events[o]) \in Seq({"OfferingPublished", "OfferingRetired"})
        BY <1>0, <3>5 DEF TypeOK, ConsumeOfferingEvent
      <4>2. events' = [events EXCEPT ![o] = Tail(events[o])]
        BY <3>5 DEF ConsumeOfferingEvent
      <4>3. faults' \in Nat /\ inStore' \subseteq Offerings
        BY <1>0, <3>5 DEF ConsumeOfferingEvent, Fault, TypeOK
      <4> QED BY <1>0, <3>5, <4>1, <4>2, <4>3 DEF ConsumeOfferingEvent, camundaVars, TypeOK
    <3> QED BY <1>3, <3>1, <3>2, <3>3, <3>4, <3>5
  <2>2. UNCHANGED <<worker, at, offeringOf>> /\ late' = late
    BY <1>3 DEF InitiateWithoutSaga, CommitPublication, AbortPublication, RetireOffering,
                ConsumeOfferingEvent, camundaVars
  <2> QED BY <2>1, <2>2, WorkersFrame
<1>4. ASSUME NEW c \in late, RunLateRequest(c)
      PROVE  TypeInv'
  <2>1. PICK ok \in BOOLEAN : Request(c, ok)
    BY <1>4 DEF RunLateRequest
  <2>2. c \in Call /\ c.saga \in Sagas /\ offeringOf[c.saga] \in Offerings
        /\ (c.op \in {"lock", "unlock"} => c.price \in Prices)
    BY <1>0 DEF TypeOK, LateOK, SagasOK, Call
  <2>3. /\ status' \in [Offerings -> {"DRAFT", "PUBLISHING", "PUBLISHED", "RETIRED"}]
        /\ events' \in [Offerings -> Seq({"OfferingPublished", "OfferingRetired"})]
        /\ lockedBy' \in [Prices -> Sagas \union {NoSaga}]
        /\ inStore' \subseteq Offerings
    BY <1>0, <2>1, <2>2, RequestType
  <2>4. TypeOK'
    BY <1>0, <1>4, <2>3 DEF RunLateRequest, TypeOK, camundaVars
  <2>5. UNCHANGED <<worker, at, offeringOf>> /\ late' \subseteq late
    BY <1>4 DEF RunLateRequest, camundaVars
  <2> QED BY <2>4, <2>5, WorkersFrame
<1>5. ASSUME NEW w \in Workers, NEW s \in Sagas, FetchAndLock(w, s)
      PROVE  TypeInv'
  <2>1. TypeOK'
    BY <1>0, <1>5 DEF FetchAndLock, TypeOK, offeringVars, camundaVars, Pcs
  <2>2. Busy(w)'
    <3>1. worker'[w] = [task |-> s, pc |-> "call", i |-> 1, n |-> 0]
      BY <1>0, <1>5 DEF FetchAndLock, TypeOK
    <3>2. TaskOf(w)' = s /\ Activity(w)' = at[s] /\ PriceCount(w)' = Len(PricesOf[offeringOf[s]])
      BY <1>5, <3>1 DEF FetchAndLock, TaskOf, Activity, PriceCount, PricesOfTask, camundaVars
    <3>3. offeringOf[s] \in Offerings
      BY <1>0, <1>5 DEF FetchAndLock, SagasOK, Activities, Forward, Compensation
    <3>4. 1 \in 1 .. PriceCount(w)'
      BY <3>2, <3>3, PricesNonEmpty
    <3> QED BY <1>5, <3>1, <3>2, <3>4 DEF FetchAndLock, Busy
  <2>3. ASSUME NEW v \in Workers, v # w
        PROVE  worker'[v] = Idle \/ Busy(v)'
    <3>1. worker'[v] = worker[v] /\ TaskOf(v)' = TaskOf(v)
      BY <1>0, <1>5, <2>3 DEF FetchAndLock, TypeOK, TaskOf
    <3>2. Activity(v)' = Activity(v) /\ PriceCount(v)' = PriceCount(v)
      BY <1>5, <3>1 DEF FetchAndLock, TaskOf, Activity, PriceCount, PricesOfTask, camundaVars
    <3> QED BY <1>0, <3>1, <3>2 DEF WorkersOK, Busy
  <2>4. SagasOK' /\ LateOK'
    BY <1>0, <1>5 DEF FetchAndLock, SagasOK, LateOK, camundaVars
  <2> QED BY <2>1, <2>2, <2>3, <2>4 DEF WorkersOK
<1>6. ASSUME NEW w \in Workers,
             Answered(w) \/ Refused(w) \/ SyncSwallowed(w) \/ Broken(w) \/ CompleteFails(w)
      PROVE  TypeInv'
  <2>1. UNCHANGED <<at, offeringOf, incident, committing, token>>
    BY <1>6 DEF Answered, Refused, SyncSwallowed, Broken, CompleteFails, camundaVars, offeringVars
  <2>2. /\ worker' \in [Workers -> [task : Sagas \union {NoSaga}, pc : Pcs, i : Nat, n : Nat]]
        /\ WorkersOK'
    <3>1. CASE Answered(w) \/ Refused(w) \/ SyncSwallowed(w)
      <4>1. Calling(w) /\ \E ok \in BOOLEAN : Continue(w, ok)
        BY <3>1 DEF Answered, Refused, SyncSwallowed
      <4> QED BY <2>1, <4>1, ContinueBusy
    <3>2. CASE Broken(w)
      BY <2>1, <3>2, RaiseBusy DEF Broken
    <3>3. CASE CompleteFails(w)
      <4>1. worker[w].pc = "complete" /\ Goto(w, "fail", 0, 0)
        BY <3>3 DEF CompleteFails
      <4>2. Busy(w)
        BY <4>1, CallingBusy
      <4> QED BY <2>1, <4>1, <4>2, GotoBusy DEF Pcs
    <3> QED BY <1>6, <3>1, <3>2, <3>3
  <2>3. /\ status' \in [Offerings -> {"DRAFT", "PUBLISHING", "PUBLISHED", "RETIRED"}]
        /\ events' \in [Offerings -> Seq({"OfferingPublished", "OfferingRetired"})]
        /\ lockedBy' \in [Prices -> Sagas \union {NoSaga}]
        /\ inStore' \subseteq Offerings
    <3>1. CASE Answered(w)
      <4>1. PICK ok \in BOOLEAN : Request(CallOf(w), ok)
        BY <3>1 DEF Answered
      <4>2. Calling(w)
        BY <3>1 DEF Answered
      <4>3. offeringOf[TaskOf(w)] \in Offerings /\ TaskOf(w) \in Sagas
        BY <4>2, CallingBusy DEF Calling, Busy
      <4> QED BY <1>0, <4>1, <4>2, <4>3, CallType, RequestType
    <3>2. CASE Refused(w) \/ SyncSwallowed(w) \/ Broken(w) \/ CompleteFails(w)
      <4>1. UNCHANGED serviceVars
        BY <3>2 DEF Refused, SyncSwallowed, Broken, CompleteFails, offeringVars, serviceVars
      <4> QED BY <1>0, <4>1 DEF TypeOK, serviceVars
    <3> QED BY <1>6, <3>1, <3>2
  <2>4. late' \subseteq Call /\ LateOK'
    <3>1. CASE late' = late
      BY <1>0, <2>1, <3>1 DEF TypeOK, LateOK
    <3>2. CASE Broken(w) /\ late' = late \union {CallOf(w)}
      <4>1. Calling(w) /\ Busy(w)
        BY <3>2, CallingBusy DEF Broken, Calling
      <4>2. at[TaskOf(w)] # "NotStarted"
        BY <4>1 DEF Busy, Activity, TaskOf, Activities, Forward, Compensation
      <4> QED BY <1>0, <2>1, <3>2, <4>1, <4>2, CallType DEF TypeOK, LateOK
    <3> QED BY <1>6, <3>1, <3>2 DEF Answered, Refused, SyncSwallowed, Broken, CompleteFails
  <2>5. faults' \in Nat
    <3>1. faults' = faults \/ faults' = faults + 1
      BY <1>6, ZenonT(60) DEF Answered, Refused, SyncSwallowed, Broken, CompleteFails, Fault
    <3> QED BY <1>0, <3>1 DEF TypeOK
  <2>6. SagasOK'
    BY <1>0, <2>1 DEF SagasOK
  <2> QED BY <1>0, <2>1, <2>2, <2>3, <2>4, <2>5, <2>6 DEF TypeOK
<1>7. ASSUME NEW w \in Workers,
             CompleteTask(w) \/ ThrowBpmnError(w) \/ FailTask(w) \/ ReportFails(w) \/ Crash(w)
      PROVE  TypeInv'
  <2>1. Busy(w)
    <3>1. CASE Crash(w)
      BY <1>0, <3>1 DEF Crash, WorkersOK
    <3>2. CASE CompleteTask(w) \/ ThrowBpmnError(w) \/ FailTask(w) \/ ReportFails(w)
      BY <3>2, CallingBusy DEF CompleteTask, ThrowBpmnError, FailTask, ReportFails
    <3> QED BY <1>7, <3>1, <3>2
  <2>2. PICK a \in Activities \union Ends : at' = [at EXCEPT ![TaskOf(w)] = a]
    <3>1. CASE CompleteTask(w)
      <4>1. OnComplete[Activity(w)] \in Activities \union Ends
        BY <2>1 DEF Busy, OnComplete, Activities, Forward, Compensation, Ends
      <4> QED BY <3>1, <4>1 DEF CompleteTask, TaskOf
    <3>2. CASE ThrowBpmnError(w)
      <4>1. OnError[Activity(w)] \in Activities \union Ends
        BY <2>1, <3>2 DEF ThrowBpmnError, Busy, OnError, Activities, Forward, Compensation
      <4> QED BY <3>2, <4>1 DEF ThrowBpmnError, TaskOf
    <3>3. CASE FailTask(w) \/ ReportFails(w) \/ Crash(w)
      <4>1. at' = at
        BY <3>3 DEF FailTask, ReportFails, Crash, camundaVars
      <4>2. at' = [at EXCEPT ![TaskOf(w)] = Activity(w)]
        BY <1>0, <2>1, <4>1 DEF TypeOK, Activity, TaskOf, Busy
      <4> QED BY <2>1, <4>2 DEF Busy
    <3> QED BY <1>7, <3>1, <3>2, <3>3
  <2>3. worker' = [worker EXCEPT ![w] = Idle] /\ UNCHANGED offeringOf
    BY <1>7 DEF CompleteTask, ThrowBpmnError, FailTask, ReportFails, Crash, camundaVars
  <2>4. /\ worker' \in [Workers -> [task : Sagas \union {NoSaga}, pc : Pcs, i : Nat, n : Nat]]
        /\ at' \in [Sagas -> Activities \union Ends \union {"NotStarted"}]
        /\ WorkersOK'
        /\ SagasOK'
    BY <2>1, <2>2, <2>3, LeaveTask
  <2>5. \A s \in Sagas : at[s] # "NotStarted" => at'[s] # "NotStarted"
    BY <1>0, <2>2 DEF TypeOK, Activities, Forward, Compensation, Ends
  <2>6. late' \subseteq Call /\ LateOK'
    <3>1. CASE late' = late
      BY <1>0, <2>5, <3>1 DEF TypeOK, LateOK, Call
    <3>2. CASE Calling(w) /\ late' = late \union {CallOf(w)}
      <4>1. CallOf(w) \in Call /\ CallOf(w).saga = TaskOf(w)
            /\ (CallOf(w).op \in {"lock", "unlock"} => CallOf(w).price \in Prices)
        BY <3>2, CallType
      <4>2. TaskOf(w) \in Sagas /\ at[TaskOf(w)] # "NotStarted"
        BY <2>1 DEF Busy, Activity, TaskOf, Activities, Forward, Compensation
      <4> QED BY <1>0, <2>5, <3>2, <4>1, <4>2 DEF TypeOK, LateOK, Call
    <3> QED BY <1>7, <3>1, <3>2
          DEF CompleteTask, ThrowBpmnError, FailTask, ReportFails, Crash
  <2>7. incident' \subseteq Sagas
    BY <1>0, <1>7, <2>1
      DEF CompleteTask, ThrowBpmnError, FailTask, ReportFails, Crash, camundaVars, TypeOK, Busy, TaskOf
  <2>8. faults' \in Nat /\ token' \subseteq Authorized
    BY <1>0, <1>7 DEF CompleteTask, ThrowBpmnError, FailTask, ReportFails, Crash, Fault, TypeOK
  <2>9. UNCHANGED <<status, committing, events, lockedBy, inStore>>
    BY <1>7 DEF CompleteTask, ThrowBpmnError, FailTask, ReportFails, Crash, offeringVars
  <2> QED BY <1>0, <2>3, <2>4, <2>6, <2>7, <2>8, <2>9 DEF TypeOK
<1>8. ASSUME NEW w \in Workers, TokenExpires(w)
      PROVE  TypeInv'
  <2>1. TypeOK'
    BY <1>0, <1>8 DEF TokenExpires, Fault, offeringVars, camundaVars, TypeOK
  <2>2. UNCHANGED <<worker, at, offeringOf>> /\ late' = late
    BY <1>8 DEF TokenExpires, camundaVars
  <2> QED BY <2>1, <2>2, WorkersFrame
<1> QED BY <1>1, <1>2, <1>3, <1>4, <1>5, <1>6, <1>7, <1>8 DEF Next, UserStep, WorkerStep

\* The state stays well typed, whatever faults happen and however many.
THEOREM TypeCorrect == Spec => []TypeOK
<1>1. Spec => []TypeInv
  BY TypeInit, TypeStep, PTL DEF Spec
<1>2. TypeInv => TypeOK
  BY DEF TypeInv
<1> QED BY <1>1, <1>2, PTL

-----------------------------------------------------------------------------
(* The lifecycle, and what "Publication Successful" means.  The commit of a *)
(* publish writes PUBLISHING without looking: it is the row lock, that is   *)
(* CommittingDraft, that keeps it from overwriting another status.         *)

CommittingDraft == \A o \in committing : status[o] = "DRAFT"

\* The ways a step can change the committed statuses.
Writes(o, old, new) == status[o] = old /\ status' = [status EXCEPT ![o] = new]

LEMMA RequestStatus ==
    ASSUME NEW c, NEW ok, Request(c, ok)
    PROVE  \/ status' = status
           \/ Writes(offeringOf[c.saga], "PUBLISHING", "DRAFT")
           \/ /\ Writes(offeringOf[c.saga], "PUBLISHING", "PUBLISHED")
              /\ c.op = "confirm"
BY DEF Request, LockPrice, UnlockPrice, ValidateSpecifications, SyncOffering,
       DeleteOfferingRead, ConfirmPublication, FailPublication, serviceVars, Writes

LEMMA StatusStep ==
    ASSUME TypeInv, [Next]_vars
    PROVE  \/ status' = status /\ \A o \in committing' \ committing : status[o] = "DRAFT"
           \/ \E o \in Offerings :
                 \/ CommitPublication(o)
                 \/ /\ \/ Writes(o, "PUBLISHED", "RETIRED")
                       \/ Writes(o, "PUBLISHING", "DRAFT")
                       \/ Writes(o, "PUBLISHING", "PUBLISHED")
                    /\ committing' = committing
<1>1. CASE UNCHANGED vars
  BY <1>1 DEF vars, offeringVars
<1>2. ASSUME NEW o \in Offerings,
             \/ \E s \in Sagas : InitiatePublication(o, s)
             \/ InitiateWithoutSaga(o) \/ AbortPublication(o) \/ ConsumeOfferingEvent(o)
      PROVE  status' = status /\ \A q \in committing' \ committing : status[q] = "DRAFT"
  BY <1>2 DEF InitiatePublication, InitiateWithoutSaga, AbortPublication, ConsumeOfferingEvent,
              serviceVars
<1>3. ASSUME NEW o \in Offerings, RetireOffering(o)
      PROVE  Writes(o, "PUBLISHED", "RETIRED") /\ committing' = committing
  BY <1>3 DEF RetireOffering, Writes
<1>4. ASSUME NEW c, NEW ok, c.saga \in Sagas, at[c.saga] # "NotStarted",
             Request(c, ok), committing' = committing
      PROVE  \/ status' = status
             \/ \E o \in Offerings : \/ Writes(o, "PUBLISHING", "DRAFT")
                                    \/ Writes(o, "PUBLISHING", "PUBLISHED")
  BY <1>4, RequestStatus DEF TypeInv, SagasOK
<1>5. ASSUME NEW c \in late, RunLateRequest(c)
      PROVE  /\ committing' = committing
             /\ \/ status' = status
                \/ \E o \in Offerings : \/ Writes(o, "PUBLISHING", "DRAFT")
                                       \/ Writes(o, "PUBLISHING", "PUBLISHED")
  <2>1. PICK ok \in BOOLEAN : Request(c, ok)
    BY <1>5 DEF RunLateRequest
  <2>2. c.saga \in Sagas /\ at[c.saga] # "NotStarted" /\ committing' = committing
    BY <1>5 DEF RunLateRequest, TypeInv, TypeOK, LateOK, Call
  <2> QED BY <1>4, <2>1, <2>2
<1>6. ASSUME NEW w \in Workers, Answered(w)
      PROVE  /\ committing' = committing
             /\ \/ status' = status
                \/ \E o \in Offerings : \/ Writes(o, "PUBLISHING", "DRAFT")
                                       \/ Writes(o, "PUBLISHING", "PUBLISHED")
  <2>1. PICK ok \in BOOLEAN : Request(CallOf(w), ok)
    BY <1>6 DEF Answered
  <2>2. Calling(w) /\ committing' = committing
    BY <1>6 DEF Answered
  <2>3. CallOf(w).saga = TaskOf(w) /\ Busy(w)
    BY <2>2, CallType, CallingBusy DEF Calling
  <2>4. TaskOf(w) \in Sagas /\ at[TaskOf(w)] # "NotStarted"
    BY <2>3 DEF Busy, Activity, TaskOf, Activities, Forward, Compensation
  <2> QED BY <1>4, <2>1, <2>2, <2>3, <2>4
<1>7. ASSUME NEW w \in Workers,
             \/ \E s \in Sagas : FetchAndLock(w, s)
             \/ Refused(w) \/ SyncSwallowed(w) \/ Broken(w) \/ CompleteTask(w) \/ CompleteFails(w)
             \/ ThrowBpmnError(w) \/ FailTask(w) \/ ReportFails(w) \/ Crash(w) \/ TokenExpires(w)
      PROVE  status' = status /\ committing' = committing
  BY <1>7 DEF FetchAndLock, Refused, SyncSwallowed, Broken, CompleteTask, CompleteFails,
              ThrowBpmnError, FailTask, ReportFails, Crash, TokenExpires, offeringVars
<1> QED BY <1>1, <1>2, <1>3, <1>5, <1>6, <1>7 DEF Next, UserStep, WorkerStep

LEMMA CommittingStep ==
    ASSUME TypeInv, CommittingDraft, [Next]_vars
    PROVE  CommittingDraft'
<1>0. status \in [Offerings -> {"DRAFT", "PUBLISHING", "PUBLISHED", "RETIRED"}]
      /\ committing \subseteq Offerings
  BY DEF TypeInv, TypeOK
<1>1. ASSUME NEW o \in Offerings, CommitPublication(o)
      PROVE  CommittingDraft'
  BY <1>0, <1>1 DEF CommitPublication, CommittingDraft
<1>2. ASSUME NEW o \in Offerings, committing' = committing,
             \/ Writes(o, "PUBLISHED", "RETIRED")
             \/ Writes(o, "PUBLISHING", "DRAFT")
             \/ Writes(o, "PUBLISHING", "PUBLISHED")
      PROVE  CommittingDraft'
  BY <1>0, <1>2 DEF Writes, CommittingDraft
<1>3. CASE status' = status /\ \A o \in committing' \ committing : status[o] = "DRAFT"
  BY <1>3 DEF CommittingDraft
<1> QED BY <1>1, <1>2, <1>3, StatusStep

\* The committed status of an offering follows the state machine of
\* domain/models.py under every fault: lost, late and repeated requests, crashes
\* of workers and of the service, overlapping sagas.
THEOREM LifecycleFollowed == Spec => LifecycleStateMachine
<1>1. Init => TypeInv /\ CommittingDraft
  BY TypeInit DEF Init, CommittingDraft
<1>2. TypeInv /\ CommittingDraft /\ [Next]_vars => (TypeInv /\ CommittingDraft)'
  BY TypeStep, CommittingStep
<1>3. ASSUME TypeInv, CommittingDraft, [Next]_vars, NEW o \in Offerings, status'[o] # status[o]
      PROVE  <<status[o], status'[o]>> \in
                 {<<"DRAFT", "PUBLISHING">>, <<"PUBLISHING", "DRAFT">>,
                  <<"PUBLISHING", "PUBLISHED">>, <<"PUBLISHED", "RETIRED">>}
  <2>0. status \in [Offerings -> {"DRAFT", "PUBLISHING", "PUBLISHED", "RETIRED"}]
    BY <1>3 DEF TypeInv, TypeOK
  <2>1. ASSUME NEW q \in Offerings, CommitPublication(q)
        PROVE  status[o] = "DRAFT" /\ status'[o] = "PUBLISHING"
    BY <1>3, <2>0, <2>1 DEF CommitPublication, CommittingDraft
  <2>2. ASSUME NEW q \in Offerings, NEW old, NEW new, Writes(q, old, new)
        PROVE  status[o] = old /\ status'[o] = new
    BY <1>3, <2>0, <2>2 DEF Writes
  <2>3. status' # status
    BY <1>3
  <2>4. PICK q \in Offerings :
            \/ CommitPublication(q)
            \/ Writes(q, "PUBLISHED", "RETIRED")
            \/ Writes(q, "PUBLISHING", "DRAFT")
            \/ Writes(q, "PUBLISHING", "PUBLISHED")
    BY <1>3, <2>3, StatusStep
  <2>5. CASE CommitPublication(q)
    BY <2>1, <2>5
  <2>6. CASE Writes(q, "PUBLISHED", "RETIRED")
    BY <2>2, <2>6
  <2>7. CASE Writes(q, "PUBLISHING", "DRAFT")
    BY <2>2, <2>7
  <2>8. CASE Writes(q, "PUBLISHING", "PUBLISHED")
    BY <2>2, <2>8
  <2> QED BY <2>4, <2>5, <2>6, <2>7, <2>8
<1>4. TypeInv /\ CommittingDraft /\ [Next]_vars =>
          [\A o \in Offerings : status'[o] # status[o] =>
              <<status[o], status'[o]>> \in
                 {<<"DRAFT", "PUBLISHING">>, <<"PUBLISHING", "DRAFT">>,
                  <<"PUBLISHING", "PUBLISHED">>, <<"PUBLISHED", "RETIRED">>}]_vars
  BY <1>3
<1> QED BY <1>1, <1>2, <1>4, PTL DEF Spec, LifecycleStateMachine

ConfirmedOnSale ==
    \A s \in Sagas : Confirmed(s) => status[offeringOf[s]] \in {"PUBLISHED", "RETIRED"}

ConfirmedOnce ==
    \A s, t \in Sagas : Confirmed(s) /\ Confirmed(t) /\ s # t => offeringOf[s] # offeringOf[t]

SuccessInv == TypeInv /\ CommittingDraft /\ ConfirmedOnSale /\ ConfirmedOnce

LEMMA OfferingsKept ==
    ASSUME TypeInv, [Next]_vars, NEW s \in Sagas, at[s] # "NotStarted"
    PROVE  offeringOf'[s] = offeringOf[s] /\ at'[s] # "NotStarted"
<1>0. at \in [Sagas -> Activities \union Ends \union {"NotStarted"}]
      /\ offeringOf \in [Sagas -> Offerings \union {NoOffering}]
  BY DEF TypeInv, TypeOK
<1>1. CASE UNCHANGED vars
  BY <1>1 DEF vars, camundaVars
<1>2. ASSUME NEW o \in Offerings, NEW t \in Sagas, InitiatePublication(o, t)
      PROVE  offeringOf'[s] = offeringOf[s] /\ at'[s] # "NotStarted"
  BY <1>0, <1>2 DEF InitiatePublication
<1>3. ASSUME NEW w \in Workers, CompleteTask(w) \/ ThrowBpmnError(w)
      PROVE  offeringOf'[s] = offeringOf[s] /\ at'[s] # "NotStarted"
  <2>1. Busy(w) /\ (worker[w].pc = "bpmnError" => Activity(w) \in Forward)
    BY <1>3, CallingBusy DEF CompleteTask, ThrowBpmnError, Busy
  <2>2. OnComplete[Activity(w)] # "NotStarted"
    BY <2>1 DEF Busy, OnComplete, Activities, Forward, Compensation
  <2>3. worker[w].pc = "bpmnError" => OnError[Activity(w)] # "NotStarted"
    BY <2>1 DEF OnError, Forward
  <2> QED BY <1>0, <1>3, <2>2, <2>3 DEF CompleteTask, ThrowBpmnError
<1>4. CASE UNCHANGED <<at, offeringOf>>
  BY <1>4
<1> QED BY <1>1, <1>2, <1>3, <1>4
      DEF Next, UserStep, WorkerStep, InitiateWithoutSaga, CommitPublication, AbortPublication,
          RetireOffering, ConsumeOfferingEvent, FetchAndLock, Answered, Refused, SyncSwallowed,
          Broken, CompleteFails, FailTask, ReportFails, Crash, TokenExpires, RunLateRequest,
          camundaVars

\* How a saga comes to be confirmed.
LEMMA ConfirmedStep ==
    ASSUME TypeInv, [Next]_vars, NEW s \in Sagas, Confirmed(s)'
    PROVE  /\ at[s] # "NotStarted"
           /\ \/ Confirmed(s)
              \/ /\ TaskOf("offering") = s
                 /\ Writes(offeringOf[s], "PUBLISHING", "PUBLISHED")
<1>0. /\ at \in [Sagas -> Activities \union Ends \union {"NotStarted"}]
      /\ worker \in [Workers -> [task : Sagas \union {NoSaga}, pc : Pcs, i : Nat, n : Nat]]
      /\ "offering" \in Workers
  BY DEF TypeInv, TypeOK, Workers
<1> USE DEF TaskOf
<1>1. ASSUME UNCHANGED <<at, worker>>
      PROVE  at[s] # "NotStarted" /\ Confirmed(s)
  BY <1>1 DEF Confirmed
<1>2. ASSUME NEW o \in Offerings, NEW t \in Sagas, InitiatePublication(o, t)
      PROVE  at[s] # "NotStarted" /\ Confirmed(s)
  BY <1>0, <1>2 DEF InitiatePublication, Confirmed
<1>3. ASSUME NEW w \in Workers, NEW t \in Sagas, FetchAndLock(w, t)
      PROVE  at[s] # "NotStarted" /\ Confirmed(s)
  BY <1>0, <1>3 DEF FetchAndLock, Confirmed, camundaVars
<1>4. ASSUME NEW w \in Workers, w # "offering",
             NEW pc, NEW i, NEW n, Goto(w, pc, i, n), UNCHANGED at
      PROVE  at[s] # "NotStarted" /\ Confirmed(s)
  BY <1>0, <1>4 DEF Goto, Confirmed
<1>5. ASSUME NEW w \in Workers, NEW ok, Continue(w, ok), UNCHANGED at, w # "offering"
      PROVE  at[s] # "NotStarted" /\ Confirmed(s)
  BY <1>4, <1>5 DEF Continue, NextCall, RollBackLocks
<1>6. ASSUME NEW ok \in BOOLEAN, Continue("offering", ok), Calling("offering"), UNCHANGED at
      PROVE  \/ at[s] # "NotStarted" /\ Confirmed(s)
             \/ TaskOf("offering") = s /\ at[s] = "ConfirmPublication" /\ ok
  <2>1. Busy("offering")
    BY <1>0, <1>6, CallingBusy DEF Calling
  <2>2. Activity("offering") \in {"ConfirmPublication", "RevertToDraft"}
    BY <2>1 DEF Busy, WorkerOf, Activities, Forward, Compensation
  <2>3. worker["offering"].pc = "call"
    BY <1>6, <2>1, <2>2 DEF Busy, Calling
  <2>4. Goto("offering", IF ok \/ Activity("offering") \in Compensation
                         THEN "complete" ELSE "bpmnError", 0, 0)
    <3>1. Activity("offering") # "LockPrices" /\ Activity("offering") # "UnlockPrices"
      BY <2>2
    <3> QED BY <1>6, <2>3, <3>1, Zenon DEF Continue
  <2>5. worker'["offering"].task = TaskOf("offering")
        /\ worker'["offering"].pc = IF ok \/ Activity("offering") \in Compensation
                                    THEN "complete" ELSE "bpmnError"
    BY <1>0, <2>4 DEF Goto
  <2> QED BY <1>6, <2>2, <2>5 DEF Confirmed, Activity, Compensation
<1>7. ASSUME NEW w \in Workers, Answered(w)
      PROVE  /\ at[s] # "NotStarted"
             /\ \/ Confirmed(s)
                \/ /\ TaskOf("offering") = s
                   /\ Writes(offeringOf[s], "PUBLISHING", "PUBLISHED")
  <2>0. UNCHANGED at /\ Calling(w)
    BY <1>7 DEF Answered, camundaVars
  <2>1. PICK ok \in BOOLEAN : Request(CallOf(w), ok) /\ Continue(w, ok)
    BY <1>7 DEF Answered
  <2>2. CASE w # "offering"
    BY <1>5, <2>0, <2>1, <2>2
  <2>3. CASE w = "offering"
    <3>1. CASE Confirmed(s) /\ at[s] # "NotStarted"
      BY <3>1
    <3>2. CASE TaskOf("offering") = s /\ at[s] = "ConfirmPublication" /\ ok
      <4>1. Busy("offering") /\ worker["offering"].pc = "call"
        BY <2>0, <2>3, <3>2, CallingBusy DEF Calling, Busy, Activity
      <4>2. CallOf(w).op = "confirm" /\ CallOf(w).saga = s
        BY <2>3, <3>2, <4>1 DEF CallOf, OpOf, Activity, Activities, Forward
      <4>3. ConfirmPublication(offeringOf[s], ok)
        BY <2>1, <4>2 DEF Request
      <4> QED BY <3>2, <4>3 DEF ConfirmPublication, Writes
    <3> QED BY <1>6, <2>0, <2>1, <2>3, <3>1, <3>2
  <2> QED BY <2>2, <2>3
<1>8. ASSUME NEW w \in Workers, Refused(w) \/ SyncSwallowed(w)
      PROVE  at[s] # "NotStarted" /\ Confirmed(s)
  <2>0. UNCHANGED at /\ Calling(w)
    BY <1>8 DEF Refused, SyncSwallowed, camundaVars
  <2>1. CASE w # "offering"
    BY <1>5, <1>8, <2>0, <2>1 DEF Refused, SyncSwallowed
  <2>2. CASE w = "offering" /\ Refused(w)
    BY <1>6, <2>0, <2>2 DEF Refused, Confirmed
  <2>3. CASE w = "offering" /\ SyncSwallowed(w)
    <3>1. Busy("offering")
      BY <2>0, <2>3, CallingBusy DEF Calling
    <3>2. Activity("offering") \in {"ConfirmPublication", "RevertToDraft"}
      BY <3>1 DEF Busy, WorkerOf, Activities, Forward, Compensation
    <3>3. CallOf("offering").op # "sync"
      BY <3>2 DEF CallOf, OpOf, Activities, Forward, Compensation
    <3> QED BY <2>3, <3>3 DEF SyncSwallowed
  <2> QED BY <1>8, <2>1, <2>2, <2>3
<1>9. ASSUME NEW w \in Workers, Broken(w) \/ CompleteFails(w)
      PROVE  at[s] # "NotStarted" /\ Confirmed(s)
  <2>0. UNCHANGED at
    BY <1>9 DEF Broken, CompleteFails, camundaVars
  <2>1. CASE w # "offering" /\ Broken(w)
    BY <1>4, <2>0, <2>1 DEF Broken, Raise, RollBackLocks
  <2>2. CASE w # "offering" /\ CompleteFails(w)
    BY <1>4, <2>0, <2>2 DEF CompleteFails
  <2>3. CASE w = "offering"
    <3>1. Goto(w, "fail", 0, 0)
      <4>1. CASE CompleteFails(w)
        BY <4>1 DEF CompleteFails
      <4>2. CASE Broken(w)
        <5>1. Busy(w)
          BY <4>2, CallingBusy DEF Broken, Calling
        <5>2. Activity(w) # "LockPrices"
          BY <2>3, <5>1 DEF Busy, WorkerOf
        <5> QED BY <4>2, <5>2 DEF Broken, Raise
      <4> QED BY <1>9, <4>1, <4>2
    <3>2. worker'["offering"].pc = "fail"
      BY <1>0, <2>3, <3>1 DEF Goto
    <3> QED BY <2>0, <3>2 DEF Confirmed
  <2> QED BY <1>9, <2>1, <2>2, <2>3
<1>10. ASSUME NEW w \in Workers, CompleteTask(w)
       PROVE  at[s] # "NotStarted" /\ Confirmed(s)
  <2>1. Busy(w)
    BY <1>10, CallingBusy DEF CompleteTask
  <2>2. at' = [at EXCEPT ![TaskOf(w)] = OnComplete[Activity(w)]]
        /\ worker' = [worker EXCEPT ![w] = Idle]
    BY <1>10 DEF CompleteTask
  <2>3. CASE TaskOf(w) = s
    <3>1. at'[s] = OnComplete[Activity(w)] /\ Activity(w) = at[s]
      BY <1>0, <2>2, <2>3 DEF Activity
    <3>2. CASE w = "offering"
      <4>1. worker'["offering"].pc = "idle"
        BY <1>0, <2>2, <3>2 DEF Idle
      <4>2. at'[s] = "EndEvent_1"
        BY <4>1 DEF Confirmed
      <4>3. at[s] = "ConfirmPublication"
        BY <2>1, <3>1, <4>2 DEF Busy, OnComplete, Activities, Forward, Compensation
      <4> QED BY <1>10, <2>3, <3>2, <4>3 DEF CompleteTask, Confirmed
    <3>3. CASE w # "offering"
      <4>1. at[s] # "ConfirmPublication" /\ at[s] \in Activities
        BY <2>1, <3>1, <3>3 DEF Busy, WorkerOf
      <4>2. at'[s] # "EndEvent_1"
        BY <3>1, <4>1 DEF OnComplete, Activities, Forward, Compensation
      <4>3. worker'["offering"] = worker["offering"]
        BY <1>0, <2>2, <3>3
      <4>4. worker["offering"].task = s /\ worker["offering"].pc = "complete"
        BY <4>2, <4>3 DEF Confirmed
      <4>5. Busy("offering")
        BY <1>0, <4>4, CallingBusy
      <4> QED BY <2>1, <2>3, <3>3, <4>4, <4>5 DEF Busy, Activity
    <3> QED BY <3>2, <3>3
  <2>4. CASE TaskOf(w) # s
    <3>1. at'[s] = at[s]
      BY <1>0, <2>2, <2>4
    <3>2. CASE w = "offering"
      BY <1>0, <2>2, <3>1, <3>2 DEF Confirmed, Idle
    <3>3. CASE w # "offering"
      BY <1>0, <2>2, <3>1, <3>3 DEF Confirmed
    <3> QED BY <3>2, <3>3
  <2> QED BY <2>3, <2>4
<1>11. ASSUME NEW w \in Workers, ThrowBpmnError(w)
       PROVE  at[s] # "NotStarted" /\ Confirmed(s)
  <2>1. Busy(w) /\ Activity(w) \in Forward
    BY <1>11, CallingBusy DEF ThrowBpmnError, Busy
  <2>2. at' = [at EXCEPT ![TaskOf(w)] = OnError[Activity(w)]]
        /\ worker' = [worker EXCEPT ![w] = Idle]
    BY <1>11 DEF ThrowBpmnError
  <2>3. OnError[Activity(w)] \in Compensation
    BY <2>1 DEF OnError, Forward, Compensation
  <2>4. TaskOf(w) # s
    BY <1>0, <2>2, <2>3 DEF Confirmed, Compensation
  <2>5. at'[s] = at[s]
    BY <1>0, <2>2, <2>4
  <2> QED BY <1>0, <2>2, <2>5 DEF Confirmed, Idle
<1>12. ASSUME NEW w \in Workers, FailTask(w) \/ ReportFails(w) \/ Crash(w)
       PROVE  at[s] # "NotStarted" /\ Confirmed(s)
  <2>1. at' = at /\ worker' = [worker EXCEPT ![w] = Idle]
    BY <1>12 DEF FailTask, ReportFails, Crash, camundaVars
  <2> QED BY <1>0, <2>1 DEF Confirmed, Idle
<1>13. CASE UNCHANGED <<at, worker>>
  BY <1>1, <1>13
<1> QED BY <1>2, <1>3, <1>7, <1>8, <1>9, <1>10, <1>11, <1>12, <1>13
      DEF Next, UserStep, WorkerStep, InitiateWithoutSaga, CommitPublication, AbortPublication,
          RetireOffering, ConsumeOfferingEvent, TokenExpires, RunLateRequest, camundaVars, vars

\* No step takes an offering off sale.
LEMMA OnSaleStays ==
    ASSUME TypeInv, CommittingDraft, [Next]_vars, NEW o \in Offerings,
           status[o] \in {"PUBLISHED", "RETIRED"}
    PROVE  status'[o] \in {"PUBLISHED", "RETIRED"}
<1>0. status \in [Offerings -> {"DRAFT", "PUBLISHING", "PUBLISHED", "RETIRED"}]
  BY DEF TypeInv, TypeOK
<1>1. ASSUME NEW q \in Offerings, CommitPublication(q)
      PROVE  status'[o] \in {"PUBLISHED", "RETIRED"}
  BY <1>0, <1>1 DEF CommitPublication, CommittingDraft
<1>2. ASSUME NEW q \in Offerings,
             \/ Writes(q, "PUBLISHED", "RETIRED")
             \/ Writes(q, "PUBLISHING", "DRAFT")
             \/ Writes(q, "PUBLISHING", "PUBLISHED")
      PROVE  status'[o] \in {"PUBLISHED", "RETIRED"}
  BY <1>0, <1>2 DEF Writes
<1>3. CASE status' = status
  BY <1>3
<1> QED BY <1>1, <1>2, <1>3, StatusStep

LEMMA SuccessStep == SuccessInv /\ [Next]_vars => SuccessInv'
<1> SUFFICES ASSUME SuccessInv, [Next]_vars PROVE SuccessInv'
  OBVIOUS
<1>0. TypeInv /\ CommittingDraft /\ ConfirmedOnSale /\ ConfirmedOnce
  BY DEF SuccessInv
<1>1. TypeInv' /\ CommittingDraft'
  BY <1>0, TypeStep, CommittingStep
<1>2. status \in [Offerings -> {"DRAFT", "PUBLISHING", "PUBLISHED", "RETIRED"}]
  BY <1>0 DEF TypeInv, TypeOK
<1>3. ASSUME NEW s \in Sagas, Confirmed(s)'
      PROVE  /\ offeringOf'[s] = offeringOf[s]
             /\ offeringOf[s] \in Offerings
             /\ \/ Confirmed(s)
                \/ /\ TaskOf("offering") = s
                   /\ Writes(offeringOf[s], "PUBLISHING", "PUBLISHED")
  BY <1>0, <1>3, ConfirmedStep, OfferingsKept DEF TypeInv, SagasOK
<1>4. ConfirmedOnSale'
  <2> SUFFICES ASSUME NEW s \in Sagas, Confirmed(s)'
               PROVE  status'[offeringOf'[s]] \in {"PUBLISHED", "RETIRED"}
    BY DEF ConfirmedOnSale
  <2>1. CASE Confirmed(s)
    BY <1>0, <1>3, <2>1, OnSaleStays DEF ConfirmedOnSale
  <2>2. CASE Writes(offeringOf[s], "PUBLISHING", "PUBLISHED")
    BY <1>2, <1>3, <2>2 DEF Writes
  <2> QED BY <1>3, <2>1, <2>2
<1>5. ConfirmedOnce'
  <2> SUFFICES ASSUME NEW s \in Sagas, NEW t \in Sagas, Confirmed(s)', Confirmed(t)', s # t
               PROVE  offeringOf'[s] # offeringOf'[t]
    BY DEF ConfirmedOnce
  <2>1. CASE Confirmed(s) /\ Confirmed(t)
    BY <1>0, <1>3, <2>1 DEF ConfirmedOnce
  <2>2. CASE Confirmed(s) /\ Writes(offeringOf[t], "PUBLISHING", "PUBLISHED")
    BY <1>0, <1>3, <2>2 DEF ConfirmedOnSale, Writes
  <2>3. CASE Confirmed(t) /\ Writes(offeringOf[s], "PUBLISHING", "PUBLISHED")
    BY <1>0, <1>3, <2>3 DEF ConfirmedOnSale, Writes
  <2> QED BY <1>3, <2>1, <2>2, <2>3
<1> QED BY <1>1, <1>4, <1>5 DEF SuccessInv

\* A process instance that ends successfully has published its offering, and at
\* most one instance per offering does, under every fault.
THEOREM SuccessIsReal == Spec => []SuccessIsPublishedOnce
<1>1. Init => SuccessInv
  BY TypeInit DEF Init, SuccessInv, CommittingDraft, ConfirmedOnSale, ConfirmedOnce, Confirmed, Idle
<1>2. SuccessInv => SuccessIsPublishedOnce
  BY DEF SuccessInv, ConfirmedOnSale, ConfirmedOnce, Confirmed, SuccessIsPublishedOnce
<1> QED BY <1>1, <1>2, SuccessStep, PTL DEF Spec

-----------------------------------------------------------------------------
(* The price locks.  unlock_price asks for no owner and POST .../fail names *)
(* no saga, so what protects a saga's locks is who unlocks what: of the     *)
(* sagas of its own offering at most one "owns" the offering, that is, may   *)
(* still unlock its prices or make it a DRAFT again, and a saga of another  *)
(* offering unlocks only prices it has in common, and only once it has      *)
(* failed.                                                                 *)

Owns(s) ==
    \/ at[s] \in Activities \ {"RevertToDraft"}
    \/ at[s] = "EndEvent_1"
    \/ Reverting(s)

NoIncidentHandled == \A w \in Workers : TaskOf(w) \notin incident

OneOwner ==
    \A s, t \in Sagas : Owns(s) /\ Owns(t) /\ s # t => offeringOf[s] # offeringOf[t]

OwnersNotDraft ==
    \A s \in Sagas : Owns(s) =>
        offeringOf[s] \in committing \/ status[offeringOf[s]] # "DRAFT"

\* The lock handler has locked the price: it is past it in its loop, or done.
Passed(s, p) ==
    LET r == worker["pricing"]
    IN  \/ r.pc = "call" /\ \E j \in 1 .. (r.i - 1) : PricesOf[offeringOf[s]][j] = p
        \/ r.pc = "complete" /\ p \in PriceSet(offeringOf[s])

\* What the lock handler has passed stays its own, or is contested.
LockProgress ==
    \A s \in Sagas, p \in Prices :
        TaskOf("pricing") = s /\ at[s] = "LockPrices" /\ Passed(s, p) => StillHolds(s, p)

OwnersInv ==
    /\ TypeInv
    /\ CommittingDraft
    /\ late = {}
    /\ NoIncidentHandled
    /\ OneOwner
    /\ OwnersNotDraft

LocksInv == OwnersInv /\ LockProgress /\ PricesStayLocked

\* With orderly faults only these steps are left of the faulty ones.
LEMMA OrderlyStep ==
    ASSUME Faults \subseteq OrderlyFaults, late = {}, [Next]_vars
    PROVE  /\ late' = {}
           /\ \/ UNCHANGED vars
              \/ \E o \in Offerings, s \in Sagas : InitiatePublication(o, s)
              \/ \E o \in Offerings :
                    \/ InitiateWithoutSaga(o) \/ CommitPublication(o)
                    \/ RetireOffering(o) \/ ConsumeOfferingEvent(o)
              \/ \E w \in Workers, s \in Sagas : FetchAndLock(w, s)
              \/ \E w \in Workers :
                    \/ Answered(w) \/ Refused(w) \/ SyncSwallowed(w) \/ Broken(w)
                    \/ CompleteTask(w) \/ ThrowBpmnError(w) \/ FailTask(w) \/ TokenExpires(w)
<1>1. /\ "abort" \notin Faults /\ "late" \notin Faults
      /\ "report" \notin Faults /\ "crash" \notin Faults
  BY DEF OrderlyFaults
<1>2. /\ \A o \in Offerings : ~AbortPublication(o)
      /\ \A w \in Workers : ~CompleteFails(w) /\ ~ReportFails(w) /\ ~Crash(w)
      /\ \A w \in Workers : Broken(w) => late' = late
  BY <1>1 DEF AbortPublication, CompleteFails, ReportFails, Crash, Broken, Fault
<1>3. \/ UNCHANGED vars
      \/ \E o \in Offerings, s \in Sagas : InitiatePublication(o, s)
      \/ \E o \in Offerings :
            \/ InitiateWithoutSaga(o) \/ CommitPublication(o)
            \/ RetireOffering(o) \/ ConsumeOfferingEvent(o)
      \/ \E w \in Workers, s \in Sagas : FetchAndLock(w, s)
      \/ \E w \in Workers :
            \/ Answered(w) \/ Refused(w) \/ SyncSwallowed(w) \/ Broken(w)
            \/ CompleteTask(w) \/ ThrowBpmnError(w) \/ FailTask(w) \/ TokenExpires(w)
  BY <1>2 DEF Next, UserStep, WorkerStep
<1>4. late' = late
  BY <1>2, <1>3 DEF vars, InitiatePublication, InitiateWithoutSaga, CommitPublication,
                    RetireOffering, ConsumeOfferingEvent, FetchAndLock, Answered, Refused,
                    SyncSwallowed, CompleteTask, ThrowBpmnError, FailTask, TokenExpires
<1> QED BY <1>3, <1>4

\* How a saga comes to own its offering.
LEMMA OwnsStep ==
    ASSUME Faults \subseteq OrderlyFaults, OwnersInv, [Next]_vars, NEW s \in Sagas, Owns(s)'
    PROVE  Owns(s) \/ \E o \in Offerings : InitiatePublication(o, s)
<1>0. /\ at \in [Sagas -> Activities \union Ends \union {"NotStarted"}]
      /\ worker \in [Workers -> [task : Sagas \union {NoSaga}, pc : Pcs, i : Nat, n : Nat]]
      /\ "offering" \in Workers /\ TypeInv /\ late = {} /\ NoSaga \notin Sagas
  BY SagaAssumption DEF OwnersInv, TypeInv, TypeOK, Workers
<1>1. ASSUME UNCHANGED <<at, incident, worker>>
      PROVE  Owns(s)
  BY <1>1 DEF Owns, Reverting, TaskOf
<1>2. ASSUME NEW o \in Offerings, NEW t \in Sagas, InitiatePublication(o, t), t # s
      PROVE  Owns(s)
  BY <1>0, <1>2 DEF InitiatePublication, Owns, Reverting, TaskOf
<1>3. ASSUME NEW w \in Workers, NEW t \in Sagas, FetchAndLock(w, t)
      PROVE  Owns(s)
  <2>1. at' = at /\ incident' = incident /\ worker[w] = Idle
    BY <1>3 DEF FetchAndLock, camundaVars
  <2>2. CASE w = "offering"
    BY <1>0, <2>1, <2>2 DEF Owns, Reverting, TaskOf, Idle
  <2>3. CASE w # "offering"
    <3>1. worker'["offering"] = worker["offering"]
      BY <1>0, <1>3, <2>3 DEF FetchAndLock
    <3> QED BY <2>1, <3>1 DEF Owns, Reverting, TaskOf
  <2> QED BY <2>2, <2>3
\* A handler that goes on keeps its task, and does not take a report back.
<1>4. ASSUME NEW w \in Workers, Calling(w), NEW pc, NEW i, NEW n, Goto(w, pc, i, n),
             UNCHANGED <<at, incident>>
      PROVE  Owns(s)
  BY <1>0, <1>4 DEF Goto, Calling, Owns, Reverting, TaskOf
<1>5. ASSUME NEW w \in Workers, Answered(w) \/ Refused(w) \/ SyncSwallowed(w) \/ Broken(w)
      PROVE  Owns(s)
  <2>1. Calling(w) /\ UNCHANGED <<at, incident>>
    BY <1>5 DEF Answered, Refused, SyncSwallowed, Broken, camundaVars
  <2>2. (\E ok \in BOOLEAN : Continue(w, ok)) \/ Raise(w)
    BY <1>5 DEF Answered, Refused, SyncSwallowed, Broken
  <2> QED BY <1>4, <2>1, <2>2 DEF Continue, Raise, NextCall, RollBackLocks
<1>6. ASSUME NEW w \in Workers, CompleteTask(w) \/ ThrowBpmnError(w)
      PROVE  Owns(s)
  <2>1. Busy(w)
    BY <1>0, <1>6, CallingBusy DEF CompleteTask, ThrowBpmnError
  <2>2. PICK a : at' = [at EXCEPT ![TaskOf(w)] = a]
    BY <1>6 DEF CompleteTask, ThrowBpmnError, TaskOf
  <2>3. worker' = [worker EXCEPT ![w] = Idle] /\ incident' = incident
    BY <1>6 DEF CompleteTask, ThrowBpmnError
  <2>4. CASE TaskOf(w) = s
    <3>1. CASE Activity(w) = "RevertToDraft"
      <4>1. at'[s] = "EndEvent_Error"
        <5>1. CompleteTask(w)
          BY <1>6, <2>1, <3>1 DEF ThrowBpmnError, Busy, Forward
        <5> QED BY <1>0, <2>4, <3>1, <5>1 DEF CompleteTask, TaskOf, OnComplete
      <4> QED BY <4>1 DEF Owns, Reverting, Activities, Forward, Compensation
    <3>2. CASE Activity(w) # "RevertToDraft"
      BY <2>1, <2>4, <3>2 DEF Owns, Busy, Activity, TaskOf
    <3> QED BY <3>1, <3>2
  <2>5. CASE TaskOf(w) # s
    <3>1. at'[s] = at[s]
      BY <1>0, <2>2, <2>5
    <3>2. TaskOf("offering")' = s => TaskOf("offering") = s /\ worker'["offering"] = worker["offering"]
      BY <1>0, <2>3 DEF TaskOf, Idle
    <3>3. TaskOf("offering") = s => worker'["offering"] = worker["offering"]
      BY <1>0, <2>3, <2>5 DEF TaskOf
    <3> QED BY <2>3, <3>1, <3>2, <3>3 DEF Owns, Reverting, TaskOf
  <2> QED BY <2>4, <2>5
<1>7. ASSUME NEW w \in Workers, FailTask(w)
      PROVE  Owns(s)
  <2>1. /\ at' = at /\ incident' = incident \union {TaskOf(w)}
        /\ worker' = [worker EXCEPT ![w] = Idle]
    BY <1>7 DEF FailTask, TaskOf
  <2>2. CASE TaskOf(w) = s
    BY <2>1, <2>2 DEF Owns, Reverting
  <2>3. CASE TaskOf(w) # s
    <3>1. TaskOf("offering") = s => worker'["offering"] = worker["offering"]
      BY <1>0, <2>1, <2>3 DEF TaskOf
    <3> QED BY <2>1, <3>1 DEF Owns, Reverting, TaskOf
  <2> QED BY <2>2, <2>3
<1>8. CASE UNCHANGED <<at, incident, worker>>
  BY <1>1, <1>8
<1> QED BY <1>0, <1>2, <1>3, <1>5, <1>6, <1>7, <1>8, OrderlyStep
      DEF vars, camundaVars, InitiateWithoutSaga, CommitPublication, RetireOffering,
          ConsumeOfferingEvent, TokenExpires

\* A publication that has failed stays failed: nothing leads out of compensation,
\* and an incident is never resolved.
LEMMA FailedKept ==
    ASSUME Faults \subseteq OrderlyFaults, OwnersInv, [Next]_vars, NEW t \in Sagas, Failed(t)
    PROVE  Failed(t)'
<1>0. /\ at \in [Sagas -> Activities \union Ends \union {"NotStarted"}]
      /\ worker \in [Workers -> [task : Sagas \union {NoSaga}, pc : Pcs, i : Nat, n : Nat]]
      /\ "pricing" \in Workers /\ TypeInv /\ NoIncidentHandled /\ late = {}
      /\ NoSaga \notin Sagas
  BY SagaAssumption DEF OwnersInv, TypeInv, TypeOK, Workers
<1>1. CASE UNCHANGED <<at, incident, worker>>
  BY <1>1 DEF Failed, LockingFailed, TaskOf
<1>2. ASSUME NEW o \in Offerings, NEW s \in Sagas, InitiatePublication(o, s)
      PROVE  Failed(t)'
  <2>1. at[t] # "NotStarted"
    BY DEF Failed, LockingFailed, Compensation
  <2>2. at'[t] = at[t] /\ UNCHANGED <<incident, worker>>
    BY <1>0, <1>2, <2>1 DEF InitiatePublication
  <2> QED BY <2>2 DEF Failed, LockingFailed, TaskOf
<1>3. ASSUME NEW w \in Workers, NEW s \in Sagas, FetchAndLock(w, s)
      PROVE  Failed(t)'
  <2>1. at' = at /\ incident' = incident /\ worker[w] = Idle
    BY <1>3 DEF FetchAndLock, camundaVars
  <2>2. TaskOf("pricing") = t => worker'["pricing"] = worker["pricing"]
    BY <1>0, <1>3, <2>1 DEF FetchAndLock, TaskOf, Idle
  <2> QED BY <2>1, <2>2 DEF Failed, LockingFailed, TaskOf
<1>4. ASSUME NEW w \in Workers, Answered(w) \/ Refused(w) \/ SyncSwallowed(w) \/ Broken(w)
      PROVE  Failed(t)'
  <2>1. Calling(w) /\ UNCHANGED <<at, incident>>
    BY <1>4 DEF Answered, Refused, SyncSwallowed, Broken, camundaVars
  <2>2. (\E ok \in BOOLEAN : Continue(w, ok)) \/ Raise(w)
    BY <1>4 DEF Answered, Refused, SyncSwallowed, Broken
  <2>3. CASE w # "pricing"
    <3>1. worker'["pricing"] = worker["pricing"]
      BY <1>0, <2>2, <2>3 DEF Continue, Raise, NextCall, RollBackLocks, Goto
    <3> QED BY <2>1, <3>1 DEF Failed, LockingFailed, TaskOf
  <2>4. CASE w = "pricing" /\ worker[w].pc = "rollback"
    <3>1. /\ worker'["pricing"].task = worker["pricing"].task
          /\ worker'["pricing"].pc \in {"rollback", "bpmnError", "fail"}
      BY <1>0, <2>2, <2>4 DEF Continue, Raise, NextCall, Goto
    <3> QED BY <2>1, <3>1 DEF Failed, LockingFailed, TaskOf
  <2>5. CASE w = "pricing" /\ worker[w].pc = "call"
    BY <2>1, <2>5 DEF Failed, LockingFailed
  <2> QED BY <2>1, <2>3, <2>4, <2>5 DEF Calling
<1>5. ASSUME NEW w \in Workers, CompleteTask(w) \/ ThrowBpmnError(w) \/ FailTask(w)
      PROVE  Failed(t)'
  <2>1. Busy(w) /\ worker' = [worker EXCEPT ![w] = Idle]
    BY <1>0, <1>5, CallingBusy DEF CompleteTask, ThrowBpmnError, FailTask
  <2>2. CASE TaskOf(w) # t
    <3>1. at'[t] = at[t] /\ (t \in incident => t \in incident')
      BY <1>0, <1>5, <2>2 DEF CompleteTask, ThrowBpmnError, FailTask, TaskOf
    <3>2. TaskOf("pricing") = t => worker'["pricing"] = worker["pricing"]
      BY <1>0, <2>1, <2>2 DEF TaskOf
    <3> QED BY <3>1, <3>2 DEF Failed, LockingFailed, TaskOf
  <2>3. CASE TaskOf(w) = t /\ FailTask(w)
    BY <2>3 DEF FailTask, TaskOf, Failed, LockingFailed
  <2>4. CASE TaskOf(w) = t /\ CompleteTask(w)
    <3>1. at'[t] = OnComplete[Activity(w)] /\ Activity(w) = at[t]
      BY <1>0, <2>4 DEF CompleteTask, TaskOf, Activity
    <3>2. Activity(w) # "LockPrices"
      <4>1. SUFFICES ASSUME Activity(w) = "LockPrices" PROVE FALSE
        OBVIOUS
      <4>2. w = "pricing"
        BY <2>1, <4>1 DEF Busy, WorkerOf, Activities, Forward, Compensation
      <4>3. t \notin incident
        BY <1>0, <2>4 DEF NoIncidentHandled
      <4> QED BY <2>4, <3>1, <4>1, <4>2, <4>3
            DEF CompleteTask, Failed, LockingFailed, Compensation
    <3>3. Activity(w) \in Compensation
      BY <2>1, <3>1, <3>2
        DEF Busy, Failed, LockingFailed, Activities, Forward, Compensation, Activity
    <3> QED BY <3>1, <3>3 DEF OnComplete, Compensation, Failed
  <2>5. CASE TaskOf(w) = t /\ ThrowBpmnError(w)
    <3>1. at'[t] = OnError[Activity(w)] /\ Activity(w) \in Forward
      BY <1>0, <2>1, <2>5 DEF ThrowBpmnError, TaskOf, Busy
    <3> QED BY <3>1 DEF OnError, Forward, Compensation, Failed
  <2> QED BY <1>5, <2>2, <2>3, <2>4, <2>5
<1> QED BY <1>0, <1>1, <1>2, <1>3, <1>4, <1>5, OrderlyStep
      DEF vars, camundaVars, InitiateWithoutSaga, CommitPublication, RetireOffering,
          ConsumeOfferingEvent, TokenExpires

LEMMA ContestedKept ==
    ASSUME Faults \subseteq OrderlyFaults, OwnersInv, [Next]_vars,
           NEW s \in Sagas, Owns(s), NEW p, Contested(s, p)
    PROVE  Contested(s, p)'
<1>1. PICK t \in Sagas : /\ Failed(t)
                        /\ offeringOf[t] # offeringOf[s]
                        /\ p \in PriceSet(offeringOf[t])
  BY DEF Contested
<1>2. offeringOf'[s] = offeringOf[s] /\ offeringOf'[t] = offeringOf[t]
  BY <1>1, OfferingsKept
    DEF OwnersInv, Owns, Reverting, Failed, LockingFailed, Activities, Forward, Compensation
<1>3. Failed(t)'
  BY <1>1, FailedKept
<1> QED BY <1>1, <1>2, <1>3 DEF Contested, PriceSet

\* A lock that a saga may still need is taken away by its own handler, or by the
\* failed saga of another offering that lists the price.
LEMMA LockKept ==
    ASSUME Faults \subseteq OrderlyFaults, LocksInv, [Next]_vars,
           NEW s \in Sagas, Owns(s), NEW p \in PriceSet(offeringOf[s]), lockedBy[p] = s
    PROVE  \/ lockedBy'[p] = s
           \/ Contested(s, p)
           \/ /\ TaskOf("pricing") = s
              /\ worker["pricing"].pc = "rollback" \/ at[s] = "UnlockPrices"
              /\ Answered("pricing")
<1>0. /\ TypeInv /\ OneOwner /\ late = {}
      /\ lockedBy \in [Prices -> Sagas \union {NoSaga}]
  BY DEF LocksInv, OwnersInv, TypeInv, TypeOK
<1>1. CASE lockedBy' = lockedBy
  BY <1>1
<1>2. ASSUME NEW w \in Workers, Answered(w), lockedBy' # lockedBy
      PROVE  \/ lockedBy'[p] = s
             \/ Contested(s, p)
             \/ /\ TaskOf("pricing") = s
                /\ worker["pricing"].pc = "rollback" \/ at[s] = "UnlockPrices"
                /\ Answered("pricing")
  <2>1. PICK ok \in BOOLEAN : Request(CallOf(w), ok) /\ Calling(w)
    BY <1>2 DEF Answered
  <2>2. Busy(w) /\ offeringOf[TaskOf(w)] \in Offerings
    BY <1>0, <2>1, CallingBusy DEF Calling
  <2> DEFINE c == CallOf(w)
             t == TaskOf(w)
  <2>3. \/ LockPrice(c.price, t, ok)
        \/ c.op = "unlock" /\ UnlockPrice(c.price, ok)
    BY <1>2, <2>1, CallType, <1>0
      DEF Request, ValidateSpecifications, SyncOffering, DeleteOfferingRead,
          ConfirmPublication, FailPublication, serviceVars
  <2>4. CASE LockPrice(c.price, t, ok)
    <3>1. p \in Prices
      <4>1. offeringOf[s] \in Offerings
        BY <1>0 DEF TypeInv, SagasOK, Owns, Reverting, Activities, Forward, Compensation
      <4> QED BY <4>1, SagaAssumption DEF PriceSet
    <3>2. CASE c.price = p
      BY <1>0, <2>4, <3>1, <3>2, SagaAssumption DEF LockPrice
    <3>3. CASE c.price # p
      BY <1>0, <2>4, <3>1, <3>3 DEF LockPrice
    <3> QED BY <3>2, <3>3
  <2>5. CASE c.op = "unlock" /\ UnlockPrice(c.price, ok)
    <3>1. CASE c.price # p
      BY <1>0, <2>5, <3>1 DEF UnlockPrice
    <3>2. CASE c.price = p
      <4>1. Activity(w) \in {"LockPrices", "UnlockPrices"} /\ w = "pricing"
            /\ (worker[w].pc = "rollback" \/ Activity(w) = "UnlockPrices")
        BY <2>2, <2>5 DEF CallOf, OpOf, Busy, WorkerOf, Activities, Forward, Compensation
      <4>2. worker[w].i \in 1 .. PriceCount(w)
        <5>1. PriceCount(w) \in Nat
          BY <2>2, PricesNonEmpty DEF PriceCount, PricesOfTask, TaskOf
        <5> QED BY <2>1, <2>2, <4>1, <5>1 DEF Busy, Calling
      <4>3. p = PricesOf[offeringOf[t]][worker[w].i]
        BY <3>2, <4>1 DEF CallOf, PricesOfTask, TaskOf
      <4>4. p \in PriceSet(offeringOf[t])
        <5>1. DOMAIN PricesOf[offeringOf[t]] = 1 .. PriceCount(w)
          BY <2>2, SagaAssumption DEF PriceCount, PricesOfTask, TaskOf
        <5> QED BY <4>2, <4>3, <5>1 DEF PriceSet
      <4>5. Owns(t) /\ t \in Sagas
        BY <2>2, <4>1 DEF Owns, Activity, Busy, TaskOf, Activities, Forward, Compensation
      <4>6. CASE offeringOf[t] = offeringOf[s]
        <5>1. t = s
          BY <1>0, <4>5, <4>6 DEF OneOwner
        <5> QED BY <1>2, <4>1, <5>1 DEF Activity, TaskOf
      <4>7. CASE offeringOf[t] # offeringOf[s]
        <5>1. Failed(t)
          BY <2>2, <4>1 DEF Failed, LockingFailed, Busy, Activity, TaskOf, Compensation
        <5> QED BY <4>4, <4>5, <4>7, <5>1 DEF Contested
      <4> QED BY <4>6, <4>7
    <3> QED BY <3>1, <3>2
  <2> QED BY <2>3, <2>4, <2>5
<1> QED BY <1>0, <1>1, <1>2, OrderlyStep
      DEF vars, InitiatePublication, serviceVars, InitiateWithoutSaga, CommitPublication,
          RetireOffering, ConsumeOfferingEvent, FetchAndLock, Refused, SyncSwallowed, Broken,
          CompleteTask, ThrowBpmnError, FailTask, TokenExpires

LEMMA KeptStep ==
    ASSUME Faults \subseteq OrderlyFaults, LocksInv, [Next]_vars,
           NEW s \in Sagas, Owns(s), NEW p \in PriceSet(offeringOf[s]), StillHolds(s, p)
    PROVE  \/ StillHolds(s, p)'
           \/ /\ TaskOf("pricing") = s
              /\ worker["pricing"].pc = "rollback" \/ at[s] = "UnlockPrices"
              /\ Answered("pricing")
<1>1. CASE Contested(s, p)
  BY <1>1, ContestedKept DEF LocksInv, StillHolds
<1>2. CASE lockedBy[p] = s
  BY <1>2, LockKept, ContestedKept DEF LocksInv, StillHolds
<1> QED BY <1>1, <1>2 DEF StillHolds

LEMMA LockProgressStep ==
    ASSUME Faults \subseteq OrderlyFaults, LocksInv, [Next]_vars
    PROVE  LockProgress'
<1>0. /\ TypeInv /\ LockProgress /\ late = {}
      /\ worker \in [Workers -> [task : Sagas \union {NoSaga}, pc : Pcs, i : Nat, n : Nat]]
      /\ at \in [Sagas -> Activities \union Ends \union {"NotStarted"}]
      /\ lockedBy \in [Prices -> Sagas \union {NoSaga}]
      /\ "pricing" \in Workers /\ NoSaga \notin Sagas
  BY SagaAssumption DEF LocksInv, OwnersInv, TypeInv, TypeOK, Workers
<1> SUFFICES ASSUME NEW s \in Sagas, NEW p \in Prices,
                    worker'["pricing"].task = s, at'[s] = "LockPrices", Passed(s, p)'
             PROVE  StillHolds(s, p)'
  BY DEF LockProgress, TaskOf
\* Steps of others: the handler stands where it stood.
<1>1. ASSUME worker'["pricing"] = worker["pricing"], ~Answered("pricing")
      PROVE  StillHolds(s, p)'
  <2>1. TaskOf("pricing") = s /\ Busy("pricing")
    BY <1>0, <1>1 DEF TaskOf, TypeInv, WorkersOK, Idle
  <2>2. at[s] \in {"LockPrices", "UnlockPrices"}
    BY <2>1 DEF Busy, Activity, TaskOf, WorkerOf, Activities, Forward, Compensation
  <2>3. offeringOf'[s] = offeringOf[s] /\ offeringOf[s] \in Offerings
    BY <1>0, <1>1, <2>1, <2>2, OfferingsKept DEF TypeInv, SagasOK
  <2>4. Owns(s)
    BY <2>2 DEF Owns, Activities, Forward, Compensation
  <2>5. at[s] = "LockPrices"
    <3>1. ASSUME at' # at, ~\E o \in Offerings, t \in Sagas : InitiatePublication(o, t)
          PROVE  \E w \in Workers : CompleteTask(w) \/ ThrowBpmnError(w)
      BY <1>0, <3>1, OrderlyStep
        DEF vars, camundaVars, InitiateWithoutSaga, CommitPublication,
            RetireOffering, ConsumeOfferingEvent, FetchAndLock, Answered, Refused, SyncSwallowed,
            Broken, FailTask, TokenExpires
    <3>2. ASSUME NEW o \in Offerings, NEW t \in Sagas, InitiatePublication(o, t)
          PROVE  at'[s] = at[s]
      BY <1>0, <1>1, <2>1, <2>2, <3>2 DEF InitiatePublication
    <3>3. ASSUME NEW w \in Workers, CompleteTask(w) \/ ThrowBpmnError(w)
          PROVE  at'[s] = at[s]
      <4>1. Busy(w) /\ worker'[w] = Idle
        BY <1>0, <3>3, CallingBusy DEF CompleteTask, ThrowBpmnError
      <4>2. w # "pricing"
        BY <1>1, <2>1, <4>1 DEF TaskOf, Idle, Busy
      <4>3. TaskOf(w) # s
        BY <2>1, <4>1, <4>2 DEF Busy, Activity, TaskOf
      <4> QED BY <1>0, <3>3, <4>3 DEF CompleteTask, ThrowBpmnError, TaskOf
    <3> QED BY <1>1, <2>1, <3>1, <3>2, <3>3
  <2>6. Passed(s, p)
    BY <1>1, <2>3 DEF Passed
  <2>7. p \in PriceSet(offeringOf[s])
    <3>1. CASE worker["pricing"].pc = "call"
      <4>1. /\ worker["pricing"].i \in 1 .. Len(PricesOf[offeringOf[s]])
            /\ DOMAIN PricesOf[offeringOf[s]] = 1 .. Len(PricesOf[offeringOf[s]])
        BY <2>1, <2>3, <3>1, SagaAssumption DEF Busy, PriceCount, PricesOfTask, TaskOf
      <4> QED BY <2>6, <3>1, <4>1 DEF Passed, PriceSet
    <3> QED BY <2>6, <3>1 DEF Passed
  <2>8. StillHolds(s, p)
    BY <1>0, <2>1, <2>5, <2>6 DEF LockProgress
  <2> QED BY <1>1, <2>1, <2>4, <2>7, <2>8, KeptStep
<1>2. ASSUME NEW t \in Sagas, FetchAndLock("pricing", t)
      PROVE  FALSE
  <2>1. worker'["pricing"].pc = "call" /\ worker'["pricing"].i = 1
    BY <1>0, <1>2 DEF FetchAndLock
  <2> QED BY <2>1 DEF Passed
<1>3. CASE Answered("pricing")
  <2>1. PICK ok \in BOOLEAN : Request(CallOf("pricing"), ok) /\ Continue("pricing", ok)
    BY <1>3 DEF Answered
  <2>2. Calling("pricing") /\ UNCHANGED <<at, offeringOf>>
    BY <1>3 DEF Answered, camundaVars
  <2>4. TaskOf("pricing") = s
    BY <1>0, <2>1 DEF Continue, NextCall, RollBackLocks, Goto, TaskOf
  <2>3. Busy("pricing") /\ offeringOf[s] \in Offerings
    BY <1>0, <2>2, <2>4, CallingBusy DEF Calling
  <2>5. Activity("pricing") = "LockPrices"
    BY <2>2, <2>4 DEF Activity, TaskOf
  <2>6. CASE worker["pricing"].pc = "rollback"
    <3>1. worker'["pricing"].pc \in {"rollback", "bpmnError"}
      BY <1>0, <2>1, <2>6 DEF Continue, NextCall, Goto
    <3> QED BY <3>1 DEF Passed
  <2>7. CASE worker["pricing"].pc = "call" /\ ~ok
    <3>1. worker'["pricing"].pc \in {"rollback", "bpmnError"}
      BY <1>0, <2>1, <2>5, <2>7 DEF Continue, RollBackLocks, Goto
    <3> QED BY <3>1 DEF Passed
  <2>8. CASE worker["pricing"].pc = "call" /\ ok
    <3> DEFINE i == worker["pricing"].i
               k == Len(PricesOf[offeringOf[s]])
    <3>1. i \in 1 .. k /\ k \in Nat /\ i \in Nat
      BY <1>0, <2>3, <2>4, <2>8, PricesNonEmpty DEF Busy, PriceCount, PricesOfTask, TaskOf
    <3>2. NextCall("pricing", k, "complete")
      BY <2>1, <2>4, <2>5, <2>8 DEF Continue, PricesOfTask, TaskOf
    <3>3. LockPrice(PricesOf[offeringOf[s]][i], s, TRUE)
      <4>1. CallOf("pricing").op = "lock" /\ CallOf("pricing").saga = s
            /\ CallOf("pricing").price = PricesOf[offeringOf[s]][i]
        BY <2>4, <2>5, <2>8 DEF CallOf, OpOf, PricesOfTask, TaskOf
      <4> QED BY <2>1, <2>8, <4>1 DEF Request
    <3>4. PricesOf[offeringOf[s]][i] \in Prices
      BY <2>3, <3>1, PriceAt
    <3>5. PICK j \in 1 .. i : PricesOf[offeringOf[s]][j] = p
      <4>1. worker'["pricing"].i = i + 1 \/ (i = k /\ worker'["pricing"].pc = "complete")
        BY <1>0, <2>8, <3>1, <3>2 DEF NextCall, Goto
      <4>2. DOMAIN PricesOf[offeringOf[s]] = 1 .. k
        BY <2>3, SagaAssumption
      <4>3. worker'["pricing"].pc = "complete" => i = k
        BY <1>0, <2>8, <3>1, <3>2 DEF NextCall, Goto
      <4> QED BY <2>2, <3>1, <4>1, <4>2, <4>3 DEF Passed, PriceSet
    <3>6. lockedBy' = [lockedBy EXCEPT ![PricesOf[offeringOf[s]][i]] = s]
      BY <3>3 DEF LockPrice
    <3>7. CASE lockedBy[p] = s \/ j = i
      BY <1>0, <3>4, <3>5, <3>6, <3>7 DEF StillHolds
    <3>8. CASE lockedBy[p] # s /\ j # i
      <4>1. Passed(s, p)
        BY <2>8, <3>1, <3>5, <3>8 DEF Passed
      <4>2. Contested(s, p)
        BY <1>0, <2>4, <2>5, <3>8, <4>1 DEF LockProgress, Activity, TaskOf, StillHolds
      <4>3. Owns(s)
        BY <2>4, <2>5 DEF Owns, Activity, TaskOf, Activities, Forward, Compensation
      <4> QED BY <4>2, <4>3, ContestedKept DEF LocksInv, StillHolds
    <3> QED BY <3>7, <3>8
  <2> QED BY <2>2, <2>6, <2>7, <2>8 DEF Calling
<1>4. CASE Refused("pricing") \/ Broken("pricing")
  <2>1. Calling("pricing") /\ at' = at
    BY <1>4 DEF Refused, Broken, camundaVars
  <2>2. Continue("pricing", FALSE) \/ Raise("pricing")
    BY <1>4 DEF Refused, Broken
  <2>3. worker'["pricing"].task = worker["pricing"].task
    BY <1>0, <2>2 DEF Continue, Raise, NextCall, RollBackLocks, Goto
  <2>4. Activity("pricing") = "LockPrices"
    BY <2>1, <2>3 DEF Activity, TaskOf
  <2>5. worker'["pricing"].pc \in {"rollback", "bpmnError", "fail"}
    BY <1>0, <2>1, <2>2, <2>4 DEF Continue, Raise, NextCall, RollBackLocks, Goto, Calling
  <2> QED BY <2>5 DEF Passed
<1>5. CASE SyncSwallowed("pricing")
  <2>1. Busy("pricing")
    BY <1>0, <1>5, CallingBusy DEF SyncSwallowed, Calling
  <2>2. CallOf("pricing").op # "sync"
    BY <2>1 DEF CallOf, OpOf, Busy, WorkerOf, Activities, Forward, Compensation
  <2> QED BY <1>5, <2>2 DEF SyncSwallowed
<1>6. CASE CompleteTask("pricing") \/ ThrowBpmnError("pricing") \/ FailTask("pricing")
  <2>1. worker'["pricing"] = Idle
    BY <1>0, <1>6 DEF CompleteTask, ThrowBpmnError, FailTask
  <2> QED BY <1>0, <2>1 DEF TaskOf, Idle
<1>7. CASE \/ UNCHANGED worker
           \/ \E w \in Workers \ {"pricing"}, t \in Sagas : FetchAndLock(w, t)
           \/ \E w \in Workers \ {"pricing"} :
                 \/ Answered(w) \/ Refused(w) \/ SyncSwallowed(w) \/ Broken(w)
                 \/ CompleteTask(w) \/ ThrowBpmnError(w) \/ FailTask(w)
  <2>1. ASSUME NEW w \in Workers \ {"pricing"}, NEW ok,
               Continue(w, ok) \/ Raise(w)
        PROVE  worker'["pricing"] = worker["pricing"]
    BY <1>0, <2>1 DEF Continue, Raise, NextCall, RollBackLocks, Goto
  <2>2. worker'["pricing"] = worker["pricing"]
    BY <1>0, <1>7, <2>1
      DEF FetchAndLock, Answered, Refused, SyncSwallowed, Broken, CompleteTask, ThrowBpmnError, FailTask
  <2> QED BY <1>1, <1>3, <2>2
<1> QED BY <1>0, <1>2, <1>3, <1>4, <1>5, <1>6, <1>7, OrderlyStep
      DEF vars, InitiatePublication, InitiateWithoutSaga, CommitPublication,
          RetireOffering, ConsumeOfferingEvent, TokenExpires

\* Two workers never handle the same task, so an incident's task is no one's.
LEMMA NoIncidentStep ==
    ASSUME Faults \subseteq OrderlyFaults, OwnersInv, [Next]_vars
    PROVE  NoIncidentHandled'
<1>0. /\ TypeInv /\ NoIncidentHandled /\ late = {} /\ NoSaga \notin Sagas
      /\ incident \subseteq Sagas
      /\ worker \in [Workers -> [task : Sagas \union {NoSaga}, pc : Pcs, i : Nat, n : Nat]]
  BY SagaAssumption DEF OwnersInv, TypeInv, TypeOK
<1>1. CASE UNCHANGED <<incident, worker>>
  BY <1>0, <1>1 DEF NoIncidentHandled, TaskOf
<1>2. ASSUME NEW w \in Workers, NEW s \in Sagas, FetchAndLock(w, s)
      PROVE  NoIncidentHandled'
  BY <1>0, <1>2 DEF FetchAndLock, camundaVars, NoIncidentHandled, TaskOf
<1>3. ASSUME NEW w \in Workers, Answered(w) \/ Refused(w) \/ SyncSwallowed(w) \/ Broken(w)
      PROVE  NoIncidentHandled'
  <2>1. incident' = incident
    BY <1>3 DEF Answered, Refused, SyncSwallowed, Broken, camundaVars
  <2>2. \E pc, i, n : Goto(w, pc, i, n)
    BY <1>3 DEF Answered, Refused, SyncSwallowed, Broken, Continue, Raise, NextCall, RollBackLocks
  <2>3. \A v \in Workers : worker'[v].task = worker[v].task
    BY <1>0, <2>2 DEF Goto
  <2> QED BY <1>0, <2>1, <2>3 DEF NoIncidentHandled, TaskOf
<1>4. ASSUME NEW w \in Workers, CompleteTask(w) \/ ThrowBpmnError(w) \/ FailTask(w)
      PROVE  NoIncidentHandled'
  <2>1. Busy(w) /\ worker' = [worker EXCEPT ![w] = Idle]
    BY <1>0, <1>4, CallingBusy DEF CompleteTask, ThrowBpmnError, FailTask
  <2>2. incident' \subseteq incident \union {TaskOf(w)}
    BY <1>4 DEF CompleteTask, ThrowBpmnError, FailTask, TaskOf
  <2>3. ASSUME NEW v \in Workers
        PROVE  TaskOf(v)' \notin incident'
    <3>1. CASE v = w
      BY <1>0, <2>1, <2>2, <3>1 DEF Busy, TaskOf, Idle
    <3>2. CASE v # w
      <4>1. worker'[v] = worker[v]
        BY <1>0, <2>1, <3>2
      <4>2. TaskOf(v) # TaskOf(w)
        BY <1>0, <2>1, <3>2 DEF TypeInv, WorkersOK, Busy, Activity, TaskOf, Idle
      <4> QED BY <1>0, <2>2, <4>1, <4>2 DEF NoIncidentHandled, TaskOf
    <3> QED BY <3>1, <3>2
  <2> QED BY <2>3 DEF NoIncidentHandled
<1> QED BY <1>0, <1>1, <1>2, <1>3, <1>4, OrderlyStep
      DEF vars, camundaVars, InitiatePublication, InitiateWithoutSaga, CommitPublication,
          RetireOffering, ConsumeOfferingEvent, TokenExpires

LEMMA OneOwnerStep ==
    ASSUME Faults \subseteq OrderlyFaults, OwnersInv, [Next]_vars
    PROVE  OneOwner'
<1>0. /\ TypeInv /\ OneOwner /\ OwnersNotDraft
      /\ at \in [Sagas -> Activities \union Ends \union {"NotStarted"}]
      /\ offeringOf \in [Sagas -> Offerings \union {NoOffering}]
  BY DEF OwnersInv, TypeInv, TypeOK
<1>1. ASSUME NEW s \in Sagas, Owns(s)
      PROVE  offeringOf'[s] = offeringOf[s]
  BY <1>0, <1>1, OfferingsKept
    DEF Owns, Reverting, Activities, Forward, Compensation
\* A saga that starts now finds its offering owned by none.
<1>2. ASSUME NEW s \in Sagas, NEW t \in Sagas, s # t, Owns(t)',
             NEW o \in Offerings, InitiatePublication(o, s)
      PROVE  offeringOf'[s] # offeringOf'[t]
  <2>1. offeringOf'[s] = o /\ status[o] = "DRAFT" /\ o \notin committing
    BY <1>0, <1>2 DEF InitiatePublication
  <2>2. ~\E q \in Offerings : InitiatePublication(q, t)
    BY <1>0, <1>2 DEF InitiatePublication
  <2>3. Owns(t)
    BY <1>2, <2>2, OwnsStep
  <2> QED BY <1>0, <1>1, <2>1, <2>3 DEF OwnersNotDraft
<1>3. ASSUME NEW s \in Sagas, NEW t \in Sagas, s # t, Owns(s)', Owns(t)'
      PROVE  offeringOf'[s] # offeringOf'[t]
  <2>1. CASE Owns(s) /\ Owns(t)
    BY <1>0, <1>1, <1>3, <2>1 DEF OneOwner
  <2>2. CASE ~Owns(s)
    <3>1. PICK o \in Offerings : InitiatePublication(o, s)
      BY <1>3, <2>2, OwnsStep
    <3> QED BY <1>2, <1>3, <3>1
  <2>3. CASE ~Owns(t)
    <3>1. PICK o \in Offerings : InitiatePublication(o, t)
      BY <1>3, <2>3, OwnsStep
    <3> QED BY <1>2, <1>3, <3>1
  <2> QED BY <2>1, <2>2, <2>3
<1> QED BY <1>3 DEF OneOwner, Owns, Reverting, TaskOf

\* Only the revert task of the saga that owns the offering makes it a DRAFT,
\* and with that answer the saga owns it no longer.
LEMMA ToDraft ==
    ASSUME Faults \subseteq OrderlyFaults, OwnersInv, [Next]_vars,
           NEW s \in Sagas, Owns(s), Owns(s)',
           status[offeringOf[s]] # "DRAFT"
    PROVE  status'[offeringOf[s]] # "DRAFT"
<1>0. /\ TypeInv /\ OneOwner /\ NoIncidentHandled /\ late = {} /\ "offering" \in Workers
      /\ offeringOf[s] \in Offerings
      /\ status \in [Offerings -> {"DRAFT", "PUBLISHING", "PUBLISHED", "RETIRED"}]
      /\ worker \in [Workers -> [task : Sagas \union {NoSaga}, pc : Pcs, i : Nat, n : Nat]]
  BY DEF OwnersInv, TypeInv, TypeOK, SagasOK, Workers, Owns, Reverting, Activities, Forward, Compensation
<1>1. ASSUME NEW w \in Workers, Answered(w), status' # status
      PROVE  status'[offeringOf[s]] # "DRAFT"
  <2>1. PICK ok \in BOOLEAN : Request(CallOf(w), ok) /\ Continue(w, ok) /\ Calling(w)
    BY <1>1 DEF Answered
  <2>2. Busy(w) /\ TaskOf(w) \in Sagas /\ offeringOf[TaskOf(w)] \in Offerings
    BY <1>0, <2>1, CallingBusy DEF Calling, Busy
  <2>3. CASE CallOf(w).op = "fail"
    <3>1. w = "offering" /\ Activity(w) = "RevertToDraft" /\ worker[w].pc = "call"
      BY <2>1, <2>2, <2>3
        DEF CallOf, OpOf, Busy, WorkerOf, Activities, Forward, Compensation, Calling
    <3>2. Owns(TaskOf(w))
      BY <1>0, <3>1 DEF Owns, Reverting, NoIncidentHandled, Activity, TaskOf
    <3>3. CASE TaskOf(w) = s
      <4>1. worker'["offering"].pc = "complete" /\ worker'["offering"].task = s
        BY <1>0, <2>1, <3>1, <3>3 DEF Continue, Goto, TaskOf, Compensation
      <4>2. at'[s] = "RevertToDraft"
        BY <1>1, <3>1, <3>3 DEF Answered, camundaVars, Activity, TaskOf
      <4> QED BY <4>1, <4>2 DEF Owns, Reverting, TaskOf
    <3>4. CASE TaskOf(w) # s
      <4>1. offeringOf[TaskOf(w)] # offeringOf[s]
        BY <1>0, <2>2, <3>2, <3>4 DEF OneOwner
      <4>2. CallOf(w).saga = TaskOf(w)
        BY DEF CallOf, TaskOf
      <4>3. status'[offeringOf[s]] = status[offeringOf[s]]
        BY <1>0, <2>1, <2>3, <4>1, <4>2 DEF Request, FailPublication
      <4> QED BY <4>3
    <3> QED BY <3>3, <3>4
  <2>4. CASE CallOf(w).op # "fail"
    <3>1. CallOf(w).op = "confirm" /\ status' = [status EXCEPT ![offeringOf[CallOf(w).saga]] = "PUBLISHED"]
      BY <1>1, <2>1, <2>4
        DEF Request, LockPrice, UnlockPrice, ValidateSpecifications, SyncOffering,
            DeleteOfferingRead, ConfirmPublication, serviceVars
    <3> QED BY <1>0, <3>1
  <2> QED BY <2>3, <2>4
<1>2. ASSUME NEW o \in Offerings, CommitPublication(o) \/ RetireOffering(o)
      PROVE  status'[offeringOf[s]] # "DRAFT"
  BY <1>0, <1>2 DEF CommitPublication, RetireOffering
<1>3. CASE status' = status
  BY <1>3
<1> QED BY <1>0, <1>1, <1>2, <1>3, OrderlyStep
      DEF vars, offeringVars, serviceVars, InitiatePublication, InitiateWithoutSaga,
          ConsumeOfferingEvent, FetchAndLock, Refused, SyncSwallowed, Broken, CompleteTask,
          ThrowBpmnError, FailTask, TokenExpires

LEMMA OwnersNotDraftStep ==
    ASSUME Faults \subseteq OrderlyFaults, OwnersInv, [Next]_vars
    PROVE  OwnersNotDraft'
<1>0. /\ TypeInv /\ CommittingDraft /\ OwnersNotDraft /\ late = {}
      /\ status \in [Offerings -> {"DRAFT", "PUBLISHING", "PUBLISHED", "RETIRED"}]
      /\ committing \subseteq Offerings
      /\ offeringOf \in [Sagas -> Offerings \union {NoOffering}]
  BY DEF OwnersInv, TypeInv, TypeOK
<1>1. ASSUME NEW s \in Sagas, Owns(s)'
      PROVE  offeringOf'[s] \in committing' \/ status'[offeringOf'[s]] # "DRAFT"
  <2>1. CASE Owns(s)
    <3>1. offeringOf'[s] = offeringOf[s] /\ offeringOf[s] \in Offerings
      BY <1>0, <2>1, OfferingsKept
        DEF TypeInv, SagasOK, Owns, Reverting, Activities, Forward, Compensation
    <3>2. CASE status[offeringOf[s]] # "DRAFT"
      BY <1>1, <2>1, <3>1, <3>2, ToDraft
    <3>3. CASE offeringOf[s] \in committing
      <4>1. ASSUME NEW o \in Offerings, CommitPublication(o)
            PROVE  offeringOf[s] \in committing' \/ status'[offeringOf[s]] # "DRAFT"
        BY <1>0, <3>1, <3>3, <4>1 DEF CommitPublication
      <4>2. (\A o \in Offerings : ~CommitPublication(o)) => committing \subseteq committing'
        BY <1>0, OrderlyStep
          DEF vars, offeringVars, InitiatePublication, InitiateWithoutSaga,
              RetireOffering, ConsumeOfferingEvent, FetchAndLock, Answered, Refused,
              SyncSwallowed, Broken, CompleteTask, ThrowBpmnError, FailTask, TokenExpires
      <4> QED BY <3>1, <3>3, <4>1, <4>2
    <3> QED BY <1>0, <2>1, <3>2, <3>3 DEF OwnersNotDraft
  <2>2. CASE ~Owns(s)
    <3>1. PICK o \in Offerings : InitiatePublication(o, s)
      BY <1>1, <2>2, OwnsStep
    <3> QED BY <1>0, <3>1 DEF InitiatePublication
  <2> QED BY <2>1, <2>2
<1> QED BY <1>1 DEF OwnersNotDraft, Owns, Reverting, TaskOf

LEMMA LockedStep ==
    ASSUME Faults \subseteq OrderlyFaults, LocksInv, [Next]_vars
    PROVE  PricesStayLocked'
<1> DEFINE Locked == {"ValidateSpecs", "CreateStoreEntry", "ConfirmPublication", "EndEvent_1"}
<1>0. /\ TypeInv /\ LockProgress /\ PricesStayLocked /\ late = {}
      /\ at \in [Sagas -> Activities \union Ends \union {"NotStarted"}]
      /\ offeringOf \in [Sagas -> Offerings \union {NoOffering}]
  BY DEF LocksInv, OwnersInv, TypeInv, TypeOK
<1>1. ASSUME NEW s \in Sagas, at'[s] \in Locked
      PROVE  KeepsItsPrices(s)'
  <2>1. CASE at[s] \in Locked
    <3>1. offeringOf'[s] = offeringOf[s] /\ Owns(s) /\ KeepsItsPrices(s)
      BY <1>0, <2>1, OfferingsKept
        DEF Owns, Activities, Forward, Compensation, PricesStayLocked
    <3>2. ~(TaskOf("pricing") = s /\ Answered("pricing"))
      <4>1. SUFFICES ASSUME Answered("pricing")
                     PROVE  TaskOf("pricing") # s
        OBVIOUS
      <4>2. Busy("pricing")
        BY <1>0, <4>1, CallingBusy DEF Answered, Calling, Workers
      <4> QED BY <2>1, <4>2 DEF Busy, Activity, TaskOf, WorkerOf, Activities, Forward, Compensation
    <3>3. ASSUME NEW p \in PriceSet(offeringOf[s])
          PROVE  StillHolds(s, p)'
      BY <3>1, <3>2, <3>3, KeptStep DEF KeepsItsPrices
    <3> QED BY <3>1, <3>3 DEF KeepsItsPrices
  <2>2. CASE at[s] \notin Locked
    <3>1. ASSUME NEW w \in Workers, CompleteTask(w) \/ ThrowBpmnError(w)
          PROVE  KeepsItsPrices(s)'
      <4>1. Busy(w) /\ TaskOf(w) \in Sagas
        BY <1>0, <3>1, CallingBusy DEF CompleteTask, ThrowBpmnError, Busy
      <4>2. TaskOf(w) = s
        BY <1>0, <1>1, <2>2, <3>1 DEF CompleteTask, ThrowBpmnError, TaskOf
      <4>3. CASE ThrowBpmnError(w)
        <5>1. at'[s] = OnError[Activity(w)] /\ Activity(w) \in Forward
          BY <1>0, <4>1, <4>2, <4>3 DEF ThrowBpmnError, TaskOf, Busy
        <5> QED BY <1>1, <5>1 DEF OnError, Forward
      <4>4. CASE CompleteTask(w)
        <5>1. at'[s] = OnComplete[Activity(w)] /\ Activity(w) = at[s]
          BY <1>0, <4>1, <4>2, <4>4 DEF CompleteTask, TaskOf, Activity
        <5>2. at[s] = "LockPrices" /\ w = "pricing"
          BY <1>1, <2>2, <4>1, <5>1
            DEF OnComplete, Busy, WorkerOf, Activities, Forward, Compensation
        <5>3. offeringOf'[s] = offeringOf[s] /\ Owns(s) /\ offeringOf[s] \in Offerings
          BY <1>0, <5>2, OfferingsKept
            DEF Owns, Activities, Forward, Compensation, TypeInv, SagasOK
        <5>4. ASSUME NEW p \in PriceSet(offeringOf[s])
              PROVE  StillHolds(s, p)'
          <6>1. p \in Prices
            BY <5>3, SagaAssumption DEF PriceSet
          <6>2. StillHolds(s, p)
            BY <1>0, <4>2, <4>4, <5>2, <6>1 DEF LockProgress, Passed, CompleteTask
          <6>3. ~Answered("pricing")
            BY <4>4, <5>2 DEF CompleteTask, Answered, Calling
          <6> QED BY <5>3, <6>2, <6>3, KeptStep
        <5> QED BY <5>3, <5>4 DEF KeepsItsPrices
      <4> QED BY <3>1, <4>3, <4>4
    <3>2. ASSUME NEW o \in Offerings, NEW t \in Sagas, InitiatePublication(o, t)
          PROVE  FALSE
      BY <1>0, <1>1, <2>2, <3>2 DEF InitiatePublication
    <3>3. at' # at
      BY <1>1, <2>2
    <3> QED BY <1>0, <3>1, <3>2, <3>3, OrderlyStep
          DEF vars, camundaVars, InitiateWithoutSaga, CommitPublication, RetireOffering,
              ConsumeOfferingEvent, FetchAndLock, Answered, Refused, SyncSwallowed,
              Broken, FailTask, TokenExpires
  <2> QED BY <2>1, <2>2
<1> QED BY <1>1 DEF PricesStayLocked

LEMMA OwnersInitially == Init => OwnersInv
<1> SUFFICES ASSUME Init
             PROVE  OwnersInv
  OBVIOUS
<1>1. TypeInv /\ CommittingDraft /\ late = {}
  BY TypeInit DEF Init, CommittingDraft
<1>2. \A s \in Sagas : at[s] = "NotStarted"
  BY DEF Init
<1>3. \A w \in Workers : TaskOf(w) \notin incident
  BY DEF Init, TaskOf
<1> QED BY <1>1, <1>2, <1>3
      DEF OwnersInv, NoIncidentHandled, OneOwner, OwnersNotDraft, Owns, Reverting,
          Activities, Forward, Compensation

LEMMA OwnersStep ==
    ASSUME Faults \subseteq OrderlyFaults, OwnersInv, [Next]_vars
    PROVE  OwnersInv'
<1>1. TypeInv' /\ CommittingDraft'
  BY TypeStep, CommittingStep DEF OwnersInv
<1>2. late' = {}
  BY OrderlyStep DEF OwnersInv
<1> QED BY <1>1, <1>2, NoIncidentStep, OneOwnerStep, OwnersNotDraftStep DEF OwnersInv

LEMMA LocksInitially == Init => LocksInv
<1> SUFFICES ASSUME Init
             PROVE  LocksInv
  OBVIOUS
<1>1. \A s \in Sagas : at[s] = "NotStarted"
  BY DEF Init
<1>2. TaskOf("pricing") \notin Sagas
  BY SagaAssumption DEF Init, TaskOf, Idle, Workers
<1> QED BY <1>1, <1>2, OwnersInitially DEF LocksInv, LockProgress, PricesStayLocked

LEMMA LocksStep ==
    ASSUME Faults \subseteq OrderlyFaults, LocksInv, [Next]_vars
    PROVE  LocksInv'
<1>1. OwnersInv'
  BY OwnersStep DEF LocksInv
<1> QED BY <1>1, LockProgressStep, LockedStep DEF LocksInv

\* A saga past lock-prices keeps the locks of its prices, and for ever after a
\* success, but for those that the failed publication of another offering lists
\* too, under every fault that leaves no request running behind its client's back
\* and repeats no task.
THEOREM LocksAreKept ==
    ASSUME Faults \subseteq OrderlyFaults
    PROVE  Spec => []PricesStayLocked
<1>1. Init => LocksInv
  BY LocksInitially
<1>2. LocksInv /\ [Next]_vars => LocksInv'
  BY LocksStep
<1>3. LocksInv => PricesStayLocked
  BY DEF LocksInv
<1> QED BY <1>1, <1>2, <1>3, PTL DEF Spec

\* The confirm of an orderly run comes from the offering worker, whose task is at
\* confirm-publication and so, by PricesStayLocked, holds its prices.
LEMMA ConfirmerIsLocked ==
    ASSUME Faults \subseteq OrderlyFaults, LocksInv, [Next]_vars, NEW o \in Offerings,
           status[o] # "PUBLISHED", status'[o] = "PUBLISHED"
    PROVE  \E s \in Sagas : /\ offeringOf[s] = o
                             /\ at[s] = "ConfirmPublication"
                             /\ KeepsItsPrices(s)
<1>0. /\ TypeInv /\ PricesStayLocked /\ late = {}
      /\ status \in [Offerings -> {"DRAFT", "PUBLISHING", "PUBLISHED", "RETIRED"}]
  BY DEF LocksInv, OwnersInv, TypeInv, TypeOK
<1>1. ASSUME NEW w \in Workers, Answered(w)
      PROVE  \E s \in Sagas : /\ offeringOf[s] = o
                               /\ at[s] = "ConfirmPublication"
                               /\ KeepsItsPrices(s)
  <2>1. PICK ok \in BOOLEAN : Request(CallOf(w), ok) /\ Calling(w)
    BY <1>1 DEF Answered
  <2>2. Busy(w) /\ TaskOf(w) \in Sagas /\ CallOf(w).saga = TaskOf(w)
    BY <1>0, <2>1, CallingBusy DEF Calling, Busy, CallOf, TaskOf
  <2>3. CallOf(w).op = "confirm" /\ offeringOf[TaskOf(w)] = o
    BY <1>0, <2>1, <2>2, RequestStatus DEF Writes
  <2>4. at[TaskOf(w)] = "ConfirmPublication"
    BY <2>2, <2>3
      DEF CallOf, OpOf, Busy, Activity, TaskOf, Activities, Forward, Compensation
  <2>5. KeepsItsPrices(TaskOf(w))
    BY <1>0, <2>2, <2>4 DEF PricesStayLocked
  <2> QED BY <2>2, <2>3, <2>4, <2>5
<1>2. ASSUME NEW q \in Offerings, CommitPublication(q) \/ RetireOffering(q)
      PROVE  FALSE
  BY <1>0, <1>2 DEF CommitPublication, RetireOffering
<1>3. status' # status
  OBVIOUS
<1> QED BY <1>0, <1>1, <1>2, <1>3, OrderlyStep
      DEF vars, offeringVars, serviceVars, InitiatePublication, InitiateWithoutSaga,
          ConsumeOfferingEvent, FetchAndLock, Refused, SyncSwallowed, Broken, CompleteTask,
          ThrowBpmnError, FailTask, TokenExpires

\* Under the same assumption an offering becomes PUBLISHED only by a saga of its own
\* that holds all its prices at that moment, the contested ones excepted (camunda:
\* lock-prices comes first).
THEOREM PublishesUnderLock ==
    ASSUME Faults \subseteq OrderlyFaults
    PROVE  Spec => PublishedUnderLock
<1>1. Init => LocksInv
  BY LocksInitially
<1>2. LocksInv /\ [Next]_vars => LocksInv'
  BY LocksStep
<1>3. LocksInv /\ [Next]_vars =>
          [\A o \in Offerings : status[o] # "PUBLISHED" /\ status'[o] = "PUBLISHED" =>
              \E s \in Sagas : /\ offeringOf[s] = o
                               /\ at[s] = "ConfirmPublication"
                               /\ KeepsItsPrices(s)]_vars
  BY ConfirmerIsLocked
<1> QED BY <1>1, <1>2, <1>3, PTL DEF Spec, PublishedUnderLock

-----------------------------------------------------------------------------
(* What needs the owners only.                                             *)

\* Under orderly faults no two sagas of an offering run at once, but for the last
\* task of one that has failed: its answer has already allowed the next publish.
THEOREM SagasTakeTurns ==
    ASSUME Faults \subseteq OrderlyFaults
    PROVE  Spec => []OneSagaAtATime
<1>1. Init => OwnersInv
  BY OwnersInitially
<1>2. OwnersInv /\ [Next]_vars => OwnersInv'
  BY OwnersStep
<1>3. OwnersInv => OneSagaAtATime
  <2> SUFFICES ASSUME OwnersInv, NEW s \in Sagas, NEW t \in Sagas,
                      s # t, offeringOf[s] = offeringOf[t], Live(s), Live(t),
                      "RevertToDraft" \notin {at[s], at[t]}
               PROVE  FALSE
    BY DEF OneSagaAtATime
  <2> QED BY DEF OwnersInv, OneOwner, Owns, Live
<1> QED BY <1>1, <1>2, <1>3, PTL DEF Spec

\* The offering worker's fail request comes from the one owner of the offering,
\* which is at revert-offering-to-draft: no other saga of it is under way.
LEMMA RevertedByItsOwner ==
    ASSUME Faults \subseteq OrderlyFaults, OwnersInv, [Next]_vars, NEW o \in Offerings,
           status[o] = "PUBLISHING", status'[o] = "DRAFT",
           NEW s \in Sagas, offeringOf[s] = o, at[s] \in Forward
    PROVE  FALSE
<1>1. Owns(s) /\ at[s] # "RevertToDraft"
  BY DEF Owns, Activities, Forward
<1>2. ~Owns(s)'
  BY <1>1, ToDraft
<1>3. /\ TypeInv /\ at \in [Sagas -> Activities \union Ends \union {"NotStarted"}]
      /\ status \in [Offerings -> {"DRAFT", "PUBLISHING", "PUBLISHED", "RETIRED"}]
  BY DEF OwnersInv, TypeInv, TypeOK
<1>4. at' # at
  BY <1>1, <1>2 DEF Owns, Activities, Forward
<1>5. status' # status
  BY <1>3
<1> QED BY <1>4, <1>5, OrderlyStep DEF OwnersInv,
      vars, offeringVars, camundaVars, serviceVars, InitiatePublication, InitiateWithoutSaga,
      CommitPublication, RetireOffering, ConsumeOfferingEvent, FetchAndLock, Answered, Refused,
      SyncSwallowed, Broken, CompleteTask, ThrowBpmnError, FailTask, TokenExpires

\* Under orderly faults an offering goes back to DRAFT only when no saga of it is on
\* its way forward.
THEOREM RevertsAreOwn ==
    ASSUME Faults \subseteq OrderlyFaults
    PROVE  Spec => RevertOnlyOnFailure
<1>1. Init => OwnersInv
  BY OwnersInitially
<1>2. OwnersInv /\ [Next]_vars => OwnersInv'
  BY OwnersStep
<1>3. OwnersInv /\ [Next]_vars =>
          [\A o \in Offerings : status[o] = "PUBLISHING" /\ status'[o] = "DRAFT" =>
              \A s \in Sagas : offeringOf[s] = o => at[s] \notin Forward]_vars
  BY RevertedByItsOwner
<1> QED BY <1>1, <1>2, <1>3, PTL DEF Spec, RevertOnlyOnFailure

\* Under orderly faults the answer to a confirm is not lost again: its worker stays
\* at the report, which nothing but the end of the saga takes away.
LEMMA ConfirmedStays ==
    ASSUME Faults \subseteq OrderlyFaults, late = {}, TypeInv, [Next]_vars,
           NEW s \in Sagas, Confirmed(s)
    PROVE  Confirmed(s)'
<1>0. /\ at \in [Sagas -> Activities \union Ends \union {"NotStarted"}]
      /\ worker \in [Workers -> [task : Sagas \union {NoSaga}, pc : Pcs, i : Nat, n : Nat]]
      /\ "offering" \in Workers /\ at[s] # "NotStarted"
  BY DEF TypeInv, TypeOK, Workers, Confirmed
<1> USE DEF TaskOf
<1>1. CASE UNCHANGED <<at, worker>>
  BY <1>1 DEF Confirmed
<1>2. ASSUME NEW o \in Offerings, NEW t \in Sagas, InitiatePublication(o, t)
      PROVE  Confirmed(s)'
  BY <1>0, <1>2 DEF InitiatePublication, Confirmed
<1>3. ASSUME NEW w \in Workers, NEW t \in Sagas, FetchAndLock(w, t)
      PROVE  Confirmed(s)'
  BY <1>0, <1>3 DEF FetchAndLock, Confirmed, Idle, camundaVars
<1>4. ASSUME NEW w \in Workers, worker[w].pc # "complete", UNCHANGED at,
             \A v \in Workers \ {w} : worker'[v] = worker[v]
      PROVE  Confirmed(s)'
  BY <1>0, <1>4 DEF Confirmed
<1>5. ASSUME NEW w \in Workers, Answered(w) \/ Refused(w) \/ SyncSwallowed(w) \/ Broken(w)
      PROVE  Confirmed(s)'
  <2>1. Calling(w) /\ UNCHANGED at
    BY <1>5 DEF Answered, Refused, SyncSwallowed, Broken, camundaVars
  <2>2. \E pc, i, n : Goto(w, pc, i, n)
    BY <1>5 DEF Answered, Refused, SyncSwallowed, Broken, Continue, Raise, NextCall, RollBackLocks
  <2>3. \A v \in Workers \ {w} : worker'[v] = worker[v]
    BY <1>0, <2>2 DEF Goto
  <2> QED BY <1>4, <2>1, <2>3 DEF Calling
<1>6. ASSUME NEW w \in Workers, FailTask(w)
      PROVE  Confirmed(s)'
  <2>1. /\ worker[w].pc # "complete" /\ UNCHANGED at
        /\ \A v \in Workers \ {w} : worker'[v] = worker[v]
    BY <1>0, <1>6 DEF FailTask
  <2> QED BY <1>4, <2>1
<1>7. ASSUME NEW w \in Workers, CompleteTask(w) \/ ThrowBpmnError(w)
      PROVE  Confirmed(s)'
  <2>1. Busy(w)
    BY <1>7, CallingBusy DEF CompleteTask, ThrowBpmnError
  <2>2. worker' = [worker EXCEPT ![w] = Idle]
    BY <1>7 DEF CompleteTask, ThrowBpmnError
  <2>3. PICK a : at' = [at EXCEPT ![TaskOf(w)] = a]
    BY <1>7 DEF CompleteTask, ThrowBpmnError
  <2>4. CASE TaskOf(w) = s
    <3>1. at[s] = "ConfirmPublication" /\ w = "offering" /\ worker[w].pc = "complete"
      BY <2>1, <2>4
        DEF Confirmed, Busy, Activity, WorkerOf, Activities, Forward, Compensation
    <3>2. at'[s] = OnComplete["ConfirmPublication"]
      BY <1>0, <1>7, <2>4, <3>1 DEF CompleteTask, ThrowBpmnError, Activity
    <3> QED BY <3>2 DEF OnComplete, Confirmed
  <2>5. CASE TaskOf(w) # s
    <3>1. at'[s] = at[s]
      BY <1>0, <2>3, <2>5
    <3>2. TaskOf("offering") = s => worker'["offering"] = worker["offering"]
      BY <1>0, <2>2, <2>5
    <3> QED BY <3>1, <3>2 DEF Confirmed
  <2> QED BY <2>4, <2>5
<1> QED BY <1>0, <1>1, <1>2, <1>3, <1>5, <1>6, <1>7, OrderlyStep
      DEF vars, camundaVars, InitiateWithoutSaga, CommitPublication, RetireOffering,
          ConsumeOfferingEvent, TokenExpires

\* A confirm that a service grants is the offering worker's, and leaves it at the
\* report of a success.
LEMMA ConfirmerIsConfirmed ==
    ASSUME Faults \subseteq OrderlyFaults, late = {}, TypeInv, [Next]_vars,
           NEW o \in Offerings, Writes(o, "PUBLISHING", "PUBLISHED")
    PROVE  \E s \in Sagas : offeringOf[s] = o /\ at[s] # "NotStarted" /\ Confirmed(s)'
<1>0. /\ status \in [Offerings -> {"DRAFT", "PUBLISHING", "PUBLISHED", "RETIRED"}]
      /\ worker \in [Workers -> [task : Sagas \union {NoSaga}, pc : Pcs, i : Nat, n : Nat]]
  BY DEF TypeInv, TypeOK
<1>1. status[o] # "PUBLISHED" /\ status'[o] = "PUBLISHED"
  BY <1>0 DEF Writes
<1>2. ASSUME NEW w \in Workers, Answered(w)
      PROVE  \E s \in Sagas : offeringOf[s] = o /\ at[s] # "NotStarted" /\ Confirmed(s)'
  <2>1. PICK ok \in BOOLEAN : Request(CallOf(w), ok) /\ Continue(w, ok) /\ Calling(w)
    BY <1>2 DEF Answered
  <2>2. Busy(w) /\ TaskOf(w) \in Sagas /\ CallOf(w).saga = TaskOf(w)
    BY <2>1, CallingBusy DEF Calling, Busy, CallOf, TaskOf
  <2>3. CallOf(w).op = "confirm" /\ offeringOf[TaskOf(w)] = o
    <3> DEFINE q == offeringOf[TaskOf(w)]
    <3>1. \/ status' = status
          \/ Writes(q, "PUBLISHING", "DRAFT")
          \/ Writes(q, "PUBLISHING", "PUBLISHED") /\ CallOf(w).op = "confirm"
      BY <2>1, <2>2, RequestStatus
    <3>2. ~Writes(q, "PUBLISHING", "DRAFT")
      BY <1>0, <1>1 DEF Writes
    <3>3. Writes(q, "PUBLISHING", "PUBLISHED") => q = o
      BY <1>0, <1>1 DEF Writes
    <3> QED BY <1>1, <3>1, <3>2, <3>3
  <2>4. /\ at[TaskOf(w)] = "ConfirmPublication" /\ Activity(w) = "ConfirmPublication"
        /\ w = "offering" /\ worker[w].pc = "call"
    BY <2>1, <2>2, <2>3
      DEF CallOf, OpOf, Busy, Activity, TaskOf, WorkerOf, Activities, Forward, Compensation,
          Calling
  <2>5. ok
    <3>1. ConfirmPublication(o, ok)
      BY <2>1, <2>2, <2>3 DEF Request
    <3> QED BY <1>1, <3>1 DEF ConfirmPublication
  <2>6. worker'["offering"].pc = "complete" /\ worker'["offering"].task = TaskOf(w)
    BY <1>0, <2>1, <2>4, <2>5 DEF Continue, Goto, TaskOf
  <2>7. at' = at
    BY <1>2 DEF Answered, camundaVars
  <2> QED BY <2>2, <2>3, <2>4, <2>6, <2>7 DEF Confirmed, TaskOf
<1>3. ASSUME NEW q \in Offerings, CommitPublication(q) \/ RetireOffering(q)
      PROVE  FALSE
  BY <1>0, <1>1, <1>3 DEF CommitPublication, RetireOffering
<1>4. status' # status
  BY <1>1
<1> QED BY <1>2, <1>3, <1>4, OrderlyStep
      DEF vars, offeringVars, serviceVars, InitiatePublication, InitiateWithoutSaga,
          ConsumeOfferingEvent, FetchAndLock, Refused, SyncSwallowed, Broken, CompleteTask,
          ThrowBpmnError, FailTask, TokenExpires

\* What is on sale has been put there by a saga that has been told so.
OnSaleConfirmed ==
    \A o \in Offerings : status[o] \in {"PUBLISHED", "RETIRED"} =>
        \E s \in Sagas : offeringOf[s] = o /\ Confirmed(s)

LEMMA OnSaleStep ==
    ASSUME Faults \subseteq OrderlyFaults, OwnersInv, OnSaleConfirmed, [Next]_vars
    PROVE  OnSaleConfirmed'
<1>0. /\ TypeInv /\ CommittingDraft /\ late = {}
      /\ status \in [Offerings -> {"DRAFT", "PUBLISHING", "PUBLISHED", "RETIRED"}]
  BY DEF OwnersInv, TypeInv, TypeOK
<1> SUFFICES ASSUME NEW o \in Offerings, status'[o] \in {"PUBLISHED", "RETIRED"}
             PROVE  \E s \in Sagas : offeringOf'[s] = o /\ Confirmed(s)'
  BY DEF OnSaleConfirmed, Confirmed, TaskOf
<1>1. CASE status[o] \in {"PUBLISHED", "RETIRED"}
  <2>1. PICK s \in Sagas : offeringOf[s] = o /\ Confirmed(s)
    BY <1>1 DEF OnSaleConfirmed
  <2>2. at[s] # "NotStarted"
    BY <2>1 DEF Confirmed
  <2> QED BY <1>0, <2>1, <2>2, ConfirmedStays, OfferingsKept
<1>2. CASE status[o] \notin {"PUBLISHED", "RETIRED"}
  <2>1. Writes(o, "PUBLISHING", "PUBLISHED")
    BY <1>0, <1>2, StatusStep DEF Writes, CommitPublication
  <2>2. PICK s \in Sagas : offeringOf[s] = o /\ at[s] # "NotStarted" /\ Confirmed(s)'
    BY <1>0, <2>1, ConfirmerIsConfirmed
  <2> QED BY <1>0, <2>2, OfferingsKept
<1> QED BY <1>1, <1>2

\* Under orderly faults a publication reported as failed has not put its offering on
\* sale, unless another saga of the offering has.
THEOREM FailuresAreNotPublished ==
    ASSUME Faults \subseteq OrderlyFaults
    PROVE  Spec => []FailureIsNotPublished
<1>1. Init => OwnersInv /\ OnSaleConfirmed
  BY OwnersInitially DEF Init, OnSaleConfirmed
<1>2. OwnersInv /\ OnSaleConfirmed /\ [Next]_vars => (OwnersInv /\ OnSaleConfirmed)'
  BY OwnersStep, OnSaleStep
<1>3. OwnersInv /\ OnSaleConfirmed => FailureIsNotPublished
  <2> SUFFICES ASSUME OwnersInv, OnSaleConfirmed, NEW s \in Sagas,
                      at[s] = "EndEvent_Error",
                      status[offeringOf[s]] \in {"PUBLISHED", "RETIRED"}
               PROVE  \E t \in Sagas : /\ offeringOf[t] = offeringOf[s]
                                        /\ at[t] \in {"ConfirmPublication", "EndEvent_1"}
    BY DEF FailureIsNotPublished
  <2>1. offeringOf[s] \in Offerings
    BY DEF OwnersInv, TypeInv, SagasOK
  <2>2. PICK t \in Sagas : offeringOf[t] = offeringOf[s] /\ Confirmed(t)
    BY <2>1 DEF OnSaleConfirmed
  <2> QED BY <2>2 DEF Confirmed
<1> QED BY <1>1, <1>2, <1>3, PTL DEF Spec

-----------------------------------------------------------------------------
(* The read model.                                                         *)

\* The saga that accounts for a document of an offering that is not on sale.
Keeps(s, o) ==
    /\ offeringOf[s] = o
    /\ \/ at[s] = "CreateStoreEntry" /\ ~(TaskOf("store") = s /\ worker["store"].pc = "bpmnError")
       \/ at[s] = "ConfirmPublication"
       \/ at[s] = "DeleteStoreEntry" /\ ~(TaskOf("store") = s /\ worker["store"].pc = "complete")

DocumentsKept ==
    \A o \in inStore : status[o] \in {"DRAFT", "PUBLISHING"} => \E s \in Sagas : Keeps(s, o)

EventsOnSale ==
    \A o \in Offerings : events[o] # <<>> => status[o] \in {"PUBLISHED", "RETIRED"}

\* What a request does to the offering's events and to the read model.
LEMMA RequestStore ==
    ASSUME TypeInv, NEW c, NEW ok, Request(c, ok)
    PROVE  /\ \/ events' = events
              \/ /\ ConfirmPublication(offeringOf[c.saga], ok)
                 /\ Writes(offeringOf[c.saga], "PUBLISHING", "PUBLISHED")
                 /\ events' = [events EXCEPT ![offeringOf[c.saga]] =
                                    Append(events[offeringOf[c.saga]], "OfferingPublished")]
           /\ \/ inStore' = inStore
              \/ c.op = "sync" /\ inStore' = inStore \union {offeringOf[c.saga]} /\ ok
              \/ c.op = "delete" /\ inStore' = inStore \ {offeringOf[c.saga]}
BY DEF Request, LockPrice, UnlockPrice, ValidateSpecifications, SyncOffering,
       DeleteOfferingRead, ConfirmPublication, FailPublication, serviceVars, Writes

\* A worker that gets an answer stands at the activity its request belongs to.
LEMMA CallerAt ==
    ASSUME TypeInv, NEW w \in Workers, Calling(w)
    PROVE  /\ Busy(w) /\ TaskOf(w) \in Sagas /\ CallOf(w).saga = TaskOf(w)
           /\ at[TaskOf(w)] # "NotStarted" /\ offeringOf[TaskOf(w)] \in Offerings
           /\ CallOf(w).op = "sync" => w = "store" /\ at[TaskOf(w)] = "CreateStoreEntry"
           /\ CallOf(w).op = "delete" => w = "store" /\ at[TaskOf(w)] = "DeleteStoreEntry"
<1>1. Busy(w) /\ TaskOf(w) \in Sagas /\ CallOf(w).saga = TaskOf(w)
      /\ offeringOf[TaskOf(w)] \in Offerings
  BY CallingBusy DEF Calling, Busy, CallOf, TaskOf
<1>2. at[TaskOf(w)] # "NotStarted"
  BY <1>1 DEF Busy, Activity, TaskOf, Activities, Forward, Compensation
<1>3. /\ CallOf(w).op = "sync" => w = "store" /\ at[TaskOf(w)] = "CreateStoreEntry"
      /\ CallOf(w).op = "delete" => w = "store" /\ at[TaskOf(w)] = "DeleteStoreEntry"
  BY <1>1
    DEF CallOf, OpOf, Busy, Activity, TaskOf, WorkerOf, Activities, Forward, Compensation
<1> QED BY <1>1, <1>2, <1>3

\* Only offerings on sale have events.
LEMMA EventsStep ==
    ASSUME TypeInv, CommittingDraft, late = {}, EventsOnSale, [Next]_vars
    PROVE  EventsOnSale'
<1>0. /\ status \in [Offerings -> {"DRAFT", "PUBLISHING", "PUBLISHED", "RETIRED"}]
      /\ events \in [Offerings -> Seq({"OfferingPublished", "OfferingRetired"})]
  BY DEF TypeInv, TypeOK
<1>1. ASSUME NEW o \in Offerings, status[o] \in {"PUBLISHED", "RETIRED"}
      PROVE  status'[o] \in {"PUBLISHED", "RETIRED"}
  BY <1>1, OnSaleStays
<1>2. CASE events' = events
  BY <1>1, <1>2 DEF EventsOnSale
<1>3. ASSUME NEW q \in Offerings, status'[q] \in {"PUBLISHED", "RETIRED"},
             \A o \in Offerings \ {q} : events'[o] = events[o]
      PROVE  EventsOnSale'
  BY <1>1, <1>3 DEF EventsOnSale
<1>4. ASSUME NEW q \in Offerings, RetireOffering(q)
      PROVE  EventsOnSale'
  <2>1. /\ status'[q] = "RETIRED"
        /\ \A o \in Offerings \ {q} : events'[o] = events[o]
    BY <1>0, <1>4 DEF RetireOffering
  <2> QED BY <1>3, <2>1
<1>5. ASSUME NEW q \in Offerings, ConsumeOfferingEvent(q)
      PROVE  EventsOnSale'
  <2>1. /\ events[q] # <<>>
        /\ \A o \in Offerings \ {q} : events'[o] = events[o]
    BY <1>0, <1>5 DEF ConsumeOfferingEvent
  <2> QED BY <1>1, <1>3, <2>1 DEF EventsOnSale
<1>6. ASSUME NEW w \in Workers, Answered(w)
      PROVE  EventsOnSale'
  <2> DEFINE q == offeringOf[TaskOf(w)]
  <2>1. PICK ok \in BOOLEAN : Request(CallOf(w), ok) /\ Calling(w)
    BY <1>6 DEF Answered
  <2>2. q \in Offerings /\ CallOf(w).saga = TaskOf(w)
    BY <2>1, CallerAt
  <2>3. CASE events' # events
    <3>1. /\ Writes(q, "PUBLISHING", "PUBLISHED")
          /\ events' = [events EXCEPT ![q] = Append(events[q], "OfferingPublished")]
      BY <2>1, <2>2, <2>3, RequestStore
    <3>2. /\ status'[q] = "PUBLISHED"
          /\ \A o \in Offerings \ {q} : events'[o] = events[o]
      BY <1>0, <2>2, <3>1 DEF Writes
    <3> QED BY <1>3, <2>2, <3>2
  <2> QED BY <1>2, <2>3
<1> QED BY <1>2, <1>4, <1>5, <1>6
      DEF Next, UserStep, WorkerStep, vars, offeringVars, serviceVars, InitiatePublication,
          InitiateWithoutSaga, CommitPublication, AbortPublication, FetchAndLock, Refused,
          SyncSwallowed, Broken, CompleteTask, CompleteFails, ThrowBpmnError, FailTask,
          ReportFails, Crash, TokenExpires

\* A saga accounts for the document until it confirms or has deleted it.
LEMMA KeepsStep ==
    ASSUME Faults \subseteq OrderlyFaults \ {"refused"}, SuccessInv, late = {}, [Next]_vars,
           NEW o \in Offerings, status'[o] \in {"DRAFT", "PUBLISHING"}, o \in inStore',
           NEW s \in Sagas, Keeps(s, o)
    PROVE  Keeps(s, o)'
<1>0. /\ TypeInv /\ CommittingDraft /\ ConfirmedOnSale
      /\ at \in [Sagas -> Activities \union Ends \union {"NotStarted"}]
      /\ worker \in [Workers -> [task : Sagas \union {NoSaga}, pc : Pcs, i : Nat, n : Nat]]
      /\ "store" \in Workers /\ Faults \subseteq OrderlyFaults
      /\ at[s] # "NotStarted" /\ offeringOf[s] = o
  BY DEF SuccessInv, TypeInv, TypeOK, Workers, Keeps
<1>1. offeringOf'[s] = o
  BY <1>0, OfferingsKept
<1>2. status[o] \notin {"PUBLISHED", "RETIRED"}
  BY <1>0, OnSaleStays
<1>3. CASE UNCHANGED <<at, worker>>
  BY <1>0, <1>1, <1>3 DEF Keeps, TaskOf
<1>4. ASSUME NEW q \in Offerings, NEW t \in Sagas, InitiatePublication(q, t)
      PROVE  Keeps(s, o)'
  <2>1. at'[s] = at[s] /\ worker' = worker
    BY <1>0, <1>4 DEF InitiatePublication
  <2> QED BY <1>1, <2>1 DEF Keeps, TaskOf
<1>5. ASSUME NEW w \in Workers, NEW t \in Sagas, FetchAndLock(w, t)
      PROVE  Keeps(s, o)'
  <2>1. at' = at
    BY <1>5 DEF FetchAndLock, camundaVars
  <2>2. worker'["store"] = worker["store"] \/ worker'["store"].pc = "call"
    BY <1>0, <1>5 DEF FetchAndLock
  <2> QED BY <1>1, <2>1, <2>2 DEF Keeps, TaskOf
\* The store worker's answers: only a deletion that has been done ends the care.
<1>6. ASSUME NEW w \in Workers, Answered(w) \/ Refused(w) \/ SyncSwallowed(w) \/ Broken(w)
      PROVE  Keeps(s, o)'
  <2>1. Calling(w) /\ at' = at
    BY <1>6 DEF Answered, Refused, SyncSwallowed, Broken, camundaVars
  <2>2. PICK pc, i, n : Goto(w, pc, i, n)
    BY <1>6 DEF Answered, Refused, SyncSwallowed, Broken, Continue, Raise, NextCall, RollBackLocks
  <2>3. CASE w # "store" \/ TaskOf("store") # s
    <3>1. worker'["store"] = worker["store"] \/ worker'["store"].task # s
      BY <1>0, <2>2, <2>3 DEF Goto, TaskOf
    <3>2. TaskOf("store") # s => worker'["store"].task # s
      BY <1>0, <2>2 DEF Goto, TaskOf
    <3> QED BY <1>1, <2>1, <3>1, <3>2 DEF Keeps, TaskOf
  <2>4. CASE w = "store" /\ TaskOf("store") = s
    <3>1. Busy("store") /\ Activity("store") = at[s] /\ worker["store"].pc = "call"
          /\ at[s] \in {"CreateStoreEntry", "DeleteStoreEntry"}
      BY <1>0, <2>1, <2>4, CallingBusy
        DEF Calling, Busy, Activity, TaskOf, WorkerOf, Keeps, Activities, Forward, Compensation
    <3>2. ~Refused("store")
      BY <1>0 DEF Refused, Fault, Authorized
    <3>3. CASE Broken("store")
      <4>1. worker'["store"].pc = "fail"
        BY <1>0, <3>1, <3>3 DEF Broken, Raise, Goto
      <4> QED BY <1>1, <2>1, <3>1, <4>1 DEF Keeps, TaskOf
    <3>4. CASE at[s] = "CreateStoreEntry"
      <4>1. CASE \E ok \in BOOLEAN : ok /\ Continue("store", ok)
        <5>1. worker'["store"].pc = "complete"
          BY <1>0, <3>1, <3>4, <4>1 DEF Continue, Goto
        <5> QED BY <1>1, <2>1, <3>4, <5>1 DEF Keeps, TaskOf
      <4>2. ASSUME Answered("store")
            PROVE  \E ok \in BOOLEAN : ok /\ Continue("store", ok)
        <5>1. PICK ok \in BOOLEAN : Request(CallOf("store"), ok) /\ Continue("store", ok)
          BY <4>2 DEF Answered
        <5>2. CallOf("store").op = "sync"
          BY <3>1, <3>4 DEF CallOf, OpOf, Activities, Forward
        <5>3. ok
          BY <5>1, <5>2 DEF Request, SyncOffering
        <5> QED BY <5>1, <5>3
      <4> QED BY <1>6, <2>4, <3>2, <3>3, <4>1, <4>2 DEF SyncSwallowed
    <3>5. CASE at[s] = "DeleteStoreEntry" /\ ~Broken("store")
      <4>1. CallOf("store").op = "delete" /\ CallOf("store").saga = s
        BY <2>4, <3>1, <3>5 DEF CallOf, OpOf, Activities, Compensation, TaskOf
      <4>2. Answered("store")
        BY <1>6, <2>4, <3>2, <3>5, <4>1 DEF SyncSwallowed
      <4>3. inStore' = inStore \ {o}
        BY <1>0, <4>1, <4>2 DEF Answered, Request, DeleteOfferingRead
      <4> QED BY <4>3
    <3> QED BY <3>1, <3>3, <3>4, <3>5
  <2> QED BY <2>3, <2>4
<1>7. ASSUME NEW w \in Workers, FailTask(w)
      PROVE  Keeps(s, o)'
  <2>1. at' = at /\ worker' = [worker EXCEPT ![w] = Idle]
    BY <1>7 DEF FailTask
  <2>2. worker'["store"] = worker["store"] \/ worker'["store"].pc = "idle"
    BY <1>0, <2>1 DEF Idle
  <2> QED BY <1>1, <2>1, <2>2 DEF Keeps, TaskOf
<1>8. ASSUME NEW w \in Workers, CompleteTask(w) \/ ThrowBpmnError(w)
      PROVE  Keeps(s, o)'
  <2>1. Busy(w) /\ worker' = [worker EXCEPT ![w] = Idle]
    BY <1>0, <1>8, CallingBusy DEF CompleteTask, ThrowBpmnError
  <2>2. PICK a : at' = [at EXCEPT ![TaskOf(w)] = a]
    BY <1>8 DEF CompleteTask, ThrowBpmnError, TaskOf
  <2>3. worker'["store"] = worker["store"] \/ worker'["store"].pc = "idle"
    BY <1>0, <2>1 DEF Idle
  <2>4. CASE TaskOf(w) # s
    <3>1. at'[s] = at[s]
      BY <1>0, <2>2, <2>4
    <3> QED BY <1>1, <2>3, <3>1 DEF Keeps, TaskOf
  <2>5. CASE TaskOf(w) = s /\ at[s] = "CreateStoreEntry"
    <3>1. w = "store" /\ CompleteTask(w)
      BY <1>8, <2>1, <2>5
        DEF Busy, Activity, TaskOf, WorkerOf, Activities, Forward, ThrowBpmnError, Keeps
    <3>2. at'[s] = "ConfirmPublication"
      BY <1>0, <2>5, <3>1 DEF CompleteTask, TaskOf, Activity, OnComplete
    <3> QED BY <1>1, <3>2 DEF Keeps
  <2>6. CASE TaskOf(w) = s /\ at[s] = "ConfirmPublication"
    <3>1. w = "offering"
      BY <2>1, <2>6 DEF Busy, Activity, TaskOf, WorkerOf, Activities, Forward
    <3>2. ~CompleteTask(w)
      BY <1>0, <1>2, <2>6, <3>1 DEF CompleteTask, Confirmed, ConfirmedOnSale
    <3>3. at'[s] = "DeleteStoreEntry"
      BY <1>0, <1>8, <2>6, <3>2 DEF ThrowBpmnError, TaskOf, Activity, OnError
    <3>4. worker'["store"].pc # "complete" \/ TaskOf("store")' # s
      <4>1. worker'["store"] = worker["store"]
        BY <1>0, <2>1, <3>1
      <4>2. TaskOf("store") # s
        <5>1. CASE worker["store"] = Idle
          BY SagaAssumption, <5>1 DEF Idle, TaskOf
        <5>2. CASE Busy("store")
          BY <2>6, <5>2 DEF Busy, Activity, TaskOf, WorkerOf
        <5> QED BY <1>0, <5>1, <5>2 DEF TypeInv, WorkersOK
      <4> QED BY <4>1, <4>2 DEF TaskOf
    <3> QED BY <1>1, <3>3, <3>4 DEF Keeps
  <2>7. CASE TaskOf(w) = s /\ at[s] = "DeleteStoreEntry"
    <3>1. w = "store"
      BY <2>1, <2>7 DEF Busy, Activity, TaskOf, WorkerOf, Activities, Compensation, Forward
    <3>2. worker["store"].pc # "complete" /\ worker["store"].pc # "bpmnError"
      BY <2>1, <2>7, <3>1 DEF Keeps, Busy, Activity, TaskOf, Forward
    <3> QED BY <1>8, <3>1, <3>2 DEF CompleteTask, ThrowBpmnError
  <2> QED BY <2>4, <2>5, <2>6, <2>7 DEF Keeps
<1> QED BY <1>0, <1>3, <1>4, <1>5, <1>6, <1>7, <1>8, OrderlyStep
      DEF vars, camundaVars, InitiateWithoutSaga, CommitPublication, RetireOffering,
          ConsumeOfferingEvent, TokenExpires

StoreInv == SuccessInv /\ late = {} /\ EventsOnSale /\ DocumentsKept

LEMMA StoreStep ==
    ASSUME Faults \subseteq OrderlyFaults \ {"refused"}, StoreInv, [Next]_vars
    PROVE  StoreInv'
<1>0. /\ SuccessInv /\ TypeInv /\ CommittingDraft /\ late = {} /\ EventsOnSale /\ DocumentsKept
      /\ inStore \subseteq Offerings /\ Faults \subseteq OrderlyFaults
      /\ worker \in [Workers -> [task : Sagas \union {NoSaga}, pc : Pcs, i : Nat, n : Nat]]
  BY DEF StoreInv, SuccessInv, TypeInv, TypeOK
<1>1. SuccessInv' /\ late' = {} /\ EventsOnSale' /\ TypeInv'
  BY <1>0, SuccessStep, OrderlyStep, EventsStep DEF SuccessInv
<1>2. ASSUME NEW o \in inStore', status'[o] \in {"DRAFT", "PUBLISHING"}
      PROVE  \E s \in Sagas : Keeps(s, o)'
  <2>1. o \in Offerings
    BY <1>1 DEF TypeInv, TypeOK
  <2>2. status[o] \in {"DRAFT", "PUBLISHING"}
    <3>1. status[o] \in {"DRAFT", "PUBLISHING", "PUBLISHED", "RETIRED"}
      BY <1>0, <2>1 DEF TypeInv, TypeOK
    <3> QED BY <1>0, <1>2, <2>1, <3>1, OnSaleStays
  <2>3. CASE o \in inStore
    <3>1. PICK s \in Sagas : Keeps(s, o)
      BY <1>0, <2>2, <2>3 DEF DocumentsKept
    <3> QED BY <1>0, <1>2, <2>1, <3>1, KeepsStep
  <2>4. CASE o \notin inStore
    <3>1. ASSUME NEW w \in Workers, Answered(w)
          PROVE  \E s \in Sagas : Keeps(s, o)'
      <4>1. PICK ok \in BOOLEAN : Request(CallOf(w), ok) /\ Continue(w, ok) /\ Calling(w)
        BY <3>1 DEF Answered
      <4>2. CallOf(w).op = "sync" /\ ok /\ o = offeringOf[CallOf(w).saga]
        BY <1>0, <1>2, <2>4, <4>1, RequestStore
      <4>3. /\ TaskOf(w) \in Sagas /\ w = "store" /\ at[TaskOf(w)] = "CreateStoreEntry"
            /\ o = offeringOf[TaskOf(w)] /\ worker[w].pc = "call"
        BY <1>0, <4>1, <4>2, CallerAt DEF Calling, Busy, Activity, TaskOf
      <4>4. worker'["store"].pc = "complete"
        BY <1>0, <4>1, <4>2, <4>3 DEF Continue, Goto, Activity, TaskOf
      <4>5. at' = at /\ offeringOf' = offeringOf
        BY <3>1 DEF Answered, camundaVars
      <4> QED BY <4>3, <4>4, <4>5 DEF Keeps
    <3>2. ASSUME NEW q \in Offerings, ConsumeOfferingEvent(q)
          PROVE  FALSE
      BY <1>0, <1>2, <2>2, <2>4, <3>2 DEF ConsumeOfferingEvent, EventsOnSale
    <3>3. inStore' # inStore
      BY <1>2, <2>4
    <3> QED BY <1>0, <3>1, <3>2, <3>3, OrderlyStep
          DEF vars, serviceVars, InitiatePublication, InitiateWithoutSaga, CommitPublication,
              RetireOffering, FetchAndLock, Refused, SyncSwallowed, Broken, CompleteTask,
              ThrowBpmnError, FailTask, TokenExpires
  <2> QED BY <2>3, <2>4
<1>3. DocumentsKept'
  BY <1>2 DEF DocumentsKept, Keeps, TaskOf
<1> QED BY <1>1, <1>3 DEF StoreInv

\* When the store answers every request that reaches it, a document of an offering
\* that is not on sale belongs to a saga that is about to confirm or delete it.
THEOREM NoEntryIsOrphaned ==
    ASSUME Faults \subseteq OrderlyFaults \ {"refused"}
    PROVE  Spec => []NoOrphanStoreEntry
<1>1. Init => StoreInv
  BY TypeInit
    DEF Init, StoreInv, SuccessInv, CommittingDraft, ConfirmedOnSale, ConfirmedOnce, Confirmed,
        Idle, EventsOnSale, DocumentsKept
<1>2. StoreInv /\ [Next]_vars => StoreInv'
  BY StoreStep
<1>3. StoreInv => NoOrphanStoreEntry
  BY DEF StoreInv, DocumentsKept, Keeps, NoOrphanStoreEntry
<1> QED BY <1>1, <1>2, <1>3, PTL DEF Spec

\* What the store has still to consume of an offering on sale, and what it shows
\* when that is nothing.
Settled ==
    \A o \in Offerings :
        /\ status[o] = "PUBLISHED" =>
              \/ events[o] = <<"OfferingPublished">>
              \/ events[o] = <<>> /\ o \in inStore
        /\ status[o] = "RETIRED" =>
              \/ events[o] = <<"OfferingPublished", "OfferingRetired">>
              \/ events[o] = <<"OfferingRetired">>
              \/ events[o] = <<>> /\ o \notin inStore

LEMMA AppendToOne ==
    ASSUME NEW E, NEW s \in Seq(E), NEW e \in E, Len(s) = 1
    PROVE  /\ Append(s, e) \in Seq(E) /\ Len(Append(s, e)) = 2
           /\ Append(s, e)[1] = s[1] /\ Append(s, e)[2] = e
<1>1. Append(s, e) \in Seq(E)
  OBVIOUS
<1>2. Len(Append(s, e)) = 2
  OBVIOUS
<1>3. Append(s, e)[1] = s[1]
  OBVIOUS
<1>4. Append(s, e)[Len(s) + 1] = e
  BY AppendProperties
<1>5. Len(s) + 1 = 2
  OBVIOUS
<1> QED BY <1>1, <1>2, <1>3, <1>4, <1>5, Zenon

LEMMA EventSequences ==
    /\ Append(<<>>, "OfferingPublished") = <<"OfferingPublished">>
    /\ Append(<<>>, "OfferingRetired") = <<"OfferingRetired">>
    /\ Append(<<"OfferingPublished">>, "OfferingRetired") = <<"OfferingPublished", "OfferingRetired">>
    /\ <<"OfferingPublished">> # <<>> /\ <<"OfferingRetired">> # <<>>
    /\ <<"OfferingPublished", "OfferingRetired">> # <<>>
<1>1. Append(<<>>, "OfferingPublished") = <<"OfferingPublished">>
  OBVIOUS
<1>2. Append(<<>>, "OfferingRetired") = <<"OfferingRetired">>
  OBVIOUS
<1>3. ASSUME NEW p, NEW r
      PROVE  Append(<<p>>, r) = <<p, r>>
  <2> DEFINE E == {p, r}
             s == <<p>>
  <2>1. s \in Seq(E) /\ Len(s) = 1 /\ s[1] = p /\ r \in E
    OBVIOUS
  <2>2. \A t \in Seq(E) : Len(t) = 2 /\ t[1] = p /\ t[2] = r => t = <<p, r>>
    OBVIOUS
  <2> HIDE DEF s, E
  <2>3. /\ Append(s, r) \in Seq(E) /\ Len(Append(s, r)) = 2
        /\ Append(s, r)[1] = s[1] /\ Append(s, r)[2] = r
    BY <2>1, AppendToOne, Zenon
  <2>4. Append(s, r) = <<p, r>>
    BY <2>1, <2>2, <2>3, Zenon
  <2> QED BY <2>4 DEF s
<1>4. <<"OfferingPublished">> # <<>> /\ <<"OfferingRetired">> # <<>>
  OBVIOUS
<1>5. <<"OfferingPublished", "OfferingRetired">> # <<>>
  OBVIOUS
<1> QED BY <1>1, <1>2, <1>3, <1>4, <1>5, Zenon

SettledInv == OwnersInv /\ OnSaleConfirmed /\ EventsOnSale /\ Settled

\* No store task of a saga touches the document of an offering on sale: the saga that
\* put it there owns the offering for ever.
LEMMA DocumentLeftAlone ==
    ASSUME OwnersInv, OnSaleConfirmed, NEW w \in Workers, NEW ok \in BOOLEAN, Calling(w),
           Request(CallOf(w), ok),
           NEW o \in Offerings, status[o] \in {"PUBLISHED", "RETIRED"}
    PROVE  o \in inStore' <=> o \in inStore
<1>0. TypeInv /\ OneOwner
  BY DEF OwnersInv
<1>1. PICK t \in Sagas : offeringOf[t] = o /\ Confirmed(t)
  BY DEF OnSaleConfirmed
<1>2. Owns(t) /\ at[t] \in {"ConfirmPublication", "EndEvent_1"}
  BY <1>1 DEF Confirmed, Owns, Activities, Forward
<1>3. ASSUME CallOf(w).op \in {"sync", "delete"}
      PROVE  offeringOf[CallOf(w).saga] # o
  <2> DEFINE s == TaskOf(w)
  <2>1. /\ s \in Sagas /\ CallOf(w).saga = s
        /\ at[s] \in {"CreateStoreEntry", "DeleteStoreEntry"}
    BY <1>0, <1>3, CallerAt
  <2>2. Owns(s) /\ s # t
    BY <1>2, <2>1 DEF Owns, Activities, Forward, Compensation
  <2> QED BY <1>0, <1>1, <1>2, <2>1, <2>2 DEF OneOwner
<1> QED BY <1>0, <1>3, RequestStore

LEMMA SettledStep ==
    ASSUME Faults \subseteq OrderlyFaults \ {"event"}, SettledInv, [Next]_vars
    PROVE  Settled'
<1>0. /\ OwnersInv /\ OnSaleConfirmed /\ EventsOnSale /\ Settled
      /\ TypeInv /\ CommittingDraft /\ late = {} /\ Faults \subseteq OrderlyFaults
      /\ status \in [Offerings -> {"DRAFT", "PUBLISHING", "PUBLISHED", "RETIRED"}]
      /\ events \in [Offerings -> Seq({"OfferingPublished", "OfferingRetired"})]
  BY DEF SettledInv, OwnersInv, TypeInv, TypeOK
<1>1. CASE UNCHANGED <<status, events, inStore>>
  BY <1>0, <1>1 DEF Settled
<1>2. ASSUME NEW q \in Offerings, CommitPublication(q)
      PROVE  Settled'
  BY <1>0, <1>2 DEF CommitPublication, Settled
<1>3. ASSUME NEW q \in Offerings, RetireOffering(q)
      PROVE  Settled'
  <2>1. /\ status[q] = "PUBLISHED" /\ status' = [status EXCEPT ![q] = "RETIRED"]
        /\ events' = [events EXCEPT ![q] = Append(events[q], "OfferingRetired")]
        /\ inStore' = inStore
    BY <1>3 DEF RetireOffering
  <2>2. events[q] = <<"OfferingPublished">> \/ events[q] = <<>>
    BY <1>0, <2>1 DEF Settled
  <2>3. events'[q] = <<"OfferingPublished", "OfferingRetired">> \/ events'[q] = <<"OfferingRetired">>
    <3>1. events'[q] = Append(events[q], "OfferingRetired")
      BY <1>0, <2>1
    <3> QED BY <2>2, <3>1, EventSequences
  <2>4. /\ status'[q] = "RETIRED"
        /\ \A o \in Offerings \ {q} : status'[o] = status[o] /\ events'[o] = events[o]
    BY <1>0, <2>1
  <2> QED BY <1>0, <2>1, <2>3, <2>4 DEF Settled
<1>4. ASSUME NEW q \in Offerings, ConsumeOfferingEvent(q)
      PROVE  Settled'
  <2>1. /\ events[q] # <<>> /\ events' = [events EXCEPT ![q] = Tail(events[q])]
        /\ status' = status
        /\ inStore' = IF Head(events[q]) = "OfferingPublished"
                      THEN inStore \union {q} ELSE inStore \ {q}
    BY <1>4 DEF ConsumeOfferingEvent, Fault
  <2>2. /\ events'[q] = Tail(events[q])
        /\ \A o \in Offerings \ {q} : events'[o] = events[o] /\ (o \in inStore' <=> o \in inStore)
    BY <1>0, <2>1
  <2>3. status[q] \in {"PUBLISHED", "RETIRED"}
    BY <1>0, <2>1 DEF EventsOnSale
  <2>4. CASE status[q] = "PUBLISHED"
    <3>1. events[q] = <<"OfferingPublished">>
      BY <1>0, <2>1, <2>4 DEF Settled
    <3>2. events'[q] = <<>> /\ q \in inStore'
      BY <2>1, <2>2, <3>1
    <3> QED BY <1>0, <2>1, <2>2, <2>4, <3>2 DEF Settled
  <2>5. CASE status[q] = "RETIRED" /\ events[q] = <<"OfferingPublished", "OfferingRetired">>
    <3>1. events'[q] = <<"OfferingRetired">>
      BY <2>2, <2>5
    <3> QED BY <1>0, <2>1, <2>2, <2>5, <3>1 DEF Settled
  <2>6. CASE status[q] = "RETIRED" /\ events[q] = <<"OfferingRetired">>
    <3>1. events'[q] = <<>> /\ q \notin inStore'
      BY <2>1, <2>2, <2>6
    <3> QED BY <1>0, <2>1, <2>2, <2>6, <3>1 DEF Settled
  <2> QED BY <1>0, <2>1, <2>3, <2>4, <2>5, <2>6 DEF Settled
<1>5. ASSUME NEW w \in Workers, Answered(w)
      PROVE  Settled'
  <2> DEFINE q == offeringOf[TaskOf(w)]
  <2>1. PICK ok \in BOOLEAN : Request(CallOf(w), ok) /\ Calling(w)
    BY <1>5 DEF Answered
  <2>2. q \in Offerings /\ CallOf(w).saga = TaskOf(w)
    BY <1>0, <2>1, CallerAt
  <2>3. ASSUME NEW o \in Offerings, status[o] \in {"PUBLISHED", "RETIRED"}
        PROVE  o \in inStore' <=> o \in inStore
    BY <1>0, <2>1, <2>3, DocumentLeftAlone
  <2>4. CASE events' # events
    <3>1. /\ Writes(q, "PUBLISHING", "PUBLISHED")
          /\ events' = [events EXCEPT ![q] = Append(events[q], "OfferingPublished")]
      BY <1>0, <2>1, <2>2, <2>4, RequestStore
    <3>2. events[q] = <<>>
      BY <1>0, <2>2, <3>1 DEF EventsOnSale, Writes
    <3>3. events'[q] = <<"OfferingPublished">> /\ status'[q] = "PUBLISHED"
      BY <1>0, <2>2, <3>1, <3>2 DEF Writes
    <3>4. \A o \in Offerings \ {q} : status'[o] = status[o] /\ events'[o] = events[o]
      BY <1>0, <3>1 DEF Writes
    <3> QED BY <1>0, <2>2, <2>3, <3>3, <3>4 DEF Settled
  <2>5. CASE events' = events
    <3>1. \A o \in Offerings : status'[o] \in {"PUBLISHED", "RETIRED"} => status'[o] = status[o]
      <4>1. \/ status' = status
            \/ Writes(q, "PUBLISHING", "DRAFT")
            \/ ConfirmPublication(q, ok) /\ Writes(q, "PUBLISHING", "PUBLISHED")
        BY <2>1, <2>2
          DEF Request, LockPrice, UnlockPrice, ValidateSpecifications, SyncOffering,
              DeleteOfferingRead, ConfirmPublication, FailPublication, serviceVars, Writes
      <4>2. CASE ConfirmPublication(q, ok) /\ Writes(q, "PUBLISHING", "PUBLISHED")
        <5>1. status[q] = "PUBLISHING"
          BY <4>2 DEF Writes
        <5>2. events' = [events EXCEPT ![q] = Append(events[q], "OfferingPublished")]
          BY <4>2, <5>1 DEF ConfirmPublication
        <5>3. events[q] = <<>>
          BY <1>0, <2>2, <5>1 DEF EventsOnSale
        <5>4. events'[q] = <<"OfferingPublished">>
          BY <1>0, <2>2, <5>2, <5>3
        <5> QED BY <2>5, <5>3, <5>4, EventSequences
      <4>3. CASE Writes(q, "PUBLISHING", "DRAFT")
        BY <1>0, <2>2, <4>3 DEF Writes
      <4> QED BY <4>1, <4>2, <4>3
    <3> QED BY <1>0, <2>3, <2>5, <3>1 DEF Settled
  <2> QED BY <2>4, <2>5
<1> QED BY <1>0, <1>1, <1>2, <1>3, <1>4, <1>5, OrderlyStep
      DEF vars, offeringVars, serviceVars, InitiatePublication, InitiateWithoutSaga,
          FetchAndLock, Refused, SyncSwallowed, Broken, CompleteTask, ThrowBpmnError,
          FailTask, TokenExpires

\* When no offering event is lost, the store ends up showing an offering if it is
\* PUBLISHED and not if it is RETIRED, under every orderly fault of the saga's own
\* store tasks.
THEOREM ReadModelIsSettled ==
    ASSUME Faults \subseteq OrderlyFaults \ {"event"}
    PROVE  Spec => []ReadModelSettles
<1>1. Init => SettledInv
  <2> SUFFICES ASSUME Init
               PROVE  SettledInv
    OBVIOUS
  <2>1. \A o \in Offerings : status[o] = "DRAFT" /\ events[o] = <<>>
    BY DEF Init
  <2>2. OnSaleConfirmed /\ EventsOnSale /\ Settled
    BY <2>1 DEF OnSaleConfirmed, EventsOnSale, Settled
  <2> QED BY <2>2, OwnersInitially DEF SettledInv
<1>2. SettledInv /\ [Next]_vars => SettledInv'
  <2> SUFFICES ASSUME SettledInv, [Next]_vars
               PROVE  SettledInv'
    OBVIOUS
  <2>1. /\ OwnersInv /\ OnSaleConfirmed /\ EventsOnSale /\ Faults \subseteq OrderlyFaults
        /\ TypeInv /\ CommittingDraft /\ late = {}
    BY DEF SettledInv, OwnersInv
  <2>2. OwnersInv' /\ OnSaleConfirmed'
    BY <2>1, OwnersStep, OnSaleStep
  <2>3. EventsOnSale'
    BY <2>1, EventsStep
  <2> QED BY <2>2, <2>3, SettledStep DEF SettledInv
<1>3. SettledInv => ReadModelSettles
  BY EventSequences, Zenon DEF SettledInv, Settled, ReadModelSettles
<1> QED BY <1>1, <1>2, <1>3, PTL DEF Spec

-----------------------------------------------------------------------------
(* The locks of a failed publication.  unlock-prices goes through the list  *)
(* of prices once, and a refused unlock is passed over.  So an answer 5xx   *)
(* is not among the faults here; a 401 is, and what is proved holds for as  *)
(* long as the worker's token is valid.                                    *)

NoLocks(s) == \A p \in Prices : lockedBy[p] # s

LocksOwnPrices ==
    \A p \in Prices : lockedBy[p] \in Sagas =>
        /\ at[lockedBy[p]] # "NotStarted"
        /\ p \in PriceSet(offeringOf[lockedBy[p]])

Released == \A s \in Sagas : at[s] \in {"RevertToDraft", "EndEvent_Error"} => NoLocks(s)

\* The unlock handler has unlocked what it has passed.
UnlockProgress ==
    LET s == TaskOf("pricing")
        r == worker["pricing"]
    IN  s \in Sagas /\ at[s] = "UnlockPrices" =>
            /\ r.pc = "call" =>
                  \A j \in 1 .. (r.i - 1) : lockedBy[PricesOf[offeringOf[s]][j]] # s
            /\ r.pc = "complete" => NoLocks(s)

ReleaseInv ==
    /\ TypeInv
    /\ late = {}
    /\ LocksOwnPrices
    /\ "pricing" \in token => Released /\ UnlockProgress

ReleaseFaults == OrderlyFaults \ {"refused"}

\* Without a restart no worker gets a token back.
LEMMA TokenShrinks ==
    ASSUME Faults \subseteq OrderlyFaults, late = {}, [Next]_vars
    PROVE  token' \subseteq token
BY OrderlyStep
  DEF vars, InitiatePublication, InitiateWithoutSaga, CommitPublication, RetireOffering,
      ConsumeOfferingEvent, FetchAndLock, Answered, Refused, SyncSwallowed, Broken,
      CompleteTask, ThrowBpmnError, FailTask, TokenExpires

\* The lock column changes only by the answers to the pricing worker.
LEMMA LocksChange ==
    ASSUME Faults \subseteq OrderlyFaults, TypeInv, late = {}, [Next]_vars,
           lockedBy' # lockedBy
    PROVE  /\ Answered("pricing") /\ Busy("pricing") /\ Calling("pricing")
           /\ CallOf("pricing").price \in PriceSet(offeringOf[TaskOf("pricing")])
           /\ CallOf("pricing").price \in Prices
           /\ \/ /\ Activity("pricing") = "LockPrices"
                 /\ lockedBy' = [lockedBy EXCEPT ![CallOf("pricing").price] = TaskOf("pricing")]
              \/ lockedBy' = [lockedBy EXCEPT ![CallOf("pricing").price] = NoSaga]
<1>1. PICK w \in Workers : Answered(w)
  BY OrderlyStep
    DEF vars, serviceVars, InitiatePublication, InitiateWithoutSaga, CommitPublication,
        RetireOffering, ConsumeOfferingEvent, FetchAndLock, Refused, SyncSwallowed, Broken,
        CompleteTask, ThrowBpmnError, FailTask, TokenExpires
<1>2. PICK ok \in BOOLEAN : Request(CallOf(w), ok) /\ Calling(w)
  BY <1>1 DEF Answered
<1>3. /\ CallOf(w).op \in {"lock", "unlock"}
      /\ \/ CallOf(w).op = "lock" /\ lockedBy' = [lockedBy EXCEPT ![CallOf(w).price] = CallOf(w).saga]
         \/ lockedBy' = [lockedBy EXCEPT ![CallOf(w).price] = NoSaga]
  BY <1>2
    DEF Request, LockPrice, UnlockPrice, ValidateSpecifications, SyncOffering,
        DeleteOfferingRead, ConfirmPublication, FailPublication, serviceVars
<1>4. Busy(w) /\ CallOf(w).saga = TaskOf(w) /\ CallOf(w).price \in Prices
      /\ offeringOf[TaskOf(w)] \in Offerings
  BY <1>2, <1>3, CallType, CallerAt
<1>5. Activity(w) \in {"LockPrices", "UnlockPrices"} /\ w = "pricing"
  BY <1>3, <1>4
    DEF CallOf, OpOf, Busy, WorkerOf, Activities, Forward, Compensation
<1>6. CallOf(w).op = "lock" => Activity(w) = "LockPrices"
  BY <1>5 DEF CallOf, OpOf
<1>7. CallOf(w).price \in PriceSet(offeringOf[TaskOf(w)])
  <2> DEFINE o == offeringOf[TaskOf(w)]
  <2>1. PricesOf[o] \in Seq(Prices)
    BY <1>4, SagaAssumption
  <2>2. worker[w].i \in 1 .. Len(PricesOf[o])
    <3>1. CASE worker[w].pc = "call"
      BY <1>4, <1>5, <3>1 DEF Busy, PriceCount, PricesOfTask, TaskOf
    <3>2. CASE worker[w].pc = "rollback"
      <4>1. worker[w].i \in 1 .. worker[w].n /\ worker[w].n \in 1 .. PriceCount(w)
        BY <1>4, <3>2 DEF Busy
      <4> QED BY <2>1, <4>1 DEF PriceCount, PricesOfTask, TaskOf
    <3> QED BY <1>2, <3>1, <3>2 DEF Calling
  <2>3. CallOf(w).price = PricesOf[o][worker[w].i]
    BY <1>5 DEF CallOf, PricesOfTask, TaskOf
  <2> QED BY <2>1, <2>2, <2>3 DEF PriceSet
<1> QED BY <1>1, <1>2, <1>3, <1>4, <1>5, <1>6, <1>7

LEMMA LocksOwnStep ==
    ASSUME Faults \subseteq OrderlyFaults, TypeInv, late = {}, LocksOwnPrices, [Next]_vars
    PROVE  LocksOwnPrices'
<1>0. lockedBy \in [Prices -> Sagas \union {NoSaga}] /\ NoSaga \notin Sagas
  BY SagaAssumption DEF TypeInv, TypeOK
<1> SUFFICES ASSUME NEW p \in Prices, lockedBy'[p] \in Sagas
             PROVE  /\ at'[lockedBy'[p]] # "NotStarted"
                    /\ p \in PriceSet(offeringOf'[lockedBy'[p]])
  BY DEF LocksOwnPrices, PriceSet
<1>1. CASE lockedBy'[p] = lockedBy[p]
  BY <1>1, OfferingsKept DEF LocksOwnPrices
<1>2. CASE lockedBy'[p] # lockedBy[p]
  <2>1. /\ Busy("pricing") /\ Activity("pricing") = "LockPrices"
        /\ lockedBy'[p] = TaskOf("pricing") /\ p \in PriceSet(offeringOf[TaskOf("pricing")])
    BY <1>0, <1>2, LocksChange
  <2>2. at[TaskOf("pricing")] # "NotStarted"
    BY <2>1 DEF Activity, TaskOf
  <2> QED BY <2>1, <2>2, OfferingsKept
<1> QED BY <1>1, <1>2

\* A saga past its unlock gets no lock back.
LEMMA NoLocksStep ==
    ASSUME Faults \subseteq OrderlyFaults, TypeInv, late = {}, [Next]_vars,
           NEW s \in Sagas, at[s] # "LockPrices", NEW p \in Prices, lockedBy[p] # s
    PROVE  lockedBy'[p] # s
<1>1. lockedBy \in [Prices -> Sagas \union {NoSaga}] /\ NoSaga \notin Sagas
  BY SagaAssumption DEF TypeInv, TypeOK
<1>2. CASE lockedBy' = lockedBy
  BY <1>2
<1>3. CASE lockedBy' # lockedBy
  BY <1>1, <1>3, LocksChange DEF Activity, TaskOf
<1> QED BY <1>2, <1>3

\* A saga gets past unlock-prices only with the report of an unlock that is complete.
LEMMA ReleasedStep ==
    ASSUME Faults \subseteq ReleaseFaults, ReleaseInv, "pricing" \in token, [Next]_vars,
           NEW s \in Sagas, at'[s] \in {"RevertToDraft", "EndEvent_Error"}
    PROVE  NoLocks(s)'
<1>0. /\ TypeInv /\ late = {} /\ Released /\ UnlockProgress
      /\ Faults \subseteq OrderlyFaults /\ "pricing" \in Workers
      /\ at \in [Sagas -> Activities \union Ends \union {"NotStarted"}]
  BY DEF ReleaseInv, TypeInv, TypeOK, ReleaseFaults, Workers
<1>1. at[s] # "LockPrices" /\ NoLocks(s)
  <2>1. CASE at'[s] = at[s]
    BY <1>0, <2>1 DEF Released
  <2>2. ASSUME NEW w \in Workers, CompleteTask(w) \/ ThrowBpmnError(w), at'[s] # at[s]
        PROVE  at[s] # "LockPrices" /\ NoLocks(s)
    <3>1. Busy(w) /\ TaskOf(w) = s /\ Activity(w) = at[s]
      BY <1>0, <2>2, CallingBusy DEF CompleteTask, ThrowBpmnError, TaskOf, Activity
    <3>2. CompleteTask(w) /\ at[s] \in {"UnlockPrices", "RevertToDraft"}
      <4>1. CASE CompleteTask(w)
        <5>1. at'[s] = OnComplete[at[s]]
          BY <1>0, <3>1, <4>1 DEF CompleteTask, TaskOf
        <5> QED BY <3>1, <4>1, <5>1 DEF OnComplete, Busy, Activities, Forward, Compensation
      <4>2. CASE ThrowBpmnError(w)
        <5>1. at'[s] = OnError[at[s]] /\ at[s] \in Forward
          BY <1>0, <3>1, <4>2 DEF ThrowBpmnError, TaskOf, Busy
        <5> QED BY <5>1 DEF OnError, Forward
      <4> QED BY <2>2, <4>1, <4>2
    <3>3. at[s] = "UnlockPrices" => w = "pricing" /\ worker[w].pc = "complete"
      BY <3>1, <3>2 DEF Busy, WorkerOf, CompleteTask
    <3> QED BY <1>0, <3>1, <3>2, <3>3 DEF Released, UnlockProgress
  <2>3. ASSUME NEW o \in Offerings, NEW t \in Sagas, InitiatePublication(o, t)
        PROVE  at'[s] = at[s]
    BY <1>0, <2>3 DEF InitiatePublication
  <2> QED BY <1>0, <2>1, <2>2, <2>3, OrderlyStep
        DEF vars, camundaVars, InitiateWithoutSaga, CommitPublication, RetireOffering,
            ConsumeOfferingEvent, FetchAndLock, Answered, Refused, SyncSwallowed, Broken,
            FailTask, TokenExpires
<1> QED BY <1>0, <1>1, NoLocksStep DEF NoLocks

\* The answers to the unlock handler: each unlocks the price it has asked for.
LEMMA UnlockAnswered ==
    ASSUME Faults \subseteq ReleaseFaults, ReleaseInv, "pricing" \in token, [Next]_vars,
           Answered("pricing"),
           Activity("pricing") = "UnlockPrices"
    PROVE  UnlockProgress'
<1> DEFINE s == TaskOf("pricing")
           o == offeringOf[s]
           k == worker["pricing"].i
           n == Len(PricesOf[o])
<1>0. /\ TypeInv /\ UnlockProgress /\ LocksOwnPrices /\ late = {} /\ NoSaga \notin Sagas
      /\ Faults \subseteq OrderlyFaults /\ "pricing" \in Workers
      /\ worker \in [Workers -> [task : Sagas \union {NoSaga}, pc : Pcs, i : Nat, n : Nat]]
      /\ lockedBy \in [Prices -> Sagas \union {NoSaga}]
  BY SagaAssumption DEF ReleaseInv, TypeInv, TypeOK, ReleaseFaults, Workers
<1>1. PICK ok \in BOOLEAN : Request(CallOf("pricing"), ok) /\ Continue("pricing", ok)
                           /\ Calling("pricing")
  BY DEF Answered
<1>2. Busy("pricing") /\ s \in Sagas /\ o \in Offerings /\ at[s] = "UnlockPrices"
  BY <1>0, <1>1, CallerAt DEF Activity, TaskOf
<1>3. worker["pricing"].pc = "call" /\ k \in 1 .. n /\ n \in Nat
  <2>1. worker["pricing"].pc = "call"
    BY <1>1, <1>2 DEF Calling, Busy
  <2> QED BY <1>2, <2>1, PricesNonEmpty DEF Busy, PriceCount, PricesOfTask, TaskOf
<1>4. lockedBy' = [lockedBy EXCEPT ![PricesOf[o][k]] = NoSaga]
  <2>1. CallOf("pricing").op = "unlock" /\ CallOf("pricing").price = PricesOf[o][k]
    BY <1>3 DEF CallOf, OpOf, PricesOfTask, TaskOf, Activities, Forward, Compensation
  <2> QED BY <1>1, <2>1 DEF Request, UnlockPrice
<1>5. \A j \in 1 .. n : PricesOf[o][j] \in Prices
  BY <1>2, PriceAt
<1>6. \A j \in 1 .. k : lockedBy'[PricesOf[o][j]] # s
  <2> SUFFICES ASSUME NEW j \in 1 .. k
               PROVE  lockedBy'[PricesOf[o][j]] # s
    OBVIOUS
  <2>1. PricesOf[o][j] \in Prices
    BY <1>3, <1>5
  <2>2. CASE PricesOf[o][j] = PricesOf[o][k]
    BY <1>0, <1>2, <1>4, <2>1, <2>2
  <2>3. CASE PricesOf[o][j] # PricesOf[o][k]
    <3>1. j \in 1 .. (k - 1)
      BY <1>3, <2>3
    <3>2. lockedBy[PricesOf[o][j]] # s
      BY <1>0, <1>2, <1>3, <3>1 DEF UnlockProgress
    <3> QED BY <1>0, <1>4, <2>1, <2>3, <3>2
  <2> QED BY <2>2, <2>3
<1>7. at' = at /\ offeringOf' = offeringOf
  BY DEF Answered, camundaVars
<1>8. NextCall("pricing", n, "complete")
  BY <1>1, <1>3 DEF Continue, PricesOfTask, TaskOf
<1>9. CASE k < n
  <2>1. Goto("pricing", "call", k + 1, worker["pricing"].n)
    BY <1>3, <1>8, <1>9 DEF NextCall
  <2>2. TaskOf("pricing")' = s /\ worker'["pricing"].pc = "call" /\ worker'["pricing"].i = k + 1
    BY <1>0, <2>1 DEF Goto, TaskOf
  <2>3. (k + 1) - 1 = k
    BY <1>3
  <2> QED BY <1>6, <1>7, <2>2, <2>3 DEF UnlockProgress
<1>10. CASE ~(k < n)
  <2>1. Goto("pricing", "complete", 0, 0)
    BY <1>8, <1>10 DEF NextCall
  <2>2. TaskOf("pricing")' = s /\ worker'["pricing"].pc = "complete"
    BY <1>0, <2>1 DEF Goto, TaskOf
  <2>3. ASSUME NEW p \in Prices
        PROVE  lockedBy'[p] # s
    <3>1. CASE p \in PriceSet(o)
      <4>1. PICK j \in 1 .. n : p = PricesOf[o][j]
        BY <1>2, <3>1, SagaAssumption DEF PriceSet
      <4>2. j \in 1 .. k
        BY <1>3, <1>10, <4>1
      <4> QED BY <1>6, <4>1, <4>2
    <3>2. CASE p \notin PriceSet(o)
      <4>1. lockedBy[p] # s
        BY <1>0, <1>2, <2>3, <3>2 DEF LocksOwnPrices
      <4> QED BY <1>0, <1>2, <4>1, <2>3, NoLocksStep
    <3> QED BY <3>1, <3>2
  <2> QED BY <1>7, <2>2, <2>3 DEF UnlockProgress, NoLocks
<1> QED BY <1>9, <1>10, <1>3

LEMMA UnlockProgressStep ==
    ASSUME Faults \subseteq ReleaseFaults, ReleaseInv, "pricing" \in token, [Next]_vars
    PROVE  UnlockProgress'
<1>0. /\ TypeInv /\ UnlockProgress /\ LocksOwnPrices /\ late = {} /\ NoSaga \notin Sagas
      /\ "pricing" \in token /\ "refused" \notin Faults
      /\ Faults \subseteq OrderlyFaults /\ "pricing" \in Workers
      /\ at \in [Sagas -> Activities \union Ends \union {"NotStarted"}]
      /\ worker \in [Workers -> [task : Sagas \union {NoSaga}, pc : Pcs, i : Nat, n : Nat]]
      /\ lockedBy \in [Prices -> Sagas \union {NoSaga}]
  BY SagaAssumption DEF ReleaseInv, TypeInv, TypeOK, ReleaseFaults, Workers
\* The pricing worker has no task, or its task is at one of its two activities.
<1>1. \/ TaskOf("pricing") \notin Sagas
      \/ Busy("pricing") /\ at[TaskOf("pricing")] \in {"LockPrices", "UnlockPrices"}
  <2>1. CASE worker["pricing"] = Idle
    BY <1>0, <2>1 DEF Idle, TaskOf
  <2>2. CASE Busy("pricing")
    BY <2>2 DEF Busy, Activity, TaskOf, WorkerOf, Activities, Forward, Compensation
  <2> QED BY <1>0, <2>1, <2>2 DEF TypeInv, WorkersOK
<1>2. ASSUME worker'["pricing"] = worker["pricing"], TaskOf("pricing") \in Sagas,
             at'[TaskOf("pricing")] = at[TaskOf("pricing")]
      PROVE  UnlockProgress'
  <2> DEFINE s == TaskOf("pricing")
             r == worker["pricing"]
  <2> SUFFICES ASSUME at[s] = "UnlockPrices"
               PROVE  /\ r.pc = "call" =>
                           \A j \in 1 .. (r.i - 1) : lockedBy'[PricesOf[offeringOf'[s]][j]] # s
                      /\ r.pc = "complete" => \A p \in Prices : lockedBy'[p] # s
    BY <1>2 DEF UnlockProgress, NoLocks, TaskOf
  <2>1. Busy("pricing") /\ offeringOf[s] \in Offerings /\ offeringOf'[s] = offeringOf[s]
    <3>1. Busy("pricing")
      BY <1>1, <1>2
    <3> QED BY <1>0, <1>2, <3>1, OfferingsKept DEF TypeInv, SagasOK
  <2>2. ASSUME NEW p \in Prices, lockedBy[p] # s
        PROVE  lockedBy'[p] # s
    BY <1>0, <1>2, <2>2, NoLocksStep
  <2>3. ASSUME r.pc = "call", NEW j \in 1 .. (r.i - 1)
        PROVE  lockedBy'[PricesOf[offeringOf'[s]][j]] # s
    <3>1. r.i \in 1 .. Len(PricesOf[offeringOf[s]]) /\ Len(PricesOf[offeringOf[s]]) \in Nat
      BY <2>1, <2>3, PricesNonEmpty DEF Busy, PriceCount, PricesOfTask, TaskOf
    <3>2. PricesOf[offeringOf[s]][j] \in Prices
      BY <2>1, <3>1, PriceAt
    <3>3. lockedBy[PricesOf[offeringOf[s]][j]] # s
      BY <1>0, <1>2, <2>3 DEF UnlockProgress
    <3> QED BY <2>1, <2>2, <3>2, <3>3
  <2>4. ASSUME r.pc = "complete"
        PROVE  \A p \in Prices : lockedBy'[p] # s
    BY <1>0, <1>2, <2>2, <2>4 DEF UnlockProgress, NoLocks
  <2> QED BY <2>3, <2>4
<1>3. ASSUME TaskOf("pricing")' \notin Sagas
      PROVE  UnlockProgress'
  BY <1>3 DEF UnlockProgress
<1>4. ASSUME worker'["pricing"] = worker["pricing"], UNCHANGED at
      PROVE  UnlockProgress'
  BY <1>2, <1>3, <1>4 DEF TaskOf
<1>5. ASSUME NEW o \in Offerings, NEW t \in Sagas, InitiatePublication(o, t)
      PROVE  UnlockProgress'
  <2>1. worker' = worker
    BY <1>5 DEF InitiatePublication
  <2>2. CASE TaskOf("pricing") \in Sagas
    <3>1. at'[TaskOf("pricing")] = at[TaskOf("pricing")]
      BY <1>0, <1>1, <1>5, <2>2 DEF InitiatePublication
    <3> QED BY <1>2, <2>1, <2>2, <3>1
  <2> QED BY <1>3, <2>1, <2>2 DEF TaskOf
<1>6. ASSUME NEW w \in Workers, NEW t \in Sagas, FetchAndLock(w, t)
      PROVE  UnlockProgress'
  <2>1. at' = at
    BY <1>6 DEF FetchAndLock, camundaVars
  <2>2. CASE w = "pricing"
    <3>1. worker'["pricing"].pc = "call" /\ worker'["pricing"].i = 1
      BY <1>0, <1>6, <2>2 DEF FetchAndLock
    <3> QED BY <3>1 DEF UnlockProgress
  <2>3. CASE w # "pricing"
    <3>1. worker'["pricing"] = worker["pricing"]
      BY <1>0, <1>6, <2>3 DEF FetchAndLock
    <3> QED BY <1>4, <2>1, <3>1
  <2> QED BY <2>2, <2>3
<1>7. ASSUME NEW w \in Workers, Answered(w) \/ Refused(w) \/ SyncSwallowed(w) \/ Broken(w)
      PROVE  UnlockProgress'
  <2>1. Calling(w) /\ at' = at
    BY <1>7 DEF Answered, Refused, SyncSwallowed, Broken, camundaVars
  <2>2. PICK pc, i, n : Goto(w, pc, i, n)
    BY <1>7 DEF Answered, Refused, SyncSwallowed, Broken, Continue, Raise, NextCall, RollBackLocks
  <2>3. CASE w # "pricing"
    <3>1. worker'["pricing"] = worker["pricing"]
      BY <1>0, <2>2, <2>3 DEF Goto
    <3> QED BY <1>4, <2>1, <3>1
  <2>4. CASE w = "pricing" /\ Activity(w) = "LockPrices"
    <3>1. TaskOf("pricing")' = TaskOf("pricing")
      BY <1>0, <2>2, <2>4 DEF Goto, TaskOf
    <3> QED BY <2>1, <2>4, <3>1 DEF UnlockProgress, Activity, TaskOf
  <2>5. CASE w = "pricing" /\ Activity(w) = "UnlockPrices"
    <3>1. CASE Answered(w)
      BY <2>5, <3>1, UnlockAnswered
    <3>2. CASE Broken(w)
      <4>1. worker'["pricing"].pc = "fail"
        BY <1>0, <2>5, <3>2 DEF Broken, Raise, Goto
      <4> QED BY <4>1 DEF UnlockProgress
    <3>3. ~Refused(w)
      BY <1>0, <2>5 DEF Refused, Fault, Authorized
    <3>4. ~SyncSwallowed(w)
      BY <1>0, <2>1, <2>5, CallerAt DEF SyncSwallowed
    <3> QED BY <1>7, <3>1, <3>2, <3>3, <3>4
  <2>6. w = "pricing" => Activity(w) \in {"LockPrices", "UnlockPrices"}
    BY <1>0, <2>1, CallerAt
      DEF Busy, WorkerOf, Activities, Forward, Compensation
  <2> QED BY <2>3, <2>4, <2>5, <2>6
<1>8. ASSUME NEW w \in Workers, CompleteTask(w) \/ ThrowBpmnError(w) \/ FailTask(w)
      PROVE  UnlockProgress'
  <2>1. Busy(w) /\ worker' = [worker EXCEPT ![w] = Idle]
    BY <1>0, <1>8, CallingBusy DEF CompleteTask, ThrowBpmnError, FailTask
  <2>2. CASE w = "pricing"
    BY <1>0, <1>3, <2>1, <2>2 DEF Idle, TaskOf
  <2>3. CASE w # "pricing" /\ TaskOf("pricing") \in Sagas
    <3>1. worker'["pricing"] = worker["pricing"]
      BY <1>0, <2>1, <2>3
    <3>2. TaskOf(w) # TaskOf("pricing")
      BY <1>1, <2>1, <2>3 DEF Busy, Activity, TaskOf, WorkerOf
    <3>3. at'[TaskOf("pricing")] = at[TaskOf("pricing")]
      BY <1>0, <1>8, <2>3, <3>2 DEF CompleteTask, ThrowBpmnError, FailTask, TaskOf
    <3> QED BY <1>2, <2>3, <3>1, <3>3
  <2>4. CASE w # "pricing" /\ TaskOf("pricing") \notin Sagas
    BY <1>0, <1>3, <2>1, <2>4 DEF TaskOf
  <2> QED BY <2>2, <2>3, <2>4
<1> QED BY <1>0, <1>4, <1>5, <1>6, <1>7, <1>8, OrderlyStep
      DEF vars, camundaVars, InitiateWithoutSaga, CommitPublication, RetireOffering,
          ConsumeOfferingEvent, TokenExpires

\* When the pricing service answers no request with an error of its own, and as long
\* as the pricing worker's token is valid, a publication that has failed leaves no
\* price locked by its saga, whatever sagas share the prices.
THEOREM FailureReleasesAll ==
    ASSUME Faults \subseteq ReleaseFaults
    PROVE  Spec => []FailureReleasesPrices
<1>1. Init => ReleaseInv
  <2> SUFFICES ASSUME Init
               PROVE  ReleaseInv
    OBVIOUS
  <2>1. \A s \in Sagas : at[s] = "NotStarted"
    BY DEF Init
  <2>2. TaskOf("pricing") \notin Sagas
    BY SagaAssumption DEF Init, TaskOf, Idle, Workers
  <2>3. \A p \in Prices : lockedBy[p] \notin Sagas
    BY SagaAssumption DEF Init
  <2> QED BY <2>1, <2>2, <2>3, TypeInit
        DEF Init, ReleaseInv, LocksOwnPrices, Released, UnlockProgress
<1>2. ASSUME ReleaseInv, [Next]_vars
      PROVE  ReleaseInv'
  <2>0. TypeInv /\ late = {} /\ LocksOwnPrices /\ Faults \subseteq OrderlyFaults
    BY <1>2 DEF ReleaseInv, ReleaseFaults
  <2>1. TypeInv' /\ late' = {} /\ LocksOwnPrices'
    BY <1>2, <2>0, TypeStep, OrderlyStep, LocksOwnStep
  <2>2. "pricing" \in token' => "pricing" \in token
    BY <1>2, <2>0, TokenShrinks
  <2>3. "pricing" \in token' => Released'
    BY <1>2, <2>2, ReleasedStep DEF Released, NoLocks
  <2>4. "pricing" \in token' => UnlockProgress'
    BY <1>2, <2>2, UnlockProgressStep
  <2> QED BY <2>1, <2>3, <2>4 DEF ReleaseInv
<1>3. ReleaseInv => FailureReleasesPrices
  BY DEF ReleaseInv, Released, NoLocks, FailureReleasesPrices
<1>4. ReleaseInv /\ [Next]_vars => ReleaseInv'
  BY <1>2
<1> QED BY <1>1, <1>3, <1>4, PTL DEF Spec

-----------------------------------------------------------------------------
(* The refinement.  A publication is "undoing" from the moment its lock      *)
(* handler meets an error, so every unlock is one of an undone publication. *)

RetiredEvents ==
    \A o \in Offerings : \A i \in DOMAIN events[o] :
        events[o][i] = "OfferingRetired" => status[o] = "RETIRED"

IncidentsStarted == \A s \in incident : at[s] # "NotStarted"

TransactionInv ==
    /\ LocksInv
    /\ IncidentsStarted
    /\ EventsOnSale
    /\ RetiredEvents

\* The phase of a saga, arm by arm.
LEMMA PhaseIs ==
    ASSUME TypeInv, NEW s \in Sagas
    PROVE  /\ at[s] = "NotStarted" => Phase(s) = "idle"
           /\ at[s] = "LockPrices" /\ ~LockingFailed(s) => Phase(s) = "taking"
           /\ LockingFailed(s) => Phase(s) = "undoing"
           /\ at[s] \in Forward \ {"LockPrices"} /\ ~Confirmed(s) => Phase(s) = "holding"
           /\ Confirmed(s) => Phase(s) = "sold"
           /\ at[s] \in {"DeleteStoreEntry", "UnlockPrices"} \/ Reverting(s) => Phase(s) = "undoing"
           /\ at[s] \in {"RevertToDraft", "EndEvent_Error"} /\ ~Reverting(s) => Phase(s) = "over"
<1>1. Confirmed(s) => at[s] \in {"ConfirmPublication", "EndEvent_1"}
  BY DEF Confirmed
<1>2. Reverting(s) => at[s] = "RevertToDraft"
  BY DEF Reverting
<1>3. LockingFailed(s) => at[s] = "LockPrices"
  BY DEF LockingFailed
<1> QED BY <1>1, <1>2, <1>3 DEF Phase, PhaseAt, Forward

\* Owning the offering is being in the midst of the publication, or having sold.
LEMMA PhaseOwns ==
    ASSUME TypeInv, NEW s \in Sagas
    PROVE  Phase(s) \in {"idle", "over"} <=> ~Owns(s)
<1>1. Confirmed(s) => at[s] \in {"ConfirmPublication", "EndEvent_1"}
  BY DEF Confirmed
<1>2. at[s] = "EndEvent_1" => Confirmed(s)
  BY DEF Confirmed
<1>3. at[s] \in Activities \union Ends \union {"NotStarted"}
  BY DEF TypeInv, TypeOK
<1>4. LockingFailed(s) => at[s] = "LockPrices"
  BY DEF LockingFailed
<1> QED BY <1>1, <1>2, <1>3, <1>4, PhaseIs
      DEF Owns, Reverting, Activities, Forward, Compensation, Ends

\* A failed publication is undone, or has been.
LEMMA FailedPhase ==
    ASSUME TypeInv, NEW t \in Sagas, Failed(t)
    PROVE  Phases[t] \in {"undoing", "over"}
<1>1. CASE LockingFailed(t)
  BY <1>1, PhaseIs DEF Phases
<1>2. CASE at[t] \in {"DeleteStoreEntry", "UnlockPrices"} \/ Reverting(t)
  BY <1>2, PhaseIs DEF Phases
<1>3. CASE at[t] \in {"RevertToDraft", "EndEvent_Error"} /\ ~Reverting(t)
  BY <1>3, PhaseIs DEF Phases
<1> QED BY <1>1, <1>2, <1>3 DEF Failed, Compensation

LEMMA HoldsItsLocks ==
    ASSUME TypeInv, NEW s \in Sagas, KeepsItsPrices(s)
    PROVE  Transaction!Holds(s)
<1> SUFFICES ASSUME NEW p \in PriceSet(offeringOf[s]), Contested(s, p)
             PROVE  Transaction!Disputed(s, p)
  BY DEF KeepsItsPrices, StillHolds, PriceSet, Transaction!Holds, Transaction!PricesIn
<1>1. PICK t \in Sagas : /\ Failed(t)
                        /\ offeringOf[t] # offeringOf[s]
                        /\ p \in PriceSet(offeringOf[t])
  BY DEF Contested
<1> QED BY <1>1, FailedPhase DEF Transaction!Disputed, Transaction!PricesIn, PriceSet

\* What the offering worker is about to report of s.
Report(s) ==
    IF TaskOf("offering") = s /\ worker["offering"].pc \in {"complete", "fail"}
    THEN worker["offering"].pc ELSE "none"

\* The pricing worker's lock handler has met an error.
Rolls(s) == TaskOf("pricing") = s /\ worker["pricing"].pc \in {"rollback", "bpmnError", "fail"}

LEMMA PhaseKept ==
    ASSUME NEW s \in Sagas, at'[s] = at[s], s \in incident' <=> s \in incident,
           Report(s)' = Report(s), at[s] = "LockPrices" => (Rolls(s)' <=> Rolls(s))
    PROVE  Phase(s)' = Phase(s)
<1>1. Confirmed(s)' = Confirmed(s)
  BY DEF Confirmed, Report
<1>2. Reverting(s)' = Reverting(s)
  BY DEF Reverting, Report
<1>3. LockingFailed(s)' <=> LockingFailed(s)
  BY DEF LockingFailed, Rolls
<1> QED BY <1>1, <1>2, <1>3 DEF Phase

\* The phases of all sagas, when at most that of s changes.
LEMMA PhasesKept ==
    ASSUME \A t \in Sagas : Phase(t)' = Phase(t)
    PROVE  Phases' = Phases
BY DEF Phases

LEMMA OnePhase ==
    ASSUME NEW s \in Sagas, \A t \in Sagas \ {s} : Phase(t)' = Phase(t),
           NEW to, Phase(s)' = to
    PROVE  Phases' = [Phases EXCEPT ![s] = to]
BY DEF Phases

\* A handler that gets an answer, or none, moves the phase of its saga only if it is
\* the lock handler's, by an error, or the offering worker's, by a confirm it has
\* been granted or by its revert.
LEMMA HandlerPhases ==
    ASSUME TypeInv, NoIncidentHandled, NEW w \in Workers, Calling(w), NEW ok \in BOOLEAN,
           Continue(w, ok) \/ (Raise(w) /\ ~ok),
           UNCHANGED <<at, incident>>
    PROVE  \/ /\ Activity(w) \notin {"ConfirmPublication", "RevertToDraft"}
              /\ Phases' = Phases
           \/ /\ Activity(w) = "LockPrices" /\ worker[w].pc = "call" /\ ~ok
              /\ Phase(TaskOf(w)) = "taking"
              /\ Phases' = [Phases EXCEPT ![TaskOf(w)] = "undoing"]
           \/ /\ Activity(w) = "ConfirmPublication" /\ Phase(TaskOf(w)) = "holding"
              /\ Phases' = IF ok THEN [Phases EXCEPT ![TaskOf(w)] = "sold"] ELSE Phases
           \/ /\ Activity(w) = "RevertToDraft" /\ Phase(TaskOf(w)) = "undoing"
              /\ Phases' = [Phases EXCEPT ![TaskOf(w)] = "over"]
<1>0. /\ worker \in [Workers -> [task : Sagas \union {NoSaga}, pc : Pcs, i : Nat, n : Nat]]
      /\ "offering" \in Workers
  BY DEF TypeInv, TypeOK, Workers
<1>s. PICK s \in Sagas : s = TaskOf(w)
  BY CallingBusy DEF Calling, Busy
<1>1. Busy(w) /\ s = TaskOf(w) /\ Activity(w) = at[s]
  BY <1>s, CallingBusy DEF Calling, TaskOf, Activity
<1>2. PICK pc, i, n :
          /\ Goto(w, pc, i, n)
          /\ w = "offering" => IF ok \/ (Activity(w) \in Compensation /\ Continue(w, ok))
                               THEN pc = "complete"
                               ELSE pc \in {"bpmnError", "fail"} /\ (pc = "fail" \/ Activity(w) \in Forward)
  <2>1. CASE w # "offering"
    <3>1. \E pc, i, n : Goto(w, pc, i, n)
      BY DEF Continue, Raise, NextCall, RollBackLocks
    <3> QED BY <2>1, <3>1
  <2>2. CASE w = "offering"
    <3>1. Activity(w) \in {"ConfirmPublication", "RevertToDraft"} /\ worker[w].pc = "call"
      BY <1>1, <2>2 DEF Busy, Calling, WorkerOf, Activities, Forward, Compensation
    <3>2. Activity(w) # "LockPrices" /\ Activity(w) # "UnlockPrices" /\ worker[w].pc # "rollback"
      BY <3>1
    <3>3. CASE Continue(w, ok)
      <4>1. Goto(w, IF ok \/ Activity(w) \in Compensation THEN "complete" ELSE "bpmnError", 0, 0)
        BY <3>2, <3>3, Zenon DEF Continue
      <4>2. Activity(w) \notin Compensation => Activity(w) \in Forward
        BY <3>1 DEF Forward, Compensation
      <4>3. CASE ok \/ Activity(w) \in Compensation
        <5>1. Goto(w, "complete", 0, 0)
          BY <4>1, <4>3
        <5> QED BY <3>3, <4>3, <5>1
      <4>4. CASE ~(ok \/ Activity(w) \in Compensation)
        <5>1. Goto(w, "bpmnError", 0, 0)
          BY <4>1, <4>4
        <5> QED BY <4>2, <4>4, <5>1
      <4> QED BY <4>3, <4>4
    <3>4. CASE ~Continue(w, ok)
      <4>1. Goto(w, "fail", 0, 0) /\ ~ok
        BY <3>2, <3>4, Zenon DEF Raise
      <4> QED BY <3>4, <4>1
    <3> QED BY <3>3, <3>4
  <2> QED BY <2>1, <2>2
<1>3. worker' = [worker EXCEPT ![w] = [task |-> s, pc |-> pc, i |-> i, n |-> n]]
  BY <1>1, <1>2 DEF Goto, TaskOf
<1>4. CASE w \notin {"offering", "pricing"}
  <2>1. worker'["offering"] = worker["offering"] /\ worker'["pricing"] = worker["pricing"]
    BY <1>0, <1>3, <1>4
  <2>2. \A t \in Sagas : Phase(t)' = Phase(t)
    BY <2>1, PhaseKept DEF Report, Rolls, TaskOf
  <2>3. Activity(w) \notin {"ConfirmPublication", "RevertToDraft"}
    BY <1>1, <1>4 DEF Busy, WorkerOf
  <2> QED BY <2>2, <2>3, PhasesKept
<1>6. CASE w = "pricing"
  <2>1. worker'["offering"] = worker["offering"]
    BY <1>0, <1>3, <1>6
  <2>2. \A t \in Sagas : Report(t)' = Report(t)
    BY <2>1 DEF Report, TaskOf
  <2>3. \A t \in Sagas \ {s} : ~Rolls(t) /\ ~Rolls(t)'
    BY <1>0, <1>1, <1>3, <1>6 DEF Rolls, TaskOf
  <2>4. \A t \in Sagas \ {s} : Phase(t)' = Phase(t)
    BY <2>2, <2>3, PhaseKept
  <2>5. Activity(w) \in {"LockPrices", "UnlockPrices"} /\ s \notin incident
    BY <1>1, <1>6 DEF Busy, WorkerOf, Activities, Forward, Compensation, NoIncidentHandled
  <2>6. CASE Activity(w) = "UnlockPrices"
    <3>1. Phase(s)' = Phase(s)
      BY <1>1, <2>2, <2>6, PhaseKept
    <3> QED BY <2>4, <2>6, <3>1, PhasesKept
  <2>7. CASE Activity(w) = "LockPrices" /\ worker[w].pc = "rollback"
    <3>1. worker'["pricing"].pc \in {"rollback", "bpmnError", "fail"}
      BY <1>0, <1>6, <2>7 DEF Continue, Raise, NextCall, Goto
    <3>2. Rolls(s) /\ Rolls(s)'
      BY <1>0, <1>1, <1>3, <1>6, <2>7, <3>1 DEF Rolls, TaskOf
    <3>3. Phase(s)' = Phase(s)
      BY <2>2, <3>2, PhaseKept
    <3> QED BY <2>4, <2>7, <3>3, PhasesKept
  <2>8. CASE Activity(w) = "LockPrices" /\ worker[w].pc = "call" /\ ok
    <3>1. worker'["pricing"].pc \in {"call", "complete"}
      BY <1>0, <1>6, <2>8 DEF Continue, NextCall, Goto
    <3>2. ~Rolls(s) /\ ~Rolls(s)'
      BY <1>6, <2>8, <3>1 DEF Rolls
    <3>3. Phase(s)' = Phase(s)
      BY <2>2, <3>2, PhaseKept
    <3> QED BY <2>4, <2>8, <3>3, PhasesKept
  <2>9. CASE Activity(w) = "LockPrices" /\ worker[w].pc = "call" /\ ~ok
    <3>1. worker'["pricing"].pc \in {"rollback", "bpmnError"}
      BY <1>0, <1>6, <2>9 DEF Continue, Raise, RollBackLocks, Goto
    <3>2. Rolls(s)' /\ at'[s] = "LockPrices"
      BY <1>0, <1>1, <1>3, <1>6, <2>9, <3>1 DEF Rolls, TaskOf
    <3>3. LockingFailed(s)'
      BY <3>2 DEF LockingFailed, Rolls
    <3>4. Phase(s)' = "undoing"
      BY <3>2, <3>3 DEF Phase, Confirmed
    <3>5. ~LockingFailed(s)
      BY <1>6, <2>5, <2>9 DEF LockingFailed
    <3>6. Phase(s) = "taking"
      BY <1>1, <2>9, <3>5, PhaseIs
    <3> QED BY <1>1, <2>4, <2>9, <3>4, <3>6, OnePhase
  <2> QED BY <2>5, <2>6, <2>7, <2>8, <2>9 DEF Calling
<1>5. CASE w = "offering"
  <2>1. Activity(w) \in {"ConfirmPublication", "RevertToDraft"}
    BY <1>1, <1>5 DEF Busy, WorkerOf, Activities, Forward, Compensation
  <2>2. worker["offering"].pc = "call" /\ TaskOf("offering") = s
    BY <1>1, <1>5, <2>1 DEF Busy, Calling
  <2>3. \A t \in Sagas \ {s} : Report(t)' = Report(t)
    BY <1>0, <1>3, <1>5, <2>2 DEF Report, TaskOf
  <2>r. \A t \in Sagas : Rolls(t)' <=> Rolls(t)
    BY <1>0, <1>3, <1>5 DEF Rolls, TaskOf
  <2>4. \A t \in Sagas \ {s} : Phase(t)' = Phase(t)
    BY <2>3, <2>r, PhaseKept
  <2>5. worker'["offering"].task = s /\ worker'["offering"].pc = pc
    BY <1>0, <1>3, <1>5
  <2>6. CASE at[s] = "ConfirmPublication"
    <3>1. ~Confirmed(s)
      BY <2>2, <2>6 DEF Confirmed
    <3>2. Phase(s) = "holding"
      BY <1>1, <2>6, <3>1, PhaseIs DEF Forward
    <3>3. pc = "complete" <=> ok
      <4>1. Activity(w) \notin Compensation
        BY <1>1, <2>6 DEF Compensation
      <4> QED BY <1>2, <1>5, <4>1
    <3>4. Confirmed(s)' <=> ok
      BY <2>5, <2>6, <3>3 DEF Confirmed, TaskOf
    <3>5. Phase(s)' = IF ok THEN "sold" ELSE "holding"
      BY <2>6, <3>4 DEF Phase, PhaseAt, LockingFailed
    <3>6. CASE ok
      BY <1>1, <2>4, <2>6, <3>2, <3>5, <3>6, OnePhase
    <3>7. CASE ~ok
      <4>1. \A t \in Sagas : Phase(t)' = Phase(t)
        BY <2>4, <3>2, <3>5, <3>7
      <4> QED BY <1>1, <2>6, <3>2, <3>7, <4>1, PhasesKept
    <3> QED BY <3>6, <3>7
  <2>7. CASE at[s] = "RevertToDraft"
    <3>1. s \notin incident
      BY <1>1 DEF NoIncidentHandled
    <3>2. Reverting(s)
      BY <2>2, <2>7, <3>1 DEF Reverting
    <3>3. Phase(s) = "undoing"
      BY <1>1, <3>2, PhaseIs
    <3>4. pc \in {"complete", "fail"}
      <4>1. Activity(w) \notin Forward
        BY <1>1, <2>7 DEF Forward
      <4> QED BY <1>2, <1>5, <4>1
    <3>5. ~Reverting(s)' /\ ~Confirmed(s)'
      BY <2>5, <2>7, <3>4 DEF Reverting, Confirmed, TaskOf
    <3>6. Phase(s)' = "over"
      BY <2>7, <3>5 DEF Phase
    <3> QED BY <1>1, <2>4, <2>7, <3>3, <3>6, OnePhase
  <2> QED BY <1>1, <2>1, <2>6, <2>7
<1> QED BY <1>4, <1>5, <1>6

\* A worker that has reported leaves the reports of other sagas as they are.
LEMMA ReportsKept ==
    ASSUME TypeInv, NEW w \in Workers, Busy(w), NEW s \in Sagas, s = TaskOf(w),
           worker' = [worker EXCEPT ![w] = Idle]
    PROVE  /\ Report(s)' = "none"
           /\ w # "offering" => Report(s) = "none"
           /\ \A t \in Sagas \ {s} : Report(t)' = Report(t) /\ (Rolls(t)' <=> Rolls(t))
<1>0. /\ worker \in [Workers -> [task : Sagas \union {NoSaga}, pc : Pcs, i : Nat, n : Nat]]
      /\ "offering" \in Workers /\ "pricing" \in Workers /\ NoSaga \notin Sagas
  BY SagaAssumption DEF TypeInv, TypeOK, Workers
<1>r. \A t \in Sagas \ {s} : Rolls(t)' <=> Rolls(t)
  <2>1. CASE w = "pricing"
    BY <1>0, <2>1 DEF Rolls, TaskOf, Idle
  <2>2. CASE w # "pricing"
    BY <1>0, <2>2 DEF Rolls, TaskOf
  <2> QED BY <2>1, <2>2
<1>1. CASE w = "offering"
  BY <1>0, <1>1, <1>r DEF Report, TaskOf, Idle
<1>2. CASE w # "offering"
  <2>1. worker'["offering"] = worker["offering"]
    BY <1>0, <1>2
  <2>2. TaskOf("offering") # s
    <3>1. CASE Busy("offering")
      BY <1>2, <3>1 DEF Busy, Activity, TaskOf
    <3>2. CASE worker["offering"] = Idle
      BY <1>0, <3>2 DEF Idle, TaskOf
    <3> QED BY <1>0, <3>1, <3>2 DEF TypeInv, WorkersOK
  <2> QED BY <1>2, <1>r, <2>1, <2>2 DEF Report, TaskOf
<1> QED BY <1>1, <1>2

LEMMA CompletePhases ==
    ASSUME TypeInv, NoIncidentHandled, NEW w \in Workers, CompleteTask(w)
    PROVE  \/ /\ Activity(w) = "LockPrices" /\ Phase(TaskOf(w)) = "taking"
              /\ Phases' = [Phases EXCEPT ![TaskOf(w)] = "holding"]
           \/ Activity(w) # "LockPrices" /\ Phases' = Phases
<1>0. at \in [Sagas -> Activities \union Ends \union {"NotStarted"}]
  BY DEF TypeInv, TypeOK
<1>1. PICK s \in Sagas : s = TaskOf(w)
  BY CallingBusy DEF CompleteTask, Busy
<1>2. Busy(w) /\ Activity(w) = at[s] /\ at[s] \in Activities /\ WorkerOf[at[s]] = w
      /\ worker[w].pc = "complete" /\ s \notin incident
  BY <1>1, CallingBusy DEF CompleteTask, Busy, Activity, TaskOf, NoIncidentHandled
<1>3. /\ at' = [at EXCEPT ![s] = OnComplete[at[s]]]
      /\ worker' = [worker EXCEPT ![w] = Idle] /\ incident' = incident
  BY <1>1, <1>2 DEF CompleteTask, TaskOf
<1>4. /\ Report(s)' = "none"
      /\ w # "offering" => Report(s) = "none"
      /\ \A t \in Sagas \ {s} : Report(t)' = Report(t) /\ (Rolls(t)' <=> Rolls(t))
  BY <1>1, <1>2, <1>3, ReportsKept
<1>5. \A t \in Sagas \ {s} : at'[t] = at[t]
  BY <1>0, <1>3
<1>6. \A t \in Sagas \ {s} : Phase(t)' = Phase(t)
  BY <1>3, <1>4, <1>5, PhaseKept
<1>7. at'[s] = OnComplete[at[s]]
  BY <1>0, <1>3
<1>8. CASE at[s] = "LockPrices"
  <2>1. Phase(s) = "taking"
    <3>1. w = "pricing"
      BY <1>2, <1>8 DEF WorkerOf
    <3>2. ~LockingFailed(s)
      BY <1>2, <3>1 DEF LockingFailed
    <3> QED BY <1>8, <3>2, PhaseIs
  <2>2. at'[s] = "ValidateSpecs"
    BY <1>7, <1>8 DEF OnComplete
  <2>3. Phase(s)' = "holding"
    BY <2>2 DEF Phase, PhaseAt, Confirmed, LockingFailed
  <2> QED BY <1>1, <1>2, <1>6, <1>8, <2>1, <2>3, OnePhase
<1>9. ASSUME at[s] # "LockPrices" PROVE Phase(s)' = Phase(s)
  <2>1. CASE at[s] \in {"ValidateSpecs", "CreateStoreEntry"}
    <3>1. at'[s] \in {"CreateStoreEntry", "ConfirmPublication"}
      BY <1>7, <2>1 DEF OnComplete
    <3>2. ~Confirmed(s)' /\ ~Confirmed(s)
      BY <1>4, <2>1, <3>1 DEF Confirmed, Report
    <3> QED BY <2>1, <3>1, <3>2 DEF Phase, PhaseAt, LockingFailed
  <2>2. CASE at[s] = "ConfirmPublication"
    <3>1. w = "offering"
      BY <1>2, <2>2 DEF WorkerOf
    <3>2. Confirmed(s)
      BY <1>1, <1>2, <2>2, <3>1 DEF Confirmed
    <3>3. Confirmed(s)'
      BY <1>7, <2>2 DEF OnComplete, Confirmed
    <3> QED BY <3>2, <3>3 DEF Phase
  <2>3. CASE at[s] \in {"DeleteStoreEntry", "UnlockPrices"}
    <3>1. at'[s] \in {"UnlockPrices", "RevertToDraft"}
      BY <1>7, <2>3 DEF OnComplete
    <3>2. ~Confirmed(s)' /\ ~Confirmed(s)
      BY <2>3, <3>1 DEF Confirmed
    <3>3. at'[s] = "RevertToDraft" => Reverting(s)'
      BY <1>2, <1>3, <1>4 DEF Reverting, Report
    <3> QED BY <2>3, <3>1, <3>2, <3>3 DEF Phase, PhaseAt, LockingFailed
  <2>4. CASE at[s] = "RevertToDraft"
    <3>1. w = "offering"
      BY <1>2, <2>4 DEF WorkerOf
    <3>2. ~Reverting(s) /\ ~Confirmed(s)
      BY <1>1, <1>2, <2>4, <3>1 DEF Reverting, Confirmed
    <3>3. at'[s] = "EndEvent_Error"
      BY <1>7, <2>4 DEF OnComplete
    <3>4. ~Confirmed(s)'
      BY <3>3 DEF Confirmed
    <3> QED BY <2>4, <3>2, <3>3, <3>4 DEF Phase, PhaseAt, LockingFailed
  <2> QED BY <1>2, <1>9, <2>1, <2>2, <2>3, <2>4 DEF Activities, Forward, Compensation
<1>10. CASE at[s] # "LockPrices"
  <2>1. \A t \in Sagas : Phase(t)' = Phase(t)
    BY <1>6, <1>9, <1>10
  <2> QED BY <1>2, <1>10, <2>1, PhasesKept
<1> QED BY <1>8, <1>10

LEMMA ErrorPhases ==
    ASSUME TypeInv, NoIncidentHandled, NEW w \in Workers, ThrowBpmnError(w)
    PROVE  \/ Phases' = Phases
           \/ /\ Phase(TaskOf(w)) = "holding"
              /\ Phases' = [Phases EXCEPT ![TaskOf(w)] = "undoing"]
<1>0. at \in [Sagas -> Activities \union Ends \union {"NotStarted"}]
  BY DEF TypeInv, TypeOK
<1>1. PICK s \in Sagas : s = TaskOf(w)
  BY CallingBusy DEF ThrowBpmnError, Busy
<1>2. Busy(w) /\ Activity(w) = at[s] /\ at[s] \in Forward /\ WorkerOf[at[s]] = w
      /\ worker[w].pc = "bpmnError" /\ s \notin incident
  BY <1>1, CallingBusy DEF ThrowBpmnError, Busy, Activity, TaskOf, NoIncidentHandled
<1>3. /\ at' = [at EXCEPT ![s] = OnError[at[s]]]
      /\ worker' = [worker EXCEPT ![w] = Idle] /\ incident' = incident
  BY <1>1, <1>2 DEF ThrowBpmnError, TaskOf
<1>4. \A t \in Sagas \ {s} : Report(t)' = Report(t) /\ (Rolls(t)' <=> Rolls(t))
  BY <1>1, <1>2, <1>3, ReportsKept
<1>5. \A t \in Sagas \ {s} : at'[t] = at[t]
  BY <1>0, <1>3
<1>6. \A t \in Sagas \ {s} : Phase(t)' = Phase(t)
  BY <1>3, <1>4, <1>5, PhaseKept
<1>7. at'[s] \in {"DeleteStoreEntry", "UnlockPrices"}
  BY <1>0, <1>2, <1>3 DEF OnError, Forward
<1>8. Phase(s)' = "undoing"
  BY <1>7 DEF Phase, PhaseAt, Confirmed, LockingFailed
<1>9. ~Confirmed(s)
  BY <1>2 DEF Confirmed, Forward, WorkerOf
<1>10. CASE at[s] = "LockPrices"
  <2>1. w = "pricing"
    BY <1>2, <1>10 DEF WorkerOf
  <2>2. LockingFailed(s)
    BY <1>1, <1>2, <1>10, <2>1 DEF LockingFailed
  <2>3. Phase(s)' = Phase(s)
    BY <1>8, <2>2, PhaseIs
  <2>4. \A t \in Sagas : Phase(t)' = Phase(t)
    BY <1>6, <2>3
  <2> QED BY <2>4, PhasesKept
<1>11. CASE at[s] # "LockPrices"
  <2>1. Phase(s) = "holding"
    BY <1>2, <1>9, <1>11, PhaseIs
  <2> QED BY <1>1, <1>6, <1>8, <2>1, OnePhase
<1> QED BY <1>10, <1>11

LEMMA FailPhases ==
    ASSUME TypeInv, NEW w \in Workers, FailTask(w)
    PROVE  Phases' = Phases
<1>1. PICK s \in Sagas : s = TaskOf(w)
  BY CallingBusy DEF FailTask, Busy
<1>2. Busy(w) /\ at[s] \in Activities /\ WorkerOf[at[s]] = w /\ worker[w].pc = "fail"
  BY <1>1, CallingBusy DEF FailTask, Busy, Activity, TaskOf
<1>3. /\ at' = at /\ worker' = [worker EXCEPT ![w] = Idle]
      /\ incident' = incident \union {s}
  BY <1>1 DEF FailTask, TaskOf
<1>4. /\ Report(s)' = "none"
      /\ w # "offering" => Report(s) = "none"
      /\ \A t \in Sagas \ {s} : Report(t)' = Report(t) /\ (Rolls(t)' <=> Rolls(t))
  BY <1>1, <1>2, <1>3, ReportsKept
<1>5. \A t \in Sagas \ {s} : Phase(t)' = Phase(t)
  BY <1>3, <1>4, PhaseKept
<1>6. ~Confirmed(s) /\ ~Confirmed(s)'
  <2>1. at[s] # "EndEvent_1"
    BY <1>2 DEF Activities, Forward, Compensation
  <2>2. ~Confirmed(s)
    <3>1. CASE w = "offering"
      BY <1>1, <1>2, <2>1, <3>1 DEF Confirmed
    <3>2. CASE w # "offering"
      BY <1>4, <2>1, <3>2 DEF Confirmed, Report
    <3> QED BY <3>1, <3>2
  <2>3. ~Confirmed(s)'
    BY <1>3, <1>4, <2>1 DEF Confirmed, Report
  <2> QED BY <2>2, <2>3
<1>7. ~Reverting(s) /\ ~Reverting(s)'
  <2>1. ~Reverting(s)
    BY <1>1, <1>2 DEF Reverting, WorkerOf
  <2>2. ~Reverting(s)'
    BY <1>3 DEF Reverting
  <2> QED BY <2>1, <2>2
<1>8. Phase(s)' = Phase(s)
  <2>1. CASE at[s] = "LockPrices"
    <3>1. w = "pricing"
      BY <1>2, <2>1 DEF WorkerOf
    <3>2. LockingFailed(s) /\ LockingFailed(s)'
      BY <1>1, <1>2, <1>3, <2>1, <3>1 DEF LockingFailed
    <3> QED BY <1>3, <1>6, <1>7, <3>2 DEF Phase
  <2>2. CASE at[s] # "LockPrices"
    BY <1>3, <1>6, <1>7, <2>2 DEF Phase, LockingFailed
  <2> QED BY <2>1, <2>2
<1>9. \A t \in Sagas : Phase(t)' = Phase(t)
  BY <1>5, <1>8
<1> QED BY <1>9, PhasesKept

LEMMA FetchPhases ==
    ASSUME TypeInv, NEW w \in Workers, NEW s \in Sagas, FetchAndLock(w, s)
    PROVE  Phases' = Phases
<1>0. /\ worker \in [Workers -> [task : Sagas \union {NoSaga}, pc : Pcs, i : Nat, n : Nat]]
      /\ "offering" \in Workers /\ "pricing" \in Workers
  BY DEF TypeInv, TypeOK, Workers
<1>1. \A t \in Sagas : Report(t)' = Report(t) /\ (Rolls(t)' <=> Rolls(t))
  <2>1. CASE w = "pricing"
    BY <1>0, <2>1 DEF FetchAndLock, Report, Rolls, TaskOf, Idle
  <2>2. CASE w # "pricing"
    BY <1>0, <2>2 DEF FetchAndLock, Report, Rolls, TaskOf, Idle
  <2> QED BY <2>1, <2>2
<1>2. \A t \in Sagas : Phase(t)' = Phase(t)
  BY <1>1, PhaseKept DEF FetchAndLock, camundaVars
<1> QED BY <1>2, PhasesKept

LEMMA StartPhases ==
    ASSUME TypeInv, IncidentsStarted, NEW o \in Offerings, NEW s \in Sagas,
           InitiatePublication(o, s)
    PROVE  Phase(s) = "idle" /\ Phases' = [Phases EXCEPT ![s] = "taking"]
<1>0. at \in [Sagas -> Activities \union Ends \union {"NotStarted"}]
  BY DEF TypeInv, TypeOK
<1>1. Phase(s) = "idle"
  BY PhaseIs DEF InitiatePublication
<1>2. \A t \in Sagas : Report(t)' = Report(t) /\ (Rolls(t)' <=> Rolls(t))
  BY DEF InitiatePublication, Report, Rolls, TaskOf
<1>3. \A t \in Sagas \ {s} : Phase(t)' = Phase(t)
  BY <1>0, <1>2, PhaseKept DEF InitiatePublication
<1>4. at'[s] = "LockPrices"
  BY <1>0 DEF InitiatePublication
<1>6. ~LockingFailed(s)'
  <2>1. s \notin incident
    BY DEF IncidentsStarted, InitiatePublication
  <2>2. ~Rolls(s)
    <3>1. SUFFICES ASSUME Rolls(s) PROVE FALSE
      OBVIOUS
    <3>2. Busy("pricing")
      BY <3>1, CallingBusy DEF Rolls, Workers
    <3> QED BY <3>1, <3>2
          DEF InitiatePublication, Rolls, Busy, Activity, TaskOf, Activities, Forward, Compensation
  <2> QED BY <2>1, <2>2 DEF InitiatePublication, LockingFailed, Rolls, TaskOf
<1>5. Phase(s)' = "taking"
  BY <1>4, <1>6 DEF Phase, PhaseAt, Confirmed
<1> QED BY <1>1, <1>3, <1>5, OnePhase

\* A retired offering stays retired.
LEMMA RetiredStays ==
    ASSUME TypeInv, CommittingDraft, [Next]_vars, NEW o \in Offerings, status[o] = "RETIRED"
    PROVE  status'[o] = "RETIRED"
<1>0. status \in [Offerings -> {"DRAFT", "PUBLISHING", "PUBLISHED", "RETIRED"}]
  BY DEF TypeInv, TypeOK
<1>1. ASSUME NEW q \in Offerings, CommitPublication(q)
      PROVE  status'[o] = "RETIRED"
  BY <1>0, <1>1 DEF CommitPublication, CommittingDraft
<1>2. ASSUME NEW q \in Offerings,
             \/ Writes(q, "PUBLISHED", "RETIRED")
             \/ Writes(q, "PUBLISHING", "DRAFT")
             \/ Writes(q, "PUBLISHING", "PUBLISHED")
      PROVE  status'[o] = "RETIRED"
  BY <1>0, <1>2 DEF Writes
<1>3. CASE status' = status
  BY <1>3
<1> QED BY <1>1, <1>2, <1>3, StatusStep

LEMMA RetiredStep ==
    ASSUME Faults \subseteq OrderlyFaults, TypeInv, CommittingDraft, late = {}, RetiredEvents,
           [Next]_vars
    PROVE  RetiredEvents'
<1> DEFINE E == {"OfferingPublished", "OfferingRetired"}
<1>0. /\ status \in [Offerings -> {"DRAFT", "PUBLISHING", "PUBLISHED", "RETIRED"}]
      /\ events \in [Offerings -> Seq(E)]
  BY DEF TypeInv, TypeOK
<1> SUFFICES ASSUME NEW o \in Offerings, NEW i \in DOMAIN events'[o],
                    events'[o][i] = "OfferingRetired"
             PROVE  status'[o] = "RETIRED"
  BY DEF RetiredEvents
<1>1. ASSUME events'[o] = events[o]
      PROVE  status'[o] = "RETIRED"
  BY <1>1, RetiredStays DEF RetiredEvents
<1>2. CASE RetireOffering(o)
  BY <1>0, <1>2 DEF RetireOffering
<1>3. CASE ConsumeOfferingEvent(o)
  <2>1. events'[o] = Tail(events[o]) /\ events[o] # <<>> /\ events[o] \in Seq(E)
    BY <1>0, <1>3 DEF ConsumeOfferingEvent
  <2>2. Len(Tail(events[o])) = Len(events[o]) - 1 /\ DOMAIN Tail(events[o]) = 1 .. Len(Tail(events[o]))
        /\ DOMAIN events[o] = 1 .. Len(events[o]) /\ Len(events[o]) \in Nat
    BY <2>1
  <2>3. i \in Nat /\ i + 1 \in DOMAIN events[o]
    BY <2>1, <2>2
  <2>4. Tail(events[o])[i] = events[o][i + 1]
    BY <2>1, <2>2
  <2> QED BY <2>1, <2>3, <2>4, RetiredStays DEF RetiredEvents
<1>4. ASSUME NEW w \in Workers, Answered(w)
      PROVE  status'[o] = "RETIRED"
  <2>1. PICK ok \in BOOLEAN : Request(CallOf(w), ok) /\ Calling(w)
    BY <1>4 DEF Answered
  <2>2. PICK q \in Offerings : q = offeringOf[CallOf(w).saga]
    BY <2>1, CallerAt
  <2>3. CASE events' = events
    BY <1>1, <2>3
  <2>4. CASE /\ Writes(q, "PUBLISHING", "PUBLISHED")
             /\ events' = [events EXCEPT ![q] = Append(events[q], "OfferingPublished")]
    <3>1. CASE o # q
      BY <1>0, <1>1, <2>4, <3>1
    <3>2. CASE o = q
      <4>1. events'[o] = Append(events[o], "OfferingPublished") /\ events[o] \in Seq(E)
        BY <1>0, <2>4, <3>2
      <4>2. i \in 1 .. (Len(events[o]) + 1) /\ Len(events[o]) \in Nat
            /\ DOMAIN events[o] = 1 .. Len(events[o])
        BY <4>1
      <4>3. i # Len(events[o]) + 1
        BY <4>1
      <4>4. i \in DOMAIN events[o] /\ events[o][i] = "OfferingRetired"
        BY <4>1, <4>2, <4>3
      <4> QED BY <4>4, RetiredStays DEF RetiredEvents
    <3> QED BY <3>1, <3>2
  <2> QED BY <2>1, <2>2, <2>3, <2>4, RequestStore
<1>5. ASSUME NEW q \in Offerings, q # o, RetireOffering(q) \/ ConsumeOfferingEvent(q)
      PROVE  status'[o] = "RETIRED"
  <2>1. events'[o] = events[o]
    BY <1>0, <1>5 DEF RetireOffering, ConsumeOfferingEvent
  <2> QED BY <1>1, <2>1
<1>6. CASE events' = events
  BY <1>1, <1>6
<1> QED BY <1>2, <1>3, <1>4, <1>5, <1>6, OrderlyStep
      DEF vars, offeringVars, serviceVars, InitiatePublication, InitiateWithoutSaga,
          CommitPublication, FetchAndLock, Refused, SyncSwallowed, Broken, CompleteTask,
          ThrowBpmnError, FailTask, TokenExpires

-----------------------------------------------------------------------------
\* What the transaction sees of the status.
LEMMA LifecycleWrites ==
    ASSUME TypeInv, CommittingDraft, NEW o \in Offerings, NEW old, NEW new, old # "DRAFT",
           Writes(o, old, new), committing' = committing
    PROVE  Lifecycle[o] = old /\ Lifecycle' = [Lifecycle EXCEPT ![o] = new]
<1>1. o \notin committing
  BY DEF CommittingDraft, Writes
<1>2. status' = [status EXCEPT ![o] = new] /\ status[o] = old
  BY DEF Writes
<1>3. status \in [Offerings -> {"DRAFT", "PUBLISHING", "PUBLISHED", "RETIRED"}]
  BY DEF TypeInv, TypeOK
<1> QED BY <1>1, <1>2, <1>3 DEF Lifecycle

LEMMA LifecycleBegins ==
    ASSUME NEW o \in Offerings, status[o] = "DRAFT", o \notin committing,
           committing' = committing \union {o}, status' = status
    PROVE  Lifecycle[o] = "DRAFT" /\ Lifecycle' = [Lifecycle EXCEPT ![o] = "PUBLISHING"]
BY DEF Lifecycle

LEMMA LifecycleCommits ==
    ASSUME TypeInv, NEW o \in Offerings, CommitPublication(o)
    PROVE  Lifecycle' = Lifecycle
<1>1. status \in [Offerings -> {"DRAFT", "PUBLISHING", "PUBLISHED", "RETIRED"}]
  BY DEF TypeInv, TypeOK
<1> QED BY <1>1 DEF Lifecycle, CommitPublication

\* A begin finds the offering free: who owns it has made it more than a DRAFT.
LEMMA DraftIsFree ==
    ASSUME TypeInv, OwnersNotDraft, NEW o \in Offerings, status[o] = "DRAFT",
           o \notin committing
    PROVE  Transaction!Free(o)
<1>1. \A s \in Sagas : offeringOf[s] = o => ~Owns(s)
  BY DEF OwnersNotDraft
<1>2. \A s \in Sagas : offeringOf[s] = o => Phases[s] \in {"idle", "over"}
  BY <1>1, PhaseOwns DEF Phases
<1> QED BY <1>2 DEF Transaction!Free

LEMMA UserTransaction ==
    ASSUME TransactionInv, NEW o \in Offerings,
           \/ \E s \in Sagas : InitiatePublication(o, s)
           \/ InitiateWithoutSaga(o) \/ CommitPublication(o)
           \/ RetireOffering(o) \/ ConsumeOfferingEvent(o)
    PROVE  [Transaction!Next]_(Transaction!publicationVars)
<1>0. /\ TypeInv /\ CommittingDraft /\ OwnersNotDraft /\ EventsOnSale /\ RetiredEvents
      /\ IncidentsStarted
      /\ events[o] \in Seq({"OfferingPublished", "OfferingRetired"})
  BY DEF TransactionInv, LocksInv, OwnersInv, TypeInv, TypeOK
<1>1. ASSUME NEW s \in Sagas, InitiatePublication(o, s)
      PROVE  Transaction!Begin(o, s)
  <2>1. Phases[s] = "idle" /\ Phases' = [Phases EXCEPT ![s] = "taking"]
    BY <1>0, <1>1, StartPhases DEF Phases
  <2>2. Lifecycle[o] = "DRAFT" /\ Lifecycle' = [Lifecycle EXCEPT ![o] = "PUBLISHING"]
    BY <1>1, LifecycleBegins DEF InitiatePublication, serviceVars
  <2>3. Transaction!Free(o)
    BY <1>0, <1>1, DraftIsFree DEF InitiatePublication
  <2>4. offeringOf' = [offeringOf EXCEPT ![s] = o] /\ UNCHANGED <<lockedBy, inStore>>
    BY <1>1 DEF InitiatePublication, serviceVars
  <2> QED BY <2>1, <2>2, <2>3, <2>4
        DEF Transaction!Begin, Transaction!Becomes, Transaction!Moves
<1>2. ASSUME UNCHANGED <<at, incident, worker>>
      PROVE  Phases' = Phases
  BY <1>2, PhaseKept, PhasesKept DEF Report, Rolls, TaskOf
<1>3. CASE InitiateWithoutSaga(o)
  <2>1. Lifecycle[o] = "DRAFT" /\ Lifecycle' = [Lifecycle EXCEPT ![o] = "PUBLISHING"]
    BY <1>3, LifecycleBegins DEF InitiateWithoutSaga, serviceVars
  <2>2. Transaction!Free(o)
    BY <1>0, <1>3, DraftIsFree DEF InitiateWithoutSaga
  <2>3. UNCHANGED <<Phases, offeringOf, lockedBy, inStore>>
    BY <1>2, <1>3 DEF InitiateWithoutSaga, serviceVars, camundaVars
  <2>4. Transaction!BeginInVain(o)
    BY <2>1, <2>2, <2>3 DEF Transaction!BeginInVain, Transaction!Becomes
  <2> QED BY <2>4 DEF Transaction!Next
<1>4. CASE CommitPublication(o)
  <2>1. UNCHANGED <<Lifecycle, Phases, offeringOf, lockedBy, inStore>>
    BY <1>0, <1>2, <1>4, LifecycleCommits DEF CommitPublication, camundaVars
  <2> QED BY <2>1 DEF Transaction!publicationVars
<1>5. CASE RetireOffering(o)
  <2>1. Lifecycle[o] = "PUBLISHED" /\ Lifecycle' = [Lifecycle EXCEPT ![o] = "RETIRED"]
    BY <1>0, <1>5, LifecycleWrites DEF RetireOffering, Writes
  <2>2. UNCHANGED <<Phases, offeringOf, lockedBy, inStore>>
    BY <1>2, <1>5 DEF RetireOffering, camundaVars
  <2>3. Transaction!Retire(o)
    BY <2>1, <2>2 DEF Transaction!Retire, Transaction!Becomes
  <2> QED BY <2>3 DEF Transaction!Next
<1>6. CASE ConsumeOfferingEvent(o)
  <2>1. UNCHANGED <<Lifecycle, Phases, offeringOf, lockedBy>>
    BY <1>2, <1>6 DEF ConsumeOfferingEvent, camundaVars, Lifecycle
  <2>2. events[o] # <<>> /\ 1 \in DOMAIN events[o] /\ Head(events[o]) = events[o][1]
        /\ events[o][1] \in {"OfferingPublished", "OfferingRetired"}
    BY <1>0, <1>6 DEF ConsumeOfferingEvent
  <2>3. status[o] \in {"PUBLISHED", "RETIRED"} /\ Lifecycle[o] = status[o]
    BY <1>0, <2>2 DEF EventsOnSale, CommittingDraft, Lifecycle
  <2>4. CASE inStore' = inStore \union {o}
    <3>1. Transaction!Learn(o)
      BY <2>1, <2>3, <2>4 DEF Transaction!Learn
    <3> QED BY <3>1 DEF Transaction!Next
  <2>5. CASE inStore' = inStore \ {o} /\ Head(events[o]) # "OfferingPublished"
    <3>1. status[o] = "RETIRED"
      BY <1>0, <2>2, <2>5 DEF RetiredEvents
    <3>2. Transaction!Learn(o)
      BY <2>1, <2>3, <2>5, <3>1 DEF Transaction!Learn
    <3> QED BY <3>2 DEF Transaction!Next
  <2>6. CASE inStore' = inStore
    BY <2>1, <2>6 DEF Transaction!publicationVars
  <2> QED BY <1>6, <2>4, <2>5, <2>6 DEF ConsumeOfferingEvent
<1> QED BY <1>1, <1>3, <1>4, <1>5, <1>6 DEF Transaction!Next

\* What a worker asks for at an activity.
LEMMA CallOp ==
    ASSUME TypeInv, NEW w \in Workers, Calling(w)
    PROVE  /\ w = "pricing" => CallOf(w).op \in {"lock", "unlock"}
           /\ w = "pricing" => Activity(w) \in {"LockPrices", "UnlockPrices"}
           /\ w = "specification" => Activity(w) = "ValidateSpecs"
           /\ w = "store" => Activity(w) \in {"CreateStoreEntry", "DeleteStoreEntry"}
           /\ w = "offering" => Activity(w) \in {"ConfirmPublication", "RevertToDraft"}
           /\ w # "pricing" => CallOf(w).op = OpOf[Activity(w)]
           /\ CallOf(w).op = "lock" => Activity(w) = "LockPrices"
<1>1. Busy(w)
  BY CallingBusy DEF Calling
<1>2. /\ w = "pricing" => Activity(w) \in {"LockPrices", "UnlockPrices"}
      /\ w = "specification" => Activity(w) = "ValidateSpecs"
      /\ w = "store" => Activity(w) \in {"CreateStoreEntry", "DeleteStoreEntry"}
      /\ w = "offering" => Activity(w) \in {"ConfirmPublication", "RevertToDraft"}
  BY <1>1 DEF Busy, WorkerOf, Activities, Forward, Compensation
<1>3. w # "pricing" => CallOf(w).op = OpOf[Activity(w)]
  <2>1. w # "pricing" => Activity(w) # "LockPrices"
    BY <1>1 DEF Busy, WorkerOf
  <2> QED BY <1>1, <2>1 DEF Busy, CallOf
<1>4. w = "pricing" => CallOf(w).op \in {"lock", "unlock"}
  BY <1>2 DEF CallOf, OpOf
<1>5. CallOf(w).op = "lock" => Activity(w) = "LockPrices"
  BY <1>1 DEF Busy, CallOf, OpOf, Activities, Forward, Compensation
<1> QED BY <1>2, <1>3, <1>4, <1>5

\* The lock column as the transaction sees it: a rollback and a compensation belong
\* to a publication that is being undone.
LEMMA LocksTransaction ==
    ASSUME Faults \subseteq OrderlyFaults, TransactionInv, [Next]_vars,
           lockedBy' # lockedBy, UNCHANGED <<Lifecycle, Phases, offeringOf, inStore>>
    PROVE  Transaction!Next
<1>0. /\ TypeInv /\ NoIncidentHandled /\ late = {}
      /\ lockedBy \in [Prices -> Sagas \union {NoSaga}] /\ NoSaga \notin Sagas
      /\ "pricing" \in Workers
  BY SagaAssumption DEF TransactionInv, LocksInv, OwnersInv, TypeInv, TypeOK, Workers
<1> DEFINE c == CallOf("pricing")
<1>1. PICK s \in Sagas : s = TaskOf("pricing")
  BY <1>0, LocksChange DEF Busy
<1>2. PICK p \in Prices : p = c.price
  BY <1>0, LocksChange
<1>3. /\ Answered("pricing") /\ Calling("pricing") /\ Busy("pricing") /\ offeringOf[s] \in Offerings
      /\ p \in PriceSet(offeringOf[s]) /\ Activity("pricing") = at[s]
      /\ at[s] \in {"LockPrices", "UnlockPrices"}
  <2>1. Answered("pricing") /\ Calling("pricing") /\ Busy("pricing") /\ p \in PriceSet(offeringOf[s])
    BY <1>0, <1>1, <1>2, LocksChange
  <2>2. Activity("pricing") = at[s]
    BY <1>1 DEF Activity, TaskOf
  <2> QED BY <1>0, <1>1, <2>1, <2>2, CallerAt, CallOp
<1>4. \/ at[s] = "LockPrices" /\ worker["pricing"].pc = "call" /\ Phases[s] = "taking"
      \/ Phases[s] = "undoing"
  <2>1. s \notin incident
    BY <1>0, <1>1 DEF NoIncidentHandled
  <2>2. CASE at[s] = "LockPrices" /\ worker["pricing"].pc = "call"
    <3>1. ~LockingFailed(s)
      BY <2>1, <2>2 DEF LockingFailed
    <3> QED BY <1>0, <2>2, <3>1, PhaseIs DEF Phases
  <2>3. CASE at[s] = "LockPrices" /\ worker["pricing"].pc = "rollback"
    <3>1. LockingFailed(s)
      BY <1>1, <2>3 DEF LockingFailed
    <3> QED BY <1>0, <3>1, PhaseIs DEF Phases
  <2>4. CASE at[s] = "UnlockPrices"
    BY <1>0, <2>4, PhaseIs DEF Phases
  <2> QED BY <1>3, <2>2, <2>3, <2>4 DEF Calling
<1>5. p \in Transaction!PricesIn(s)
  BY <1>3 DEF PriceSet, Transaction!PricesIn
<1>6. \/ /\ Phases[s] = "taking" /\ lockedBy[p] = NoSaga
         /\ lockedBy' = [lockedBy EXCEPT ![p] = s]
      \/ Phases[s] = "undoing" /\ lockedBy' = [lockedBy EXCEPT ![p] = NoSaga]
  <2>1. PICK ok \in BOOLEAN : Request(c, ok)
    BY <1>3 DEF Answered
  <2>2. c.saga = s /\ c.op \in {"lock", "unlock"}
    BY <1>0, <1>1, <1>3, CallerAt, CallOp
  <2>3. \/ c.op = "lock" /\ LockPrice(p, s, ok)
        \/ c.op = "unlock" /\ UnlockPrice(p, ok)
    BY <1>2, <2>1, <2>2 DEF Request
  <2>4. CASE c.op = "lock" /\ LockPrice(p, s, ok)
    <3>1. lockedBy[p] \in {NoSaga, s} /\ lockedBy' = [lockedBy EXCEPT ![p] = s]
      BY <2>4 DEF LockPrice
    <3>2. lockedBy[p] # s
      BY <1>0, <3>1
    <3>3. at[s] = "LockPrices" /\ worker["pricing"].pc = "call"
      BY <1>3, <2>4 DEF CallOf, OpOf, Calling
    <3>4. Phases[s] = "taking"
      <4>1. s \notin incident
        BY <1>0, <1>1 DEF NoIncidentHandled
      <4>2. ~LockingFailed(s)
        BY <3>3, <4>1 DEF LockingFailed
      <4> QED BY <1>0, <3>3, <4>2, PhaseIs DEF Phases
    <3> QED BY <3>1, <3>2, <3>4
  <2>5. CASE c.op = "unlock" /\ UnlockPrice(p, ok)
    <3>1. at[s] = "UnlockPrices" \/ worker["pricing"].pc = "rollback"
      BY <1>3, <2>5 DEF CallOf, OpOf
    <3>2. Phases[s] = "undoing"
      BY <1>3, <1>4, <3>1
    <3> QED BY <2>5, <3>2 DEF UnlockPrice
  <2> QED BY <2>3, <2>4, <2>5
<1>7. CASE /\ Phases[s] = "taking" /\ lockedBy[p] = NoSaga
           /\ lockedBy' = [lockedBy EXCEPT ![p] = s]
  <2>1. Transaction!Take(s, p)
    BY <1>5, <1>7 DEF Transaction!Take
  <2> QED BY <2>1 DEF Transaction!Next
<1>8. CASE Phases[s] = "undoing" /\ lockedBy' = [lockedBy EXCEPT ![p] = NoSaga]
  <2>1. Transaction!Drop(s, p)
    BY <1>5, <1>8 DEF Transaction!Drop
  <2> QED BY <2>1 DEF Transaction!Next
<1> QED BY <1>6, <1>7, <1>8

\* A lock handler that has met an error begins to undo.
LEMMA ErrorUndoes ==
    ASSUME NEW s \in Sagas, Phase(s) \in {"taking", "holding"},
           Phases' = [Phases EXCEPT ![s] = "undoing"],
           UNCHANGED <<Lifecycle, offeringOf, lockedBy, inStore>>
    PROVE  Transaction!Next
<1>1. Transaction!Undo(s)
  BY DEF Transaction!Undo, Transaction!Moves, Phases
<1> QED BY <1>1 DEF Transaction!Next

\* An offering worker that reverts, or fails to, gives the publication up.
LEMMA RevertGivesUp ==
    ASSUME NEW s \in Sagas, Phase(s) = "undoing",
           Phases' = [Phases EXCEPT ![s] = "over"],
           UNCHANGED <<offeringOf, lockedBy, inStore>>,
           \/ UNCHANGED Lifecycle
           \/ /\ Lifecycle[offeringOf[s]] = "PUBLISHING"
              /\ Lifecycle' = [Lifecycle EXCEPT ![offeringOf[s]] = "DRAFT"]
    PROVE  Transaction!Next
<1>1. Transaction!GiveUp(s)
  BY DEF Transaction!GiveUp, Transaction!Moves, Transaction!Becomes, Phases
<1> QED BY <1>1 DEF Transaction!Next

\* A request that is answered.
LEMMA AnswerTransaction ==
    ASSUME Faults \subseteq OrderlyFaults, TransactionInv, [Next]_vars,
           NEW w \in Workers, Answered(w)
    PROVE  [Transaction!Next]_(Transaction!publicationVars)
<1>0. /\ TypeInv /\ NoIncidentHandled /\ CommittingDraft /\ PricesStayLocked
  BY DEF TransactionInv, LocksInv, OwnersInv
<1>1. PICK ok \in BOOLEAN : Request(CallOf(w), ok) /\ Continue(w, ok)
  BY DEF Answered
<1>2. Calling(w) /\ UNCHANGED <<at, incident, offeringOf, committing>>
  BY DEF Answered, camundaVars
<1>3. PICK s \in Sagas : s = TaskOf(w) /\ CallOf(w).saga = s /\ offeringOf[s] \in Offerings
  BY <1>0, <1>2, CallerAt
<1>4. Activity(w) = at[s]
  BY <1>3 DEF Activity, TaskOf
<1>5. \/ at[s] \notin {"ConfirmPublication", "RevertToDraft"} /\ Phases' = Phases
      \/ /\ at[s] = "LockPrices" /\ worker[w].pc = "call" /\ ~ok /\ Phase(s) = "taking"
         /\ Phases' = [Phases EXCEPT ![s] = "undoing"]
      \/ /\ at[s] = "ConfirmPublication" /\ Phase(s) = "holding"
         /\ Phases' = IF ok THEN [Phases EXCEPT ![s] = "sold"] ELSE Phases
      \/ /\ at[s] = "RevertToDraft" /\ Phase(s) = "undoing"
         /\ Phases' = [Phases EXCEPT ![s] = "over"]
  BY <1>0, <1>1, <1>2, <1>3, <1>4, HandlerPhases
<1>6. ASSUME status' = status
      PROVE  Lifecycle' = Lifecycle
  BY <1>2, <1>6 DEF Lifecycle
<1>7. CASE w = "pricing"
  <2>1. at[s] \notin {"ConfirmPublication", "RevertToDraft"} /\ CallOf(w).op \in {"lock", "unlock"}
    BY <1>0, <1>2, <1>4, <1>7, CallOp
  <2>2. UNCHANGED <<status, inStore>>
    BY <1>1, <2>1 DEF Request, LockPrice, UnlockPrice
  <2>3. UNCHANGED <<Lifecycle, offeringOf, inStore>>
    BY <1>2, <1>6, <2>2
  <2>4. CASE Phases' = Phases /\ lockedBy' = lockedBy
    BY <2>3, <2>4 DEF Transaction!publicationVars
  <2>5. CASE Phases' = Phases /\ lockedBy' # lockedBy
    BY <2>3, <2>5, LocksTransaction
  <2>6. CASE /\ at[s] = "LockPrices" /\ worker[w].pc = "call" /\ ~ok /\ Phase(s) = "taking"
             /\ Phases' = [Phases EXCEPT ![s] = "undoing"]
    <3>1. CallOf(w).op = "lock"
      BY <1>4, <2>6 DEF CallOf, OpOf
    <3>2. lockedBy' = lockedBy
      BY <1>1, <2>6, <3>1 DEF Request, LockPrice
    <3> QED BY <2>3, <2>6, <3>2, ErrorUndoes
  <2> QED BY <1>5, <2>1, <2>4, <2>5, <2>6
<1>8. CASE w = "specification"
  <2>1. at[s] = "ValidateSpecs" /\ CallOf(w).op = "validate"
    BY <1>0, <1>2, <1>4, <1>8, CallOp DEF OpOf
  <2>2. UNCHANGED <<status, lockedBy, inStore>>
    BY <1>1, <2>1 DEF Request, ValidateSpecifications, serviceVars
  <2> QED BY <1>2, <1>5, <1>6, <2>1, <2>2 DEF Transaction!publicationVars
<1>9. CASE w = "store"
  <2>1. \/ at[s] = "CreateStoreEntry" /\ CallOf(w).op = "sync"
        \/ at[s] = "DeleteStoreEntry" /\ CallOf(w).op = "delete"
    BY <1>0, <1>2, <1>4, <1>9, CallOp DEF OpOf
  <2>2. UNCHANGED <<status, lockedBy>>
    BY <1>1, <2>1 DEF Request, SyncOffering, DeleteOfferingRead
  <2>3. UNCHANGED <<Lifecycle, Phases, offeringOf, lockedBy>>
    BY <1>2, <1>5, <1>6, <2>1, <2>2
  <2>4. CASE at[s] = "CreateStoreEntry" /\ CallOf(w).op = "sync"
    <3>1. inStore' = inStore \union {offeringOf[s]}
      BY <1>1, <1>3, <2>4 DEF Request, SyncOffering
    <3>2. ~Confirmed(s)
      BY <2>4 DEF Confirmed
    <3>3. Phases[s] = "holding"
      BY <1>0, <2>4, <3>2, PhaseIs DEF Phases, Forward
    <3>4. Transaction!Show(s)
      BY <2>3, <3>1, <3>3 DEF Transaction!Show
    <3> QED BY <3>4 DEF Transaction!Next
  <2>5. CASE at[s] = "DeleteStoreEntry" /\ CallOf(w).op = "delete"
    <3>1. inStore' = inStore \ {offeringOf[s]}
      BY <1>1, <1>3, <2>5 DEF Request, DeleteOfferingRead
    <3>2. Phases[s] = "undoing"
      BY <1>0, <2>5, PhaseIs DEF Phases
    <3>3. Transaction!Hide(s)
      BY <2>3, <3>1, <3>2 DEF Transaction!Hide
    <3> QED BY <3>3 DEF Transaction!Next
  <2> QED BY <2>1, <2>4, <2>5
<1>10. CASE w = "offering"
  <2>1. \/ at[s] = "ConfirmPublication" /\ CallOf(w).op = "confirm"
        \/ at[s] = "RevertToDraft" /\ CallOf(w).op = "fail"
    BY <1>0, <1>2, <1>4, <1>10, CallOp DEF OpOf
  <2>2. CASE at[s] = "ConfirmPublication" /\ CallOf(w).op = "confirm"
    <3>1. ConfirmPublication(offeringOf[s], ok)
      BY <1>1, <1>3, <2>2 DEF Request
    <3>2. UNCHANGED <<lockedBy, inStore>>
      BY <3>1 DEF ConfirmPublication
    <3>3. CASE ok
      <4>1. Writes(offeringOf[s], "PUBLISHING", "PUBLISHED")
        BY <3>1, <3>3 DEF ConfirmPublication, Writes
      <4>2. /\ Lifecycle[offeringOf[s]] = "PUBLISHING"
            /\ Lifecycle' = [Lifecycle EXCEPT ![offeringOf[s]] = "PUBLISHED"]
        BY <1>0, <1>2, <1>3, <4>1, LifecycleWrites
      <4>3. Phases[s] = "holding" /\ Phases' = [Phases EXCEPT ![s] = "sold"]
        BY <1>5, <2>2, <3>3 DEF Phases
      <4>4. Transaction!Holds(s)
        BY <1>0, <2>2, HoldsItsLocks DEF PricesStayLocked
      <4>5. Transaction!Sell(s)
        BY <1>2, <3>2, <4>2, <4>3, <4>4
          DEF Transaction!Sell, Transaction!Moves, Transaction!Becomes
      <4> QED BY <4>5 DEF Transaction!Next
    <3>4. CASE ~ok
      <4>1. status' = status
        BY <3>1, <3>4 DEF ConfirmPublication
      <4> QED BY <1>2, <1>5, <1>6, <2>2, <3>2, <3>4, <4>1 DEF Transaction!publicationVars
    <3> QED BY <3>3, <3>4
  <2>3. CASE at[s] = "RevertToDraft" /\ CallOf(w).op = "fail"
    <3>1. FailPublication(offeringOf[s], ok)
      BY <1>1, <1>3, <2>3 DEF Request
    <3>2. UNCHANGED <<offeringOf, lockedBy, inStore>>
      BY <1>2, <3>1 DEF FailPublication
    <3>3. \/ UNCHANGED Lifecycle
          \/ /\ Lifecycle[offeringOf[s]] = "PUBLISHING"
             /\ Lifecycle' = [Lifecycle EXCEPT ![offeringOf[s]] = "DRAFT"]
      <4>1. CASE ok
        <5>1. Writes(offeringOf[s], "PUBLISHING", "DRAFT")
          BY <3>1, <4>1 DEF FailPublication, Writes
        <5> QED BY <1>0, <1>2, <1>3, <5>1, LifecycleWrites
      <4>2. CASE ~ok
        BY <1>6, <3>1, <4>2 DEF FailPublication
      <4> QED BY <4>1, <4>2
    <3>4. Phase(s) = "undoing" /\ Phases' = [Phases EXCEPT ![s] = "over"]
      BY <1>5, <2>3
    <3> QED BY <3>2, <3>3, <3>4, RevertGivesUp
  <2> QED BY <2>1, <2>2, <2>3
<1> QED BY <1>7, <1>8, <1>9, <1>10 DEF Workers

\* A request that is refused, broken or swallowed changes nothing but the phase of a
\* saga that was about to lock a price or to revert.
LEMMA FaultTransaction ==
    ASSUME TransactionInv, NEW w \in Workers, Refused(w) \/ SyncSwallowed(w) \/ Broken(w)
    PROVE  [Transaction!Next]_(Transaction!publicationVars)
<1>0. TypeInv /\ NoIncidentHandled
  BY DEF TransactionInv, LocksInv, OwnersInv
<1>1. Calling(w) /\ UNCHANGED <<at, incident>>
  BY DEF Refused, SyncSwallowed, Broken, camundaVars
<1>2. UNCHANGED <<Lifecycle, offeringOf, lockedBy, inStore>>
  BY DEF Refused, SyncSwallowed, Broken, camundaVars, offeringVars, Lifecycle
<1>3. PICK ok \in BOOLEAN :
          /\ Continue(w, ok) \/ (Raise(w) /\ ~ok)
          /\ ok => CallOf(w).op = "sync"
  BY DEF Refused, SyncSwallowed, Broken
<1>4. PICK s \in Sagas : s = TaskOf(w)
  BY <1>0, <1>1, CallerAt
<1>5. Activity(w) = "ConfirmPublication" => ~ok
  <2>1. CallOf(w).op = "sync" => at[s] = "CreateStoreEntry"
    BY <1>0, <1>1, <1>4, CallerAt
  <2>2. Activity(w) = at[s]
    BY <1>4 DEF Activity, TaskOf
  <2> QED BY <1>3, <2>1, <2>2
<1>6. \/ Phases' = Phases
      \/ Phase(s) = "taking" /\ Phases' = [Phases EXCEPT ![s] = "undoing"]
      \/ Phase(s) = "undoing" /\ Phases' = [Phases EXCEPT ![s] = "over"]
  BY <1>0, <1>1, <1>3, <1>4, <1>5, HandlerPhases
<1>7. CASE Phases' = Phases
  BY <1>2, <1>7 DEF Transaction!publicationVars
<1>8. CASE Phase(s) = "undoing" /\ Phases' = [Phases EXCEPT ![s] = "over"]
  BY <1>2, <1>8, RevertGivesUp
<1>9. CASE Phase(s) = "taking" /\ Phases' = [Phases EXCEPT ![s] = "undoing"]
  BY <1>2, <1>9, ErrorUndoes
<1> QED BY <1>6, <1>7, <1>8, <1>9

\* The reports to the engine.  A lock handler reports success only when it holds all.
LEMMA ReportTransaction ==
    ASSUME TransactionInv, NEW w \in Workers, CompleteTask(w) \/ ThrowBpmnError(w) \/ FailTask(w)
    PROVE  [Transaction!Next]_(Transaction!publicationVars)
<1>0. TypeInv /\ NoIncidentHandled /\ LockProgress
  BY DEF TransactionInv, LocksInv, OwnersInv
<1>1. UNCHANGED <<Lifecycle, offeringOf, lockedBy, inStore>>
  BY DEF CompleteTask, ThrowBpmnError, FailTask, offeringVars, Lifecycle
<1>2. PICK s \in Sagas : s = TaskOf(w)
  BY <1>0, CallingBusy DEF CompleteTask, ThrowBpmnError, FailTask, Busy
<1>3. ASSUME Phases' = Phases
      PROVE  [Transaction!Next]_(Transaction!publicationVars)
  BY <1>1, <1>3 DEF Transaction!publicationVars
<1>4. CASE CompleteTask(w)
  <2>1. CASE /\ Activity(w) = "LockPrices" /\ Phase(s) = "taking"
             /\ Phases' = [Phases EXCEPT ![s] = "holding"]
    <3>1. w = "pricing" /\ worker[w].pc = "complete" /\ at[s] = "LockPrices"
      <4>1. Busy(w) /\ worker[w].pc = "complete"
        BY <1>0, <1>4, CallingBusy DEF CompleteTask
      <4> QED BY <1>2, <2>1, <4>1 DEF Busy, WorkerOf, Activity, TaskOf
    <3>2. KeepsItsPrices(s)
      <4>1. offeringOf[s] \in Offerings
        BY <1>0, <3>1 DEF TypeInv, SagasOK
      <4>2. PriceSet(offeringOf[s]) \subseteq Prices
        BY <4>1, SagaAssumption DEF PriceSet
      <4> QED BY <1>0, <1>2, <3>1, <4>2 DEF LockProgress, Passed, KeepsItsPrices
    <3>3. Transaction!Holds(s)
      BY <1>0, <3>2, HoldsItsLocks
    <3>4. Transaction!Hold(s)
      BY <1>1, <2>1, <3>3 DEF Transaction!Hold, Transaction!Moves, Phases
    <3> QED BY <3>4 DEF Transaction!Next
  <2> QED BY <1>0, <1>2, <1>3, <1>4, <2>1, CompletePhases
<1>5. CASE ThrowBpmnError(w)
  <2>1. \/ Phases' = Phases
        \/ Phase(s) = "holding" /\ Phases' = [Phases EXCEPT ![s] = "undoing"]
    BY <1>0, <1>2, <1>5, ErrorPhases
  <2> QED BY <1>1, <1>3, <2>1, ErrorUndoes
<1>6. CASE FailTask(w)
  BY <1>0, <1>3, <1>6, FailPhases
<1> QED BY <1>4, <1>5, <1>6

LEMMA TransactionStep ==
    ASSUME Faults \subseteq OrderlyFaults, TransactionInv, [Next]_vars
    PROVE  [Transaction!Next]_(Transaction!publicationVars)
<1>0. TypeInv /\ late = {}
  BY DEF TransactionInv, LocksInv, OwnersInv
<1>1. ASSUME UNCHANGED <<at, incident, worker, status, committing, offeringOf, lockedBy, inStore>>
      PROVE  [Transaction!Next]_(Transaction!publicationVars)
  <2>1. Phases' = Phases
    BY <1>1, PhaseKept, PhasesKept DEF Report, Rolls, TaskOf
  <2>2. Lifecycle' = Lifecycle
    BY <1>1 DEF Lifecycle
  <2> QED BY <1>1, <2>1, <2>2 DEF Transaction!publicationVars
<1>2. ASSUME NEW w \in Workers, NEW s \in Sagas, FetchAndLock(w, s)
      PROVE  [Transaction!Next]_(Transaction!publicationVars)
  <2>1. Phases' = Phases
    BY <1>0, <1>2, FetchPhases
  <2>2. UNCHANGED <<Lifecycle, offeringOf, lockedBy, inStore>>
    BY <1>2 DEF FetchAndLock, offeringVars, camundaVars, Lifecycle
  <2> QED BY <2>1, <2>2 DEF Transaction!publicationVars
<1>3. ASSUME NEW w \in Workers, TokenExpires(w)
      PROVE  [Transaction!Next]_(Transaction!publicationVars)
  BY <1>1, <1>3 DEF TokenExpires, offeringVars, camundaVars
<1>4. CASE UNCHANGED vars
  BY <1>1, <1>4 DEF vars, offeringVars, camundaVars
<1> QED BY <1>0, <1>2, <1>3, <1>4, OrderlyStep, UserTransaction, AnswerTransaction,
           FaultTransaction, ReportTransaction

LEMMA IncidentsStartedStep ==
    ASSUME Faults \subseteq OrderlyFaults, TypeInv, late = {}, IncidentsStarted, [Next]_vars
    PROVE  IncidentsStarted'
<1>1. ASSUME NEW s \in incident', s \notin incident
      PROVE  s \in Sagas /\ at[s] # "NotStarted"
  <2>1. PICK w \in Workers : FailTask(w)
    BY <1>1, OrderlyStep
      DEF vars, camundaVars, InitiatePublication, InitiateWithoutSaga, CommitPublication,
          RetireOffering, ConsumeOfferingEvent, FetchAndLock, Answered, Refused, SyncSwallowed,
          Broken, CompleteTask, ThrowBpmnError, TokenExpires
  <2>2. s = TaskOf(w) /\ Busy(w)
    BY <1>1, <2>1, CallingBusy DEF FailTask, TaskOf
  <2> QED BY <2>2 DEF Busy, Activity, TaskOf, Activities, Forward, Compensation
<1>2. ASSUME NEW s \in incident
      PROVE  s \in Sagas /\ at[s] # "NotStarted"
  BY DEF IncidentsStarted, TypeInv, TypeOK
<1>3. ASSUME NEW s \in incident'
      PROVE  at'[s] # "NotStarted"
  BY <1>1, <1>2, OfferingsKept
<1> QED BY <1>3 DEF IncidentsStarted

LEMMA TransactionInvStep ==
    ASSUME Faults \subseteq OrderlyFaults, TransactionInv, [Next]_vars
    PROVE  TransactionInv'
<1>0. /\ LocksInv /\ IncidentsStarted /\ EventsOnSale /\ RetiredEvents
      /\ TypeInv /\ CommittingDraft /\ late = {}
  BY DEF TransactionInv, LocksInv, OwnersInv
<1> QED BY <1>0, LocksStep, IncidentsStartedStep, EventsStep, RetiredStep DEF TransactionInv

\* Every behaviour of the saga, its workers and the services is one of the
\* transaction, whatever prices the offerings share, under every fault that leaves
\* no request running behind its client's back and repeats no task.
THEOREM SagaIsTransaction ==
    ASSUME Faults \subseteq OrderlyFaults
    PROVE  Spec => ImplementsTransaction
<1>1. Init => TransactionInv /\ Transaction!Init
  <2> SUFFICES ASSUME Init
               PROVE  TransactionInv /\ Transaction!Init
    OBVIOUS
  <2>2. IncidentsStarted /\ EventsOnSale /\ RetiredEvents
    BY DEF Init, IncidentsStarted, EventsOnSale, RetiredEvents
  <2>3. Phases = [s \in Sagas |-> "idle"]
    BY DEF Init, Phases, Phase, PhaseAt, Confirmed, LockingFailed
  <2>4. Lifecycle = [o \in Offerings |-> "DRAFT"]
    BY DEF Init, Lifecycle
  <2>5. Transaction!Init
    BY <2>3, <2>4 DEF Init, Transaction!Init
  <2> QED BY <2>2, <2>5, LocksInitially DEF TransactionInv
<1>2. TransactionInv /\ [Next]_vars => TransactionInv'
  BY TransactionInvStep
<1>3. TransactionInv /\ [Next]_vars => [Transaction!Next]_(Transaction!publicationVars)
  BY TransactionStep
<1> QED BY <1>1, <1>2, <1>3, PTL DEF Spec, ImplementsTransaction, Transaction!Spec
=============================================================================
