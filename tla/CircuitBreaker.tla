--------------------------- MODULE CircuitBreaker ---------------------------
(***************************************************************************)
(* The circuit breaker of one downstream service (AsyncCircuitBreaker) with *)
(* the gateway's concurrent calls through it (proxy_request).               *)
(*                                                                         *)
(* The gateway is one event loop: what call() does under its lock is one    *)
(* step, and calls interleave while they await the service.  Failures are   *)
(* counted up to fail_max and the age of the last one up to reset_timeout:  *)
(* the code compares both and tells no larger values apart, so neither the  *)
(* counter nor the clock needs a bound.                                     *)
(***************************************************************************)
EXTENDS Naturals

CONSTANTS
    Calls,          \* calls that can be under way at a time (a bound)
    FailMax,        \* fail_max
    ResetTimeout    \* reset_timeout, in ticks

ASSUME BreakerAssumption ==
    /\ FailMax \in Nat \ {0}
    /\ ResetTimeout \in Nat

Expired == ResetTimeout + 1     \* an age above reset_timeout
NoTime == Expired + 1           \* last_failure_time is None

VARIABLES
    state,          \* state
    fail_count,     \* fail_count
    failure_age,    \* time.time() - last_failure_time
    call,           \* what each call is doing, or how it ended
    last,           \* history: how the last call to be answered ended
    healthy         \* the service fails no call any more

breakerVars == <<state, fail_count, failure_age>>
vars == <<state, fail_count, failure_age, call, last, healthy>>

\* A call let through while CLOSED is "sent", any other a "probe"; a call that
\* ended may be followed by another one in its place.
InFlight == {"sent", "probe"}
Ended == {"none", "refused", "ok", "failed"}

TypeOK ==
    /\ state \in {"closed", "open", "half-open"}
    /\ fail_count \in 0 .. FailMax
    /\ failure_age \in 0 .. NoTime
    /\ call \in [Calls -> Ended \union InFlight]
    /\ last \in {"none", "ok", "failed"}
    /\ healthy \in BOOLEAN

Init ==
    /\ state = "closed"
    /\ fail_count = 0
    /\ failure_age = NoTime
    /\ call = [c \in Calls |-> "none"]
    /\ last = "none"
    /\ healthy = FALSE

-----------------------------------------------------------------------------
\* One more failure, and one tick more: neither goes beyond what is compared.
OneMore(n) == IF n < FailMax THEN n + 1 ELSE n
Older(age) == IF age < Expired THEN age + 1 ELSE age

\* Mutant: the refusal is raised inside call()'s try and counts as a failure.
RefuseCounted(c) ==
    /\ call[c] \in Ended
    /\ state = "open"
    /\ failure_age < Expired
    /\ call' = [call EXCEPT ![c] = "refused"]
    /\ failure_age' = 0
    /\ UNCHANGED <<state, fail_count, last, healthy>>

\* _before_call raises CircuitBreakerError: the client is answered 503 and the
\* service is not called.
Refuse(c) ==
    /\ call[c] \in Ended
    /\ state = "open"
    /\ failure_age < Expired
    /\ call' = [call EXCEPT ![c] = "refused"]
    /\ UNCHANGED <<breakerVars, last, healthy>>

\* _before_call lets the call through: the request is sent.
Send(c) ==
    /\ call[c] \in Ended
    /\ state = "open" => failure_age >= Expired
    /\ state' = IF state = "open" THEN "half-open" ELSE state
    /\ call' = [call EXCEPT ![c] = IF state = "closed" THEN "sent" ELSE "probe"]
    /\ UNCHANGED <<fail_count, failure_age, last, healthy>>

\* Mutant: a success in CLOSED forgets no failure.
SucceedWithoutReset(c) ==
    /\ call[c] \in InFlight
    /\ call' = [call EXCEPT ![c] = "ok"]
    /\ last' = "ok"
    /\ state' = IF state = "half-open" THEN "closed" ELSE state
    /\ fail_count' = IF state = "half-open" THEN 0 ELSE fail_count
    /\ UNCHANGED <<failure_age, healthy>>

\* The service answers below 500: _on_success.
Succeed(c) ==
    /\ call[c] \in InFlight
    /\ call' = [call EXCEPT ![c] = "ok"]
    /\ last' = "ok"
    /\ state' = IF state = "half-open" THEN "closed" ELSE state
    /\ fail_count' = IF state = "open" THEN fail_count ELSE 0
    /\ UNCHANGED <<failure_age, healthy>>

\* Mutant: a failure opens the circuit only from CLOSED.
FailToClosed(c) ==
    /\ call[c] \in InFlight
    /\ call' = [call EXCEPT ![c] = "failed"]
    /\ last' = "failed"
    /\ fail_count' = OneMore(fail_count)
    /\ failure_age' = 0
    /\ state' = IF state = "closed" /\ fail_count' >= FailMax THEN "open" ELSE state
    /\ UNCHANGED healthy

\* The service answers 5xx, times out or cannot be reached: _on_failure.
Fail(c) ==
    /\ call[c] \in InFlight
    /\ call' = [call EXCEPT ![c] = "failed"]
    /\ last' = "failed"
    /\ fail_count' = OneMore(fail_count)
    /\ failure_age' = 0
    /\ state' = IF state = "half-open" \/ fail_count' >= FailMax THEN "open" ELSE state
    /\ UNCHANGED healthy

Tick ==
    /\ failure_age' = Older(failure_age)
    /\ UNCHANGED <<state, fail_count, call, last, healthy>>

\* From here on the service fails no call.
Recover ==
    /\ ~healthy
    /\ healthy' = TRUE
    /\ UNCHANGED <<breakerVars, call, last>>

Next ==
    \/ \E c \in Calls :
          \/ Refuse(c)
          \/ Send(c)
          \/ Succeed(c)
          \/ ~healthy /\ Fail(c)
    \/ Tick
    \/ Recover

Spec == Init /\ [][Next]_vars

-----------------------------------------------------------------------------
\* Time passes, a call that was sent ends (httpx has timeouts), and clients
\* keep calling.
Fairness ==
    /\ WF_vars(Tick)
    /\ \A c \in Calls : WF_vars(Succeed(c)) /\ WF_vars(Send(c))

FairSpec == Spec /\ Fairness

-----------------------------------------------------------------------------
(***************************************************************************)
(* The fields agree, whatever order the answers of overlapping calls come   *)
(* in: the circuit is CLOSED exactly while fewer than fail_max failures     *)
(* are counted, _before_call never subtracts from a last_failure_time of    *)
(* None, and HALF_OPEN does not outlive a failure: none has been seen for   *)
(* longer than reset_timeout.                                               *)
(***************************************************************************)
FieldsAgree ==
    /\ state = "closed" <=> fail_count < FailMax
    /\ state # "closed" => failure_age # NoTime
    /\ state = "half-open" => failure_age >= Expired

(***************************************************************************)
(* The breaker implements the diagram: it trips on fail_max failures with   *)
(* no success between them and on nothing else, leaves OPEN only to         *)
(* HALF_OPEN, and starts counting anew once CLOSED, though late answers of  *)
(* calls sent in an earlier state keep arriving.                            *)
(***************************************************************************)
Diagram == INSTANCE CircuitDiagram WITH
    mode <- state,
    misses <- IF state = "closed" THEN fail_count ELSE 0

FollowsDiagram == Diagram!Spec

(***************************************************************************)
(* Once the service fails no call and clients keep calling, the circuit     *)
(* closes and stays closed: calls refused meanwhile do not hold it open.    *)
(***************************************************************************)
RecoveryClosesCircuit == healthy ~> [](state = "closed")
=============================================================================
