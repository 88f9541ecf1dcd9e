------------------------ MODULE CircuitBreakerProofs ------------------------
(***************************************************************************)
(* CircuitBreaker implements CircuitDiagram for any number of calls, any    *)
(* threshold and any timeout.  The inductive invariant is TypeOK with       *)
(* FieldsAgree: the step of Fail needs that an OPEN or HALF_OPEN circuit    *)
(* has counted fail_max failures, so that it stays or goes back to OPEN.    *)
(***************************************************************************)
EXTENDS CircuitBreaker, TLAPS

Inv == TypeOK /\ FieldsAgree

LEMMA InitInv == Init => Inv
<1> SUFFICES ASSUME Init PROVE Inv
  OBVIOUS
<1> USE BreakerAssumption DEF Init
<1>1. call \in [Calls -> Ended \union InFlight]
  BY DEF Ended
<1>2. fail_count \in 0 .. FailMax /\ failure_age \in 0 .. NoTime
  BY DEF NoTime, Expired
<1>3. FieldsAgree
  BY DEF FieldsAgree
<1> QED
  BY <1>1, <1>2, <1>3 DEF Inv, TypeOK

LEMMA NextInv == Inv /\ [Next]_vars => Inv'
<1> SUFFICES ASSUME Inv, [Next]_vars PROVE Inv'
  OBVIOUS
<1> USE BreakerAssumption DEF Inv, TypeOK, FieldsAgree, Expired, NoTime
<1>1. ASSUME NEW c \in Calls, Refuse(c) PROVE Inv'
  BY <1>1 DEF Refuse, breakerVars, Ended, InFlight
<1>2. ASSUME NEW c \in Calls, Send(c) PROVE Inv'
  BY <1>2 DEF Send, Ended, InFlight
<1>3. ASSUME NEW c \in Calls, Succeed(c) PROVE Inv'
  BY <1>3 DEF Succeed, Ended, InFlight
<1>4. ASSUME NEW c \in Calls, Fail(c) PROVE Inv'
  BY <1>4 DEF Fail, OneMore, Ended, InFlight
<1>5. CASE Tick
  BY <1>5 DEF Tick, Older
<1>6. CASE Recover
  BY <1>6 DEF Recover, breakerVars
<1>7. CASE UNCHANGED vars
  BY <1>7 DEF vars
<1> QED
  BY <1>1, <1>2, <1>3, <1>4, <1>5, <1>6, <1>7 DEF Next

LEMMA InvHolds == Spec => []Inv
  BY InitInv, NextInv, PTL DEF Spec

(***************************************************************************)
(* Every field keeps its type.                                              *)
(***************************************************************************)
THEOREM TypeCorrect == Spec => []TypeOK
  BY InvHolds, PTL DEF Inv

(***************************************************************************)
(* The fields of the breaker agree, however the calls overlap: CLOSED means *)
(* fewer than fail_max failures, and an OPEN circuit knows the time of its  *)
(* last failure, which is long past in HALF_OPEN.                           *)
(***************************************************************************)
THEOREM FieldsAlwaysAgree == Spec => []FieldsAgree
  BY InvHolds, PTL DEF Inv

-----------------------------------------------------------------------------
\* The refinement: each step of the breaker is one of the diagram or stutters.
LEMMA InitRefines == Init => Diagram!Init
  BY DEF Init, Diagram!Init

LEMMA NextRefines == Inv /\ [Next]_vars => [Diagram!Next]_<<state, IF state = "closed" THEN fail_count ELSE 0, last>>
<1> SUFFICES ASSUME Inv, [Next]_vars
             PROVE  [Diagram!Next]_<<state, IF state = "closed" THEN fail_count ELSE 0, last>>
  OBVIOUS
<1> USE BreakerAssumption DEF Inv, TypeOK, FieldsAgree
<1>1. ASSUME NEW c \in Calls, Refuse(c)
      PROVE  UNCHANGED <<state, fail_count, last>>
  BY <1>1 DEF Refuse, breakerVars
<1>2. ASSUME NEW c \in Calls, Send(c)
      PROVE  Diagram!Probe \/ UNCHANGED <<state, fail_count, last>>
  BY <1>2 DEF Send, Diagram!Probe
<1>3. ASSUME NEW c \in Calls, Succeed(c)
      PROVE  Diagram!Hit \/ Diagram!Close \/ Diagram!Late
  BY <1>3 DEF Succeed, Diagram!Hit, Diagram!Close, Diagram!Late
<1>4. ASSUME NEW c \in Calls, Fail(c)
      PROVE  Diagram!Miss \/ Diagram!Trip \/ Diagram!Reopen \/ Diagram!Late
  <2>1. CASE state = "closed" /\ fail_count + 1 < FailMax
    BY <1>4, <2>1 DEF Fail, OneMore, Diagram!Miss
  <2>2. CASE state = "closed" /\ fail_count + 1 = FailMax
    BY <1>4, <2>2 DEF Fail, OneMore, Diagram!Trip
  <2>3. CASE state = "half-open"
    BY <1>4, <2>3 DEF Fail, Diagram!Reopen
  <2>4. CASE state = "open"
    BY <1>4, <2>4 DEF Fail, OneMore, Diagram!Late
  <2> QED
    BY <2>1, <2>2, <2>3, <2>4
<1>5. CASE UNCHANGED vars \/ Tick \/ Recover
  BY <1>5 DEF vars, Tick, Recover, breakerVars
<1> QED
  BY <1>1, <1>2, <1>3, <1>4, <1>5 DEF Next, Diagram!Next

(***************************************************************************)
(* The breaker with its overlapping calls implements the sequential state   *)
(* diagram: trips on fail_max consecutive failures and on nothing else.     *)
(***************************************************************************)
THEOREM ImplementsDiagram == Spec => FollowsDiagram
<1>1. Inv /\ [Next]_vars => [Diagram!Next]_<<state, IF state = "closed" THEN fail_count ELSE 0, last>>
  BY NextRefines
<1> QED
  BY InitRefines, InvHolds, <1>1, PTL DEF Spec, FollowsDiagram, Diagram!Spec, Diagram!diagramVars
=============================================================================
