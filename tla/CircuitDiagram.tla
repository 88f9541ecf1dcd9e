--------------------------- MODULE CircuitDiagram ---------------------------
(***************************************************************************)
(* What a circuit breaker promises, and no more: the state diagram of      *)
(* CLOSED, OPEN and HALF_OPEN over a sequence of answers.  There are no     *)
(* overlapping calls and there is no time here: CircuitBreaker, which has   *)
(* both, is shown to implement it.                                         *)
(***************************************************************************)
EXTENDS Naturals

CONSTANT FailMax        \* failures in a row that open the circuit

VARIABLES
    mode,
    misses,             \* failures in a row while CLOSED
    last                \* the last answer

diagramVars == <<mode, misses, last>>

Init == mode = "closed" /\ misses = 0 /\ last = "none"

Hit == mode = "closed" /\ last' = "ok" /\ misses' = 0 /\ mode' = mode

Miss ==
    /\ mode = "closed"
    /\ last' = "failed"
    /\ misses + 1 < FailMax
    /\ misses' = misses + 1
    /\ mode' = mode

Trip ==
    /\ mode = "closed"
    /\ last' = "failed"
    /\ misses + 1 = FailMax
    /\ misses' = 0
    /\ mode' = "open"

\* An answer to a call that was sent before the circuit opened.
Late == mode = "open" /\ last' \in {"ok", "failed"} /\ UNCHANGED <<mode, misses>>

Probe == mode = "open" /\ mode' = "half-open" /\ UNCHANGED <<misses, last>>

Close == mode = "half-open" /\ last' = "ok" /\ mode' = "closed" /\ misses' = misses

Reopen == mode = "half-open" /\ last' = "failed" /\ mode' = "open" /\ misses' = misses

Next == Hit \/ Miss \/ Trip \/ Late \/ Probe \/ Close \/ Reopen

Spec == Init /\ [][Next]_diagramVars

=============================================================================
