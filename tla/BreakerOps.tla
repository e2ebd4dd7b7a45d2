----------------------------- MODULE BreakerOps -----------------------------
(***************************************************************************)
(* The locked methods of CircuitBreaker (backend/app/sre/resilience.py) as *)
(* operators on one breaker object.  Every method body runs under          *)
(* self._lock, so each operator is one atomic change of the object.        *)
(*                                                                         *)
(* opened_at is abstracted to what the code asks of it: "none" (None),     *)
(* "fresh" (less than timeout_seconds ago) or "aged" (timeout elapsed).    *)
(* consecutive_failures is only ever compared with failure_threshold, so   *)
(* it saturates there.  The telemetry counters (_calls_total,              *)
(* _calls_failed) and logging are left out.                                *)
(***************************************************************************)
EXTENDS Naturals

CONSTANTS FailureThreshold,   \* CircuitBreakerConfig.failure_threshold
          HalfOpenMaxCalls    \* CircuitBreakerConfig.half_open_max_calls

ASSUME BreakerConfigAssumption ==
    /\ FailureThreshold \in Nat \ {0}
    /\ HalfOpenMaxCalls \in Nat \ {0}

States == {"closed", "open", "half_open"}
OpenedAt == {"none", "fresh", "aged"}

Breaker == [state               : States,
            consecutiveFailures : 0..FailureThreshold,
            openedAt            : OpenedAt,
            halfOpenCalls       : 0..HalfOpenMaxCalls,
            halfOpenSuccesses   : 0..HalfOpenMaxCalls]

NewBreaker == [state |-> "closed", consecutiveFailures |-> 0,
               openedAt |-> "none", halfOpenCalls |-> 0,
               halfOpenSuccesses |-> 0]

-----------------------------------------------------------------------------
(* The four changes of state.  The definitions named ...Bug are plausible  *)
(* mistakes in the one that follows them; only the tests of the properties *)
(* use them.                                                               *)

\* Stale successes of an earlier half-open period survive.
HalfOpenBug(b) == [b EXCEPT !.state = "half_open", !.halfOpenCalls = 0]

\* OPEN -> HALF_OPEN in allow_call.
HalfOpen(b) == [b EXCEPT !.state = "half_open",
                         !.halfOpenCalls = 0, !.halfOpenSuccesses = 0]

\* The timestamp is forgotten.
TripBug(b) == [b EXCEPT !.state = "open"]

\* CLOSED -> OPEN in _record_failure.
Trip(b) == [b EXCEPT !.state = "open", !.openedAt = "fresh"]

\* HALF_OPEN -> OPEN in _record_failure.
Reopen(b) == [b EXCEPT !.state = "open", !.openedAt = "fresh",
                       !.halfOpenCalls = 0, !.halfOpenSuccesses = 0]

\* The failure counter is not reset.
CloseBug(b) == [b EXCEPT !.state = "closed", !.openedAt = "none",
                         !.halfOpenCalls = 0]

\* HALF_OPEN -> CLOSED in _record_success; _half_open_successes is kept.
Close(b) == [b EXCEPT !.state = "closed", !.consecutiveFailures = 0,
                      !.openedAt = "none", !.halfOpenCalls = 0]

-----------------------------------------------------------------------------
(* allow_call *)

\* The timeout is never found elapsed.
TimeoutElapsedBug(b) == b.state = "open" /\ b.openedAt = "none"

TimeoutElapsed(b) == b.state = "open" /\ b.openedAt = "aged"

\* The breaker at the second `if` of allow_call.
AfterTimeout(b) == IF TimeoutElapsed(b) THEN HalfOpen(b) ELSE b

\* Off by one.
ProbeSlotFreeBug(b) == b.halfOpenCalls <= HalfOpenMaxCalls

ProbeSlotFree(b) == b.halfOpenCalls < HalfOpenMaxCalls

\* What allow_call returns.
Allows(b) ==
    \/ AfterTimeout(b).state = "closed"
    \/ AfterTimeout(b).state = "half_open" /\ ProbeSlotFree(AfterTimeout(b))

\* The breaker after allow_call has returned True.
AllowCall(b) ==
    IF AfterTimeout(b).state = "half_open"
    THEN [AfterTimeout(b) EXCEPT !.halfOpenCalls = @ + 1]
    ELSE AfterTimeout(b)

-----------------------------------------------------------------------------
(* _record_failure and _record_success *)

BumpFailures(b) ==
    [b EXCEPT !.consecutiveFailures = IF @ < FailureThreshold THEN @ + 1 ELSE @]

RecordFailure(b) ==
    LET f == BumpFailures(b) IN
    IF f.state = "half_open" THEN Reopen(f)
    ELSE IF f.state = "closed" /\ f.consecutiveFailures >= FailureThreshold
    THEN Trip(f)
    ELSE f

\* A success in HALF_OPEN is not counted.
BumpSuccessesBug(b) == b

BumpSuccesses(b) == [b EXCEPT !.halfOpenSuccesses = @ + 1]

RecordSuccess(b) ==
    IF b.state = "half_open"
    THEN LET s == BumpSuccesses(b) IN
         IF s.halfOpenSuccesses >= HalfOpenMaxCalls THEN Close(s) ELSE s
    ELSE [b EXCEPT !.consecutiveFailures = 0]
=============================================================================
