--------------------------- MODULE CircuitBreaker ---------------------------
(***************************************************************************)
(* One CircuitBreaker shared by concurrent callers, as call_with_failover  *)
(* shares the breaker of a provider between requests.  A call is           *)
(*                                                                         *)
(*     allow_call()  --await operation()-->  _record_success / _failure    *)
(*                                                                         *)
(* The two ends are atomic; while the operation is awaited other callers   *)
(* run, so a result may reach a breaker whose state has moved on since the *)
(* call was admitted.  asyncio cancellation is not an Exception: call()    *)
(* lets it pass without recording anything.                                *)
(***************************************************************************)
EXTENDS BreakerOps, FiniteSets

CONSTANT Callers

ASSUME CallersAssumption == IsFiniteSet(Callers)

VARIABLES breaker,     \* the shared CircuitBreaker object
          inflight,    \* callers inside `await operation()`
          (* history, read by the properties only *)
          probes,      \* in-flight callers admitted in this half-open period
          successes,   \* results recorded as success in this half-open period
          probeLost    \* a probe of this half-open period was cancelled

vars == <<breaker, inflight, probes, successes, probeLost>>
history == <<probes, successes, probeLost>>

TypeOK ==
    /\ breaker \in Breaker
    /\ inflight \subseteq Callers
    /\ probes \subseteq inflight
    /\ successes \in Nat
    /\ probeLost \in BOOLEAN

Init ==
    /\ breaker = NewBreaker
    /\ inflight = {}
    /\ probes = {}
    /\ successes = 0
    /\ probeLost = FALSE

-----------------------------------------------------------------------------

\* call(): allow_call() returned True, the operation is awaited.
Admit(c) ==
    /\ c \notin inflight
    /\ Allows(breaker)
    /\ breaker' = AllowCall(breaker)
    /\ inflight' = inflight \cup {c}
    /\ IF TimeoutElapsed(breaker)
       THEN probes' = {c} /\ successes' = 0 /\ probeLost' = FALSE
       ELSE /\ probes' = IF breaker.state = "half_open" THEN probes \cup {c}
                                                        ELSE probes
            /\ UNCHANGED <<successes, probeLost>>

\* call(): allow_call() returned False, CircuitOpenError is raised.
Reject(c) ==
    /\ c \notin inflight
    /\ ~Allows(breaker)
    /\ UNCHANGED vars

\* The history a finished call leaves: nobody is a probe of a period that is
\* over.
Leave(c) ==
    /\ inflight' = inflight \ {c}
    /\ probes' = IF breaker'.state = "half_open" THEN probes \ {c} ELSE {}

\* The awaited operation returned.
Succeed(c) ==
    /\ c \in inflight
    /\ breaker' = RecordSuccess(breaker)
    /\ Leave(c)
    /\ successes' = IF breaker.state = "half_open" THEN successes + 1
                                                   ELSE successes
    /\ UNCHANGED probeLost

\* The awaited operation raised an Exception.
Fail(c) ==
    /\ c \in inflight
    /\ breaker' = RecordFailure(breaker)
    /\ Leave(c)
    /\ UNCHANGED <<successes, probeLost>>

\* The awaiting task was cancelled: CancelledError is a BaseException, which
\* `except Exception` in call() does not catch.
Cancel(c) ==
    /\ c \in inflight
    /\ UNCHANGED breaker
    /\ Leave(c)
    /\ probeLost' = (probeLost \/ c \in probes)
    /\ UNCHANGED successes

\* timeout_seconds have passed since opened_at.
ClockAdvances ==
    /\ breaker.openedAt = "fresh"
    /\ breaker' = [breaker EXCEPT !.openedAt = "aged"]
    /\ UNCHANGED <<inflight, history>>

Finish(c) == Succeed(c) \/ Fail(c) \/ Cancel(c)

Next ==
    \/ \E c \in Callers : Admit(c) \/ Reject(c) \/ Succeed(c) \/ Fail(c) \/ Cancel(c)
    \/ ClockAdvances

\* Time passes, requests keep arriving, and an awaited provider call ends in
\* some way (the providers' HTTP clients have timeouts).
Fairness ==
    /\ WF_vars(ClockAdvances)
    /\ \A c \in Callers : WF_vars(Admit(c)) /\ WF_vars(Finish(c))

Spec == Init /\ [][Next]_vars
FairSpec == Spec /\ Fairness

-----------------------------------------------------------------------------
(* Properties *)

\* A breaker that has seen failure_threshold consecutive failures is never
\* CLOSED: tripping and the counter's resets stay in step, whatever late
\* results of old calls are recorded in between (_record_failure,
\* _record_success).
ClosedBelowThreshold ==
    breaker.state = "closed" => breaker.consecutiveFailures < FailureThreshold

\* allow_call leaves OPEN only when _opened_at is not None, so an OPEN
\* breaker without a timestamp would reject for ever.
OpenHasTimestamp ==
    breaker.state = "open" => breaker.openedAt # "none"

\* HALF_OPEN lets at most half_open_max_calls of its own probe calls be in
\* flight, however many callers race for them (allow_call).
ProbeBudget ==
    breaker.state = "half_open" =>
        Cardinality(probes) <= HalfOpenMaxCalls

\* The breaker closes only on half_open_max_calls successes recorded since
\* it last became HALF_OPEN: no success of an earlier period is counted
\* again (the counter resets of allow_call and _record_failure).
CloseNeedsFreshSuccesses ==
    [][breaker.state = "half_open" /\ breaker'.state = "closed"
         => successes' = HalfOpenMaxCalls]_vars

\* "after timeout, moves to HALF_OPEN": with callers that keep calling, an
\* OPEN breaker always gets its recovery probe (allow_call).
OpenEventuallyProbes ==
    breaker.state = "open" ~> breaker.state # "open"

\* A HALF_OPEN period that loses none of its probes to cancellation comes to
\* a verdict: CLOSED or OPEN again.
HalfOpenResolvesUnlessCancelled ==
    breaker.state = "half_open" ~> (breaker.state # "half_open" \/ probeLost)

\* resilience.py:161, "HALF_OPEN- limited probe calls; success closes,
\* failure re-opens": HALF_OPEN is a state the breaker leaves.
HalfOpenResolves ==
    breaker.state = "half_open" ~> breaker.state # "half_open"
=============================================================================
