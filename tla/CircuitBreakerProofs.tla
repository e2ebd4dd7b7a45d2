------------------------ MODULE CircuitBreakerProofs ------------------------
(***************************************************************************)
(* The safety properties of CircuitBreaker, for every number of callers    *)
(* and every configuration.                                                *)
(*                                                                         *)
(* Argument.  Sound(b) says of the object what its own methods need and    *)
(* keep: thresholds, the timestamp and, in HALF_OPEN, fewer successes than *)
(* would have closed it.  The lemmas show that each locked method keeps    *)
(* it.  Inv adds how the history fits the object: the probes in flight     *)
(* took slots of this half-open period, and the successes counted are this *)
(* period's.                                                               *)
(***************************************************************************)
EXTENDS CircuitBreaker, FiniteSetTheorems, TLAPS

Sound(b) ==
    /\ b.state = "closed" => b.consecutiveFailures < FailureThreshold
    /\ b.state = "open" => b.openedAt # "none"
    /\ b.state = "half_open" => b.halfOpenSuccesses < HalfOpenMaxCalls

\* The inductive invariant.
Inv ==
    /\ TypeOK
    /\ Sound(breaker)
    /\ breaker.state = "half_open" =>
           /\ Cardinality(probes) <= breaker.halfOpenCalls
           /\ successes = breaker.halfOpenSuccesses
    /\ breaker.state # "half_open" => probes = {}

-----------------------------------------------------------------------------
(* The locked methods *)

\* A new CircuitBreaker is sound.
LEMMA NewBreakerSound == NewBreaker \in Breaker /\ Sound(NewBreaker)
  BY BreakerConfigAssumption, SMT
  DEF NewBreaker, Breaker, States, OpenedAt, Sound

\* Writing one field of a breaker keeps its type.
LEMMA FieldUpdate ==
  ASSUME NEW b \in Breaker
  PROVE  /\ \A x \in States : [b EXCEPT !.state = x] \in Breaker
         /\ \A x \in OpenedAt : [b EXCEPT !.openedAt = x] \in Breaker
         /\ [b EXCEPT !.consecutiveFailures = 0] \in Breaker
         /\ [b EXCEPT !.halfOpenCalls = 0] \in Breaker
         /\ [b EXCEPT !.halfOpenSuccesses = 0] \in Breaker
  BY BreakerConfigAssumption DEF Breaker

\* The changes of state keep the type of the object.
LEMMA ChangeTyped ==
  ASSUME NEW b \in Breaker
  PROVE  /\ HalfOpen(b) \in Breaker
         /\ Trip(b) \in Breaker
         /\ Reopen(b) \in Breaker
         /\ Close(b) \in Breaker
  <1>1. "half_open" \in States /\ "open" \in States /\ "closed" \in States
    BY DEF States
  <1>2. "fresh" \in OpenedAt /\ "none" \in OpenedAt
    BY DEF OpenedAt
  <1>3. HalfOpen(b) \in Breaker
    <2> DEFINE b1 == [b EXCEPT !.state = "half_open"]
               b2 == [b1 EXCEPT !.halfOpenCalls = 0]
    <2>1. HalfOpen(b) = [b2 EXCEPT !.halfOpenSuccesses = 0]
      BY DEF HalfOpen
    <2>2. b1 \in Breaker
      BY <1>1, FieldUpdate
    <2> HIDE DEF b1
    <2>3. b2 \in Breaker
      BY <2>2, FieldUpdate
    <2> HIDE DEF b2
    <2>4. QED
      BY <2>1, <2>3, FieldUpdate
  <1> DEFINE o1 == [b EXCEPT !.state = "open"]
             o2 == [o1 EXCEPT !.openedAt = "fresh"]
             o3 == [o2 EXCEPT !.halfOpenCalls = 0]
             c1 == [b EXCEPT !.state = "closed"]
             c2 == [c1 EXCEPT !.consecutiveFailures = 0]
             c3 == [c2 EXCEPT !.openedAt = "none"]
  <1>4. /\ Trip(b) = o2
        /\ Reopen(b) = [o3 EXCEPT !.halfOpenSuccesses = 0]
        /\ Close(b) = [c3 EXCEPT !.halfOpenCalls = 0]
    BY DEF Trip, Reopen, Close
  <1>5. o1 \in Breaker /\ c1 \in Breaker
    BY <1>1, FieldUpdate
  <1> HIDE DEF o1, c1
  <1>6. o2 \in Breaker /\ c2 \in Breaker
    BY <1>2, <1>5, FieldUpdate
  <1> HIDE DEF o2, c2
  <1>7. o3 \in Breaker /\ c3 \in Breaker
    BY <1>2, <1>6, FieldUpdate
  <1> HIDE DEF o3, c3
  <1>8. QED
    BY <1>3, <1>4, <1>6, <1>7, FieldUpdate

\* allow_call keeps the object sound, and takes a probe slot when it admits
\* a call in HALF_OPEN.
LEMMA AllowCallSound ==
  ASSUME NEW b \in Breaker, Sound(b), Allows(b)
  PROVE  /\ AllowCall(b) \in Breaker
         /\ Sound(AllowCall(b))
         /\ TimeoutElapsed(b) => /\ AllowCall(b).state = "half_open"
                                 /\ AllowCall(b).halfOpenCalls = 1
                                 /\ AllowCall(b).halfOpenSuccesses = 0
         /\ ~TimeoutElapsed(b) =>
                /\ AllowCall(b).state = b.state
                /\ AllowCall(b).halfOpenSuccesses = b.halfOpenSuccesses
                /\ b.state = "half_open" =>
                     AllowCall(b).halfOpenCalls = b.halfOpenCalls + 1
  <1> USE BreakerConfigAssumption
  <1>1. CASE TimeoutElapsed(b)
    <2> DEFINE h == HalfOpen(b)
    <2>1. h \in Breaker
      BY ChangeTyped
    <2>2. h.state = "half_open" /\ h.halfOpenCalls = 0 /\ h.halfOpenSuccesses = 0
      BY DEF HalfOpen, Breaker
    <2>3. AllowCall(b) = [h EXCEPT !.halfOpenCalls = h.halfOpenCalls + 1]
      BY <1>1, <2>2 DEF AllowCall, AfterTimeout
    <2> HIDE DEF h
    <2>4. AllowCall(b) = [h EXCEPT !.halfOpenCalls = 1]
      BY <2>2, <2>3
    <2>5. /\ AllowCall(b) \in Breaker
          /\ AllowCall(b).state = "half_open"
          /\ AllowCall(b).halfOpenCalls = 1
          /\ AllowCall(b).halfOpenSuccesses = 0
      BY <2>1, <2>2, <2>4 DEF Breaker
    <2>6. Sound(AllowCall(b))
      BY <2>5 DEF Sound
    <2>7. QED
      BY <1>1, <2>5, <2>6
  <1>2. CASE ~TimeoutElapsed(b) /\ b.state = "closed"
    <2>1. AllowCall(b) = b
      BY <1>2 DEF AllowCall, AfterTimeout
    <2>2. QED
      BY <1>2, <2>1
  <1>3. CASE ~TimeoutElapsed(b) /\ b.state = "half_open"
    <2>1. AllowCall(b) = [b EXCEPT !.halfOpenCalls = b.halfOpenCalls + 1]
      BY <1>3 DEF AllowCall, AfterTimeout
    <2>2. b.halfOpenCalls + 1 \in 0..HalfOpenMaxCalls
      BY <1>3 DEF Allows, AfterTimeout, ProbeSlotFree, Breaker
    <2>3. AllowCall(b) \in Breaker
      BY <2>1, <2>2 DEF Breaker
    <2>4. Sound(AllowCall(b))
      BY <2>1 DEF Sound, Breaker
    <2>5. QED
      BY <1>3, <2>1, <2>3, <2>4 DEF Breaker
  <1>4. QED
    BY <1>1, <1>2, <1>3 DEF Allows, AfterTimeout

\* _record_failure keeps the object sound and never leaves it HALF_OPEN.
LEMMA RecordFailureSound ==
  ASSUME NEW b \in Breaker, Sound(b)
  PROVE  /\ RecordFailure(b) \in Breaker
         /\ Sound(RecordFailure(b))
         /\ RecordFailure(b).state # "half_open"
         /\ b.state = "half_open" => RecordFailure(b).state = "open"
  <1> USE BreakerConfigAssumption
  <1> DEFINE f == BumpFailures(b)
  <1>1. /\ f \in Breaker
        /\ f.state = b.state /\ f.openedAt = b.openedAt
    BY DEF BumpFailures, Breaker
  <1> HIDE DEF f
  <1>2. CASE b.state = "half_open"
    <2>1. RecordFailure(b) = Reopen(f)
      BY <1>1, <1>2 DEF RecordFailure, f
    <2>2. Reopen(f).state = "open" /\ Reopen(f).openedAt = "fresh"
      BY <1>1 DEF Reopen, Breaker
    <2>3. QED
      BY <1>1, <2>1, <2>2, ChangeTyped DEF Sound
  <1>3. CASE b.state = "closed" /\ f.consecutiveFailures >= FailureThreshold
    <2>1. RecordFailure(b) = Trip(f)
      BY <1>1, <1>3 DEF RecordFailure, f
    <2>2. Trip(f).state = "open" /\ Trip(f).openedAt = "fresh"
      BY <1>1 DEF Trip, Breaker
    <2>3. QED
      BY <1>1, <1>3, <2>1, <2>2, ChangeTyped DEF Sound
  <1>4. CASE b.state # "half_open"
             /\ ~(b.state = "closed" /\ f.consecutiveFailures >= FailureThreshold)
    <2>1. RecordFailure(b) = f
      BY <1>1, <1>4 DEF RecordFailure, f
    <2>2. f.consecutiveFailures \in Nat
      BY <1>1 DEF Breaker
    <2>3. QED
      BY <1>1, <1>4, <2>1, <2>2 DEF Sound
  <1>5. QED
    BY <1>2, <1>3, <1>4

\* _record_success keeps the object sound and closes it only when this
\* success is the half_open_max_calls-th of the period.
LEMMA RecordSuccessSound ==
  ASSUME NEW b \in Breaker, Sound(b)
  PROVE  /\ RecordSuccess(b) \in Breaker
         /\ Sound(RecordSuccess(b))
         /\ b.state # "half_open" => RecordSuccess(b).state = b.state
         /\ RecordSuccess(b).state = "half_open" =>
                /\ b.state = "half_open"
                /\ RecordSuccess(b).halfOpenSuccesses = b.halfOpenSuccesses + 1
                /\ RecordSuccess(b).halfOpenCalls = b.halfOpenCalls
         /\ b.state = "half_open" /\ RecordSuccess(b).state = "closed" =>
                b.halfOpenSuccesses + 1 = HalfOpenMaxCalls
  <1> USE BreakerConfigAssumption
  <1>1. CASE b.state # "half_open"
    <2>1. RecordSuccess(b) = [b EXCEPT !.consecutiveFailures = 0]
      BY <1>1 DEF RecordSuccess
    <2>2. RecordSuccess(b) \in Breaker /\ RecordSuccess(b).state = b.state
      BY <2>1 DEF Breaker
    <2>3. Sound(RecordSuccess(b))
      BY <1>1, <2>1 DEF Sound, Breaker
    <2>4. QED
      BY <1>1, <2>2, <2>3
  <1>2. CASE b.state = "half_open"
    <2> DEFINE s == BumpSuccesses(b)
    <2>1. /\ s = [b EXCEPT !.halfOpenSuccesses = b.halfOpenSuccesses + 1]
          /\ b.halfOpenSuccesses + 1 \in 0..HalfOpenMaxCalls
      BY <1>2 DEF BumpSuccesses, Sound, Breaker
    <2>2. /\ s \in Breaker /\ s.state = "half_open"
          /\ s.halfOpenSuccesses = b.halfOpenSuccesses + 1
          /\ s.halfOpenCalls = b.halfOpenCalls
      BY <1>2, <2>1 DEF Breaker
    <2> HIDE DEF s
    <2>3. CASE s.halfOpenSuccesses >= HalfOpenMaxCalls
      <3>1. RecordSuccess(b) = Close(s)
        BY <1>2, <2>3 DEF RecordSuccess, s
      <3>2. /\ Close(s) \in Breaker /\ Close(s).state = "closed"
            /\ Close(s).consecutiveFailures = 0
        BY <2>2, ChangeTyped DEF Close, Breaker
      <3>3. b.halfOpenSuccesses + 1 = HalfOpenMaxCalls
        BY <2>1, <2>2, <2>3
      <3>4. Sound(Close(s))
        BY <3>2 DEF Sound
      <3>5. QED
        BY <1>2, <3>1, <3>2, <3>3, <3>4
    <2>4. CASE ~(s.halfOpenSuccesses >= HalfOpenMaxCalls)
      <3>1. RecordSuccess(b) = s
        BY <1>2, <2>4 DEF RecordSuccess, s
      <3>2. Sound(s)
        BY <2>1, <2>2, <2>4 DEF Sound
      <3>3. QED
        BY <1>2, <2>2, <3>1, <3>2
    <2>5. QED
      BY <2>3, <2>4
  <1>3. QED
    BY <1>1, <1>2

\* One caller changes the size of a set of callers by at most one.
LEMMA CallerCount ==
  ASSUME NEW P \in SUBSET Callers, NEW c \in Callers
  PROVE  /\ Cardinality(P) \in Nat
         /\ c \notin P => Cardinality(P \cup {c}) = Cardinality(P) + 1
         /\ Cardinality(P \ {c}) \in Nat
         /\ Cardinality(P \ {c}) <= Cardinality(P)
         /\ Cardinality({c}) = 1
  <1>1. IsFiniteSet(P)
    BY CallersAssumption, FS_Subset
  <1>2. Cardinality(P) \in Nat /\ Cardinality(P \ {c}) \in Nat
    BY <1>1, FS_CardinalityType, FS_Subset
  <1>3. c \notin P => Cardinality(P \cup {c}) = Cardinality(P) + 1
    BY <1>1, FS_AddElement
  <1>4. Cardinality(P \ {c}) <= Cardinality(P)
    BY <1>1, FS_Subset
  <1>5. Cardinality({c}) = 1
    BY FS_Singleton
  <1>6. QED
    BY <1>2, <1>3, <1>4, <1>5

-----------------------------------------------------------------------------
(* The invariant *)

LEMMA InvInit == Init => Inv
  <1> SUFFICES ASSUME Init PROVE Inv
    OBVIOUS
  <1>1. breaker \in Breaker /\ Sound(breaker) /\ breaker.state = "closed"
    BY NewBreakerSound DEF Init, NewBreaker
  <1>2. QED
    BY <1>1 DEF Init, Inv, TypeOK

LEMMA InvNext == Inv /\ [Next]_vars => Inv'
  <1> SUFFICES ASSUME Inv, [Next]_vars PROVE Inv'
    OBVIOUS
  <1> USE DEF Inv, TypeOK
  <1>1. ASSUME NEW c \in Callers, Admit(c) PROVE Inv'
    <2>1. /\ breaker' \in Breaker
          /\ Sound(breaker')
      BY <1>1, AllowCallSound DEF Admit
    <2>2. CASE TimeoutElapsed(breaker)
      <3>1. /\ breaker'.state = "half_open"
            /\ breaker'.halfOpenCalls = 1
            /\ breaker'.halfOpenSuccesses = 0
        BY <1>1, <2>2, AllowCallSound DEF Admit
      <3>2. probes' = {c} /\ successes' = 0 /\ probeLost' = FALSE
        BY <1>1, <2>2 DEF Admit
      <3>3. Cardinality(probes') <= breaker'.halfOpenCalls
        <4>1. Cardinality({c}) = 1
          BY FS_Singleton
        <4>2. QED
          BY <3>1, <3>2, <4>1
      <3>4. inflight' \subseteq Callers /\ probes' \subseteq inflight'
        BY <1>1, <3>2 DEF Admit
      <3>5. QED
        BY <2>1, <3>1, <3>2, <3>3, <3>4
    <2>3. CASE ~TimeoutElapsed(breaker)
      <3>1. /\ breaker'.state = breaker.state
            /\ breaker'.halfOpenSuccesses = breaker.halfOpenSuccesses
            /\ breaker.state = "half_open" =>
                 breaker'.halfOpenCalls = breaker.halfOpenCalls + 1
        BY <1>1, <2>3, AllowCallSound DEF Admit
      <3>2. /\ successes' = successes /\ probeLost' = probeLost
            /\ probes' = IF breaker.state = "half_open" THEN probes \cup {c}
                                                        ELSE probes
        BY <1>1, <2>3 DEF Admit
      <3>3. inflight' \subseteq Callers /\ probes' \subseteq inflight'
        BY <1>1, <3>2 DEF Admit
      <3>4. breaker'.state = "half_open" =>
                Cardinality(probes') <= breaker'.halfOpenCalls
        <4>1. c \notin probes
          BY <1>1 DEF Admit
        <4>2. breaker.halfOpenCalls \in Nat
          BY BreakerConfigAssumption DEF Breaker
        <4>3. /\ Cardinality(probes) \in Nat
              /\ Cardinality(probes \cup {c}) = Cardinality(probes) + 1
          BY <1>1, <4>1, CallerCount
        <4>4. QED
          BY <3>1, <3>2, <4>2, <4>3
      <3>5. QED
        BY <2>1, <3>1, <3>2, <3>3, <3>4
    <2>4. QED
      BY <2>2, <2>3
  <1>2. ASSUME NEW c \in Callers, Reject(c) PROVE Inv'
    BY <1>2 DEF Reject, vars, Sound
  <1>3. ASSUME NEW c \in Callers, Succeed(c) PROVE Inv'
    <2>1. /\ breaker' \in Breaker
          /\ Sound(breaker')
          /\ breaker.state # "half_open" => breaker'.state = breaker.state
          /\ breaker'.state = "half_open" =>
                /\ breaker.state = "half_open"
                /\ breaker'.halfOpenSuccesses = breaker.halfOpenSuccesses + 1
                /\ breaker'.halfOpenCalls = breaker.halfOpenCalls
      BY <1>3, RecordSuccessSound DEF Succeed
    <2>2. /\ inflight' = inflight \ {c}
          /\ probes' = IF breaker'.state = "half_open" THEN probes \ {c} ELSE {}
          /\ successes' = IF breaker.state = "half_open" THEN successes + 1
                                                         ELSE successes
          /\ probeLost' = probeLost
      BY <1>3 DEF Succeed, Leave
    <2>3. breaker'.state = "half_open" =>
              Cardinality(probes') <= breaker'.halfOpenCalls
      <3>1. breaker.halfOpenCalls \in Nat
        BY BreakerConfigAssumption DEF Breaker
      <3>2. /\ Cardinality(probes) \in Nat /\ Cardinality(probes \ {c}) \in Nat
            /\ Cardinality(probes \ {c}) <= Cardinality(probes)
        BY <1>3, CallerCount
      <3>3. QED
        BY <2>1, <2>2, <3>1, <3>2
    <2>4. QED
      BY <2>1, <2>2, <2>3
  <1>4. ASSUME NEW c \in Callers, Fail(c) PROVE Inv'
    BY <1>4, RecordFailureSound DEF Fail, Leave
  <1>5. ASSUME NEW c \in Callers, Cancel(c) PROVE Inv'
    <2>1. /\ breaker' = breaker
          /\ inflight' = inflight \ {c}
          /\ probes' = IF breaker.state = "half_open" THEN probes \ {c} ELSE {}
          /\ successes' = successes
          /\ probeLost' \in BOOLEAN
      BY <1>5 DEF Cancel, Leave
    <2>2. breaker.state = "half_open" =>
              Cardinality(probes') <= breaker.halfOpenCalls
      <3>1. breaker.halfOpenCalls \in Nat
        BY BreakerConfigAssumption DEF Breaker
      <3>2. /\ Cardinality(probes) \in Nat /\ Cardinality(probes \ {c}) \in Nat
            /\ Cardinality(probes \ {c}) <= Cardinality(probes)
        BY <1>5, CallerCount
      <3>3. QED
        BY <2>1, <3>1, <3>2
    <2>3. QED
      BY <2>1, <2>2 DEF Sound
  <1>6. CASE ClockAdvances
    <2>1. /\ breaker' \in Breaker
          /\ Sound(breaker')
          /\ breaker'.state = breaker.state
          /\ breaker'.halfOpenCalls = breaker.halfOpenCalls
          /\ breaker'.halfOpenSuccesses = breaker.halfOpenSuccesses
      BY <1>6 DEF ClockAdvances, Breaker, OpenedAt, Sound
    <2>2. QED
      BY <1>6, <2>1 DEF ClockAdvances, history
  <1>7. CASE UNCHANGED vars
    BY <1>7 DEF vars, Sound
  <1>8. QED
    BY <1>1, <1>2, <1>3, <1>4, <1>5, <1>6, <1>7 DEF Next

LEMMA InvAlways == Spec => []Inv
  BY InvInit, InvNext, PTL DEF Spec

-----------------------------------------------------------------------------
(* The properties *)

\* The breaker object and the sets of callers keep their types: in
\* particular the probe and success counters of CircuitBreaker never exceed
\* half_open_max_calls.
THEOREM TypeCorrect == Spec => []TypeOK
  <1>1. Inv => TypeOK
    BY DEF Inv
  <1>2. QED
    BY InvAlways, <1>1, PTL

\* A breaker with failure_threshold consecutive failures is not CLOSED,
\* whatever late results _record_failure and _record_success have seen.
THEOREM NeverClosedAtThreshold == Spec => []ClosedBelowThreshold
  <1>1. Inv => ClosedBelowThreshold
    BY DEF Inv, Sound, ClosedBelowThreshold
  <1>2. QED
    BY InvAlways, <1>1, PTL

\* An OPEN breaker has the timestamp allow_call needs to leave OPEN.
THEOREM OpenIsTimed == Spec => []OpenHasTimestamp
  <1>1. Inv => OpenHasTimestamp
    BY DEF Inv, Sound, OpenHasTimestamp
  <1>2. QED
    BY InvAlways, <1>1, PTL

\* However many callers race, allow_call lets at most half_open_max_calls
\* probes of one half-open period be in flight.
THEOREM ProbesBounded == Spec => []ProbeBudget
  <1>1. Inv => ProbeBudget
    <2> SUFFICES ASSUME Inv, breaker.state = "half_open"
                 PROVE  Cardinality(probes) <= HalfOpenMaxCalls
      BY DEF ProbeBudget
    <2>1. IsFiniteSet(probes)
      BY CallersAssumption, FS_Subset DEF Inv, TypeOK
    <2>2. Cardinality(probes) \in Nat
      BY <2>1, FS_CardinalityType
    <2>3. /\ Cardinality(probes) <= breaker.halfOpenCalls
          /\ breaker.halfOpenCalls \in 0..HalfOpenMaxCalls
      BY DEF Inv, TypeOK, Breaker
    <2>4. QED
      BY <2>2, <2>3, BreakerConfigAssumption
  <1>2. QED
    BY InvAlways, <1>1, PTL

\* _record_success closes the breaker only on half_open_max_calls successes
\* of the current half-open period.
THEOREM ClosesOnFreshSuccesses == Spec => CloseNeedsFreshSuccesses
  <1> DEFINE Closes == breaker.state = "half_open" /\ breaker'.state = "closed"
  <1>1. Inv /\ [Next]_vars => [Closes => successes' = HalfOpenMaxCalls]_vars
    <2> SUFFICES ASSUME Inv, Next, Closes
                 PROVE  successes' = HalfOpenMaxCalls
      OBVIOUS
    <2> USE DEF Inv, TypeOK
    <2>1. ASSUME NEW c \in Callers, Succeed(c) PROVE successes' = HalfOpenMaxCalls
      <3>1. breaker.halfOpenSuccesses + 1 = HalfOpenMaxCalls
        BY <2>1, RecordSuccessSound DEF Succeed
      <3>2. successes' = successes + 1
        BY <2>1 DEF Succeed
      <3>3. QED
        BY <3>1, <3>2
    <2>2. ASSUME NEW c \in Callers, Admit(c) PROVE FALSE
      BY <2>2, AllowCallSound DEF Admit
    <2>3. ASSUME NEW c \in Callers, Reject(c) \/ Cancel(c) PROVE FALSE
      BY <2>3 DEF Reject, Cancel, vars
    <2>4. ASSUME NEW c \in Callers, Fail(c) PROVE FALSE
      BY <2>4, RecordFailureSound DEF Fail
    <2>5. ASSUME ClockAdvances PROVE FALSE
      BY <2>5 DEF ClockAdvances, Breaker
    <2>6. QED
      BY <2>1, <2>2, <2>3, <2>4, <2>5 DEF Next
  <1>2. QED
    BY InvAlways, <1>1, PTL DEF Spec, CloseNeedsFreshSuccesses
=============================================================================
