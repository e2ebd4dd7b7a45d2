-------------------------- MODULE JobManagerProofs --------------------------
(***************************************************************************)
(* Safety of JobManager for any number of jobs and workers, any queue      *)
(* limit and any number of attempts and calls of retry().                  *)
(*                                                                         *)
(* Argument.  A job's status is right about where the job is because the   *)
(* two statuses that promise more work also promise an attempt: "queued"   *)
(* has all of them, "retrying" at least one, so neither the while loop of  *)
(* _process nor a second worker on the same job can drop it.  A job retry  *)
(* was never called for is in one place at a time, and in none before it   *)
(* is enqueued or after it is a dead letter.                               *)
(***************************************************************************)
EXTENDS JobManager, TLAPS

\* A job that is waited for has attempts left.
AttemptsLeft ==
    \A j \in Jobs : /\ status[j] \in {"none", "queued"} => attempt[j] = 0
                    /\ status[j] = "retrying" => attempt[j] < MaxAttempts

Nowhere(j) == ~InQueue(j) /\ \A w \in Workers : ~Holds(w, j)

\* A job that is not born, or dead for good, is nowhere.
GoneIsNowhere ==
    \A j \in Jobs \ retried :
        /\ status[j] = "none" => Nowhere(j)
        /\ j \in deadLetter => status[j] = "dead_letter" /\ Nowhere(j)

Inv ==
    /\ TypeOK
    /\ NoStrandedJob
    /\ AttemptsLeft
    /\ OneRunnerUnlessRetried
    /\ GoneIsNowhere

-----------------------------------------------------------------------------
(* Sequences and workers *)

\* Queueing a job.
LEMMA AppendQueue ==
  ASSUME NEW q \in Seq(Jobs), NEW j \in Jobs
  PROVE  /\ Append(q, j) \in Seq(Jobs)
         /\ Len(Append(q, j)) = Len(q) + 1
         /\ \A i \in 1..Len(q) : Append(q, j)[i] = q[i]
         /\ Append(q, j)[Len(q) + 1] = j
  OBVIOUS

\* Taking a job from the queue.
LEMMA TailQueue ==
  ASSUME NEW q \in Seq(Jobs), q # <<>>
  PROVE  /\ Head(q) \in Jobs /\ Head(q) = q[1]
         /\ Tail(q) \in Seq(Jobs)
         /\ Len(Tail(q)) = Len(q) - 1 /\ Len(q) \in Nat \ {0}
         /\ \A i \in 1..Len(Tail(q)) : Tail(q)[i] = q[i + 1]
  OBVIOUS

\* The records a worker can be.
LEMMA WorkerValues ==
  /\ Free \in Worker /\ Dead \in Worker
  /\ Free # Dead
  /\ \A j \in Jobs : On("handler", j) \in Worker /\ On("sleep", j) \in Worker
  /\ \A place \in {"handler", "sleep"}, j \in Jobs :
        /\ On(place, j).at = place /\ On(place, j).job = j
        /\ On(place, j) # Free /\ On(place, j) # Dead
  /\ \A j, k \in Jobs : On("handler", j) # On("sleep", k)
  /\ \A place \in {"handler", "sleep"}, j, k \in Jobs :
        On(place, j) = On(place, k) => j = k
  <1>1. Free \in Worker /\ Dead \in Worker
    BY DEF Worker, Free, Dead
  <1>2. Free.at = "queue" /\ Dead.at = "dead"
    BY DEF Free, Dead
  <1>3. \A j \in Jobs : On("handler", j) \in Worker /\ On("sleep", j) \in Worker
    BY DEF Worker, On
  <1>4. \A place \in {"handler", "sleep"}, j \in Jobs :
            On(place, j).at = place /\ On(place, j).job = j
    BY DEF On
  <1>5. QED
    BY <1>1, <1>2, <1>3, <1>4

\* A worker's value is told by what it awaits.
LEMMA WorkerCases ==
  ASSUME NEW v \in Worker
  PROVE  /\ v.at = "handler" => v.job \in Jobs /\ v = On("handler", v.job)
         /\ v.at = "sleep" => v.job \in Jobs /\ v = On("sleep", v.job)
  BY DEF Worker, On

In(q, j) == \E i \in 1..Len(q) : q[i] = j
Once(q, j) == \A i, k \in 1..Len(q) : q[i] = j /\ q[k] = j => i = k

LEMMA InAppend ==
  ASSUME NEW q \in Seq(Jobs), NEW j \in Jobs, NEW k \in Jobs
  PROVE  /\ In(Append(q, j), k) <=> In(q, k) \/ k = j
         /\ Once(q, k) /\ (k = j => ~In(q, k)) => Once(Append(q, j), k)
  <1> DEFINE a == Append(q, j)
  <1>1. /\ Len(q) \in Nat /\ Len(a) = Len(q) + 1
        /\ \A i \in 1..Len(q) : a[i] = q[i]
        /\ a[Len(q) + 1] = j
    BY AppendQueue
  <1> HIDE DEF a
  <1>2. In(a, k) <=> In(q, k) \/ k = j
    BY <1>1 DEF In
  <1>3. Once(q, k) /\ (k = j => ~In(q, k)) => Once(a, k)
    BY <1>1 DEF In, Once
  <1>4. QED
    BY <1>2, <1>3 DEF a

LEMMA InTail ==
  ASSUME NEW q \in Seq(Jobs), q # <<>>, NEW k \in Jobs
  PROVE  /\ In(q, Head(q))
         /\ In(Tail(q), k) => In(q, k)
         /\ In(q, k) /\ k # Head(q) => In(Tail(q), k)
         /\ Once(q, k) => Once(Tail(q), k)
         /\ Once(q, k) /\ k = Head(q) => ~In(Tail(q), k)
  <1> DEFINE r == Tail(q)
  <1>1. /\ Head(q) = q[1]
        /\ Len(r) = Len(q) - 1 /\ Len(q) \in Nat \ {0}
        /\ \A i \in 1..Len(r) : r[i] = q[i + 1]
    BY TailQueue
  <1> HIDE DEF r
  <1>2. In(q, Head(q))
    BY <1>1 DEF In
  <1>3. In(r, k) => In(q, k)
    BY <1>1 DEF In
  <1>4. ASSUME In(q, k), k # Head(q) PROVE In(r, k)
    <2>1. PICK i \in 1..Len(q) : q[i] = k
      BY <1>4 DEF In
    <2>2. i - 1 \in 1..Len(r) /\ r[i - 1] = q[i]
      BY <1>1, <1>4, <2>1
    <2>3. QED
      BY <2>1, <2>2 DEF In
  <1>5. ASSUME Once(q, k), NEW i \in 1..Len(r), NEW m \in 1..Len(r),
               r[i] = k, r[m] = k
        PROVE  i = m
    <2>1. i + 1 \in 1..Len(q) /\ m + 1 \in 1..Len(q)
      BY <1>1
    <2>2. q[i + 1] = k /\ q[m + 1] = k
      BY <1>1, <1>5
    <2>3. i + 1 = m + 1
      BY <1>5, <2>1, <2>2 DEF Once
    <2>4. QED
      BY <2>3
  <1>6. ASSUME Once(q, k), k = Head(q), NEW i \in 1..Len(r), r[i] = k
        PROVE  FALSE
    <2>1. i + 1 \in 1..Len(q) /\ 1 \in 1..Len(q) /\ i + 1 # 1
      BY <1>1
    <2>2. q[i + 1] = k /\ q[1] = k
      BY <1>1, <1>6
    <2>3. QED
      BY <1>6, <2>1, <2>2 DEF Once
  <1>7. QED
    BY <1>2, <1>3, <1>4, <1>5, <1>6 DEF In, Once, r

-----------------------------------------------------------------------------
(* The invariant, in terms of In and Once *)

\* What Inv says of one job, of its place and its state.
JobOK(j, st, at, q, wk, dead, again) ==
    /\ st = "queued" => In(q, j)
    /\ st \in {"none", "queued"} => at = 0
    /\ st = "processing" => \E w \in Workers : wk[w] = On("handler", j)
    /\ st = "retrying" => /\ \E w \in Workers : wk[w] = On("sleep", j)
                          /\ at < MaxAttempts
    /\ j \notin again =>
         LET Held(w) == wk[w] \in {On("handler", j), On("sleep", j)} IN
         /\ \A v, w \in Workers : Held(v) /\ Held(w) => v = w
         /\ Once(q, j)
         /\ In(q, j) => \A w \in Workers : ~Held(w)
         /\ st = "none" => ~In(q, j) /\ \A w \in Workers : ~Held(w)
         /\ j \in dead => /\ st = "dead_letter" /\ ~In(q, j)
                          /\ \A w \in Workers : ~Held(w)

JobsOK == \A j \in Jobs :
    JobOK(j, status[j], attempt[j], queue, worker, deadLetter, retried)

LEMMA InvIsJobsOK == Inv <=> TypeOK /\ JobsOK
  <1>1. \A j : InQueue(j) <=> In(queue, j)
    BY DEF InQueue, In
  <1>2. QED
    BY <1>1 DEF Inv, JobsOK, JobOK, NoStrandedJob, AttemptsLeft,
       OneRunnerUnlessRetried, GoneIsNowhere, Nowhere, Holds, Once

\* The values a worker has before, during and after its work at job j.
About(j) == {Free, Dead, On("handler", j), On("sleep", j)}

\* A step about job j leaves every other job alone.
LEMMA OtherJobs ==
  ASSUME NEW j \in Jobs, NEW k \in Jobs, k # j,
         NEW st, NEW at, NEW q1, NEW q2, NEW d1, NEW d2, NEW a1, NEW a2,
         NEW f1, NEW f2,
         JobOK(k, st, at, q1, f1, d1, a1),
         In(q2, k) <=> In(q1, k), Once(q1, k) => Once(q2, k),
         \A w \in Workers : f2[w] = f1[w] \/ (f1[w] \in About(j) /\ f2[w] \in About(j)),
         k \in d2 <=> k \in d1, k \in a2 <=> k \in a1
  PROVE  JobOK(k, st, at, q2, f2, d2, a2)
  <1>1. \A w \in Workers : /\ f2[w] = On("handler", k) <=> f1[w] = On("handler", k)
                           /\ f2[w] = On("sleep", k) <=> f1[w] = On("sleep", k)
    BY WorkerValues DEF About
  <1>2. QED
    BY <1>1 DEF JobOK

\* One worker's step.
LEMMA OneWorker ==
  ASSUME worker \in [Workers -> Worker], NEW w \in Workers, NEW x \in Worker,
         worker' = [worker EXCEPT ![w] = x]
  PROVE  /\ worker' \in [Workers -> Worker]
         /\ worker'[w] = x
         /\ \A v \in Workers : v # w => worker'[v] = worker[v]
  OBVIOUS

LEMMA EnqueueInv ==
  ASSUME TypeOK, JobsOK, NEW j \in Jobs, Enqueue(j)
  PROVE  TypeOK' /\ JobsOK'
  <1>1. TypeOK'
    BY AppendQueue DEF TypeOK, Enqueue, Statuses
  <1>2. queue \in Seq(Jobs) /\ queue' = Append(queue, j)
    BY DEF TypeOK, Enqueue
  <1>3. /\ status'[j] = "queued" /\ status[j] = "none"
        /\ \A k \in Jobs : k # j => status'[k] = status[k]
        /\ UNCHANGED <<attempt, worker, deadLetter, retried>>
    BY DEF TypeOK, Enqueue
  <1>4. ASSUME NEW k \in Jobs
        PROVE  JobOK(k, status'[k], attempt[k], queue', worker, deadLetter, retried)
    <2>1. JobOK(k, status[k], attempt[k], queue, worker, deadLetter, retried)
      BY DEF JobsOK
    <2>2. CASE k = j
      <3>1. In(queue', k)
        BY <1>2, <2>2, InAppend
      <3>2. k \notin retried => ~In(queue, k)
        BY <1>3, <2>1, <2>2 DEF JobOK
      <3>3. QED
        BY <1>2, <1>3, <2>1, <2>2, <3>1, <3>2, InAppend DEF JobOK
    <2>3. CASE k # j
      BY <1>2, <1>3, <2>1, <2>3, InAppend, OtherJobs
    <2>4. QED
      BY <2>2, <2>3
  <1>5. QED
    BY <1>1, <1>3, <1>4 DEF JobsOK

LEMMA CancelInv ==
  ASSUME TypeOK, JobsOK, NEW j \in Jobs, Cancel(j)
  PROVE  TypeOK' /\ JobsOK'
  <1>1. TypeOK'
    BY DEF TypeOK, Cancel, Statuses
  <1>2. /\ status'[j] = "cancelled"
        /\ status[j] \notin {"none", "completed", "cancelled", "dead_letter"}
        /\ \A k \in Jobs : k # j => status'[k] = status[k]
        /\ UNCHANGED <<attempt, queue, worker, deadLetter, retried>>
    BY DEF TypeOK, Cancel, Cancellable
  <1>3. ASSUME NEW k \in Jobs
        PROVE  JobOK(k, status'[k], attempt[k], queue, worker, deadLetter, retried)
    <2>1. JobOK(k, status[k], attempt[k], queue, worker, deadLetter, retried)
      BY DEF JobsOK
    <2>2. QED
      BY <1>2, <2>1 DEF JobOK
  <1>4. QED
    BY <1>1, <1>2, <1>3 DEF JobsOK

LEMMA RetryInv ==
  ASSUME TypeOK, JobsOK, NEW j \in Jobs, Retry(j)
  PROVE  TypeOK' /\ JobsOK'
  <1>1. TypeOK'
    BY AppendQueue, JobAssumption DEF TypeOK, Retry, RestartAttempts, Statuses
  <1>2. queue \in Seq(Jobs) /\ queue' = Append(queue, j)
    BY DEF TypeOK, Retry
  <1>3. /\ status'[j] = "queued" /\ attempt'[j] = 0 /\ j \in retried'
        /\ \A k \in Jobs : k # j => /\ status'[k] = status[k]
                                    /\ attempt'[k] = attempt[k]
                                    /\ k \in retried' <=> k \in retried
        /\ UNCHANGED <<worker, deadLetter>>
    BY DEF TypeOK, Retry, RestartAttempts
  <1>4. ASSUME NEW k \in Jobs
        PROVE  JobOK(k, status'[k], attempt'[k], queue', worker, deadLetter, retried')
    <2>1. JobOK(k, status[k], attempt[k], queue, worker, deadLetter, retried)
      BY DEF JobsOK
    <2>2. CASE k = j
      BY <1>2, <1>3, <2>2, InAppend DEF JobOK
    <2>3. CASE k # j
      BY <1>2, <1>3, <2>1, <2>3, InAppend, OtherJobs
    <2>4. QED
      BY <2>2, <2>3
  <1>5. QED
    BY <1>1, <1>3, <1>4 DEF JobsOK

LEMMA TakeInv ==
  ASSUME TypeOK, JobsOK, NEW w \in Workers, Take(w)
  PROVE  TypeOK' /\ JobsOK'
  <1> DEFINE j == Head(queue)
  <1>1. /\ queue \in Seq(Jobs) /\ queue # <<>> /\ queue' = Tail(queue)
        /\ j \in Jobs /\ Tail(queue) \in Seq(Jobs)
    BY TailQueue DEF TypeOK, Take, Dequeued
  <1>2. PICK x \in {Free, On("handler", j)} :
            /\ worker' = [worker EXCEPT ![w] = x]
            /\ \/ /\ status' = [status EXCEPT ![j] = "failed"]
                  /\ attempt' = attempt /\ x = Free
               \/ /\ status' = [status EXCEPT ![j] = "processing"]
                  /\ attempt' = [attempt EXCEPT ![j] = @ + 1]
                  /\ attempt[j] < MaxAttempts /\ x = On("handler", j)
               \/ /\ status' = status /\ attempt' = attempt
                  /\ ~(attempt[j] < MaxAttempts) /\ x = Free
    BY DEF Take, Release, Attempt, HasAttempt, Dequeued
  <1>3. x \in Worker /\ worker[w] = Free
    BY <1>1, WorkerValues DEF Take, Dequeued
  <1>4. /\ worker' \in [Workers -> Worker] /\ worker'[w] = x
        /\ \A v \in Workers : v # w => worker'[v] = worker[v]
    BY <1>2, <1>3, OneWorker DEF TypeOK
  <1> HIDE DEF j
  <1>5. \/ status'[j] = "failed" /\ attempt'[j] = attempt[j] /\ x = Free
        \/ status'[j] = "processing" /\ attempt'[j] = attempt[j] + 1
              /\ attempt[j] < MaxAttempts /\ x = On("handler", j)
        \/ status'[j] = status[j] /\ attempt'[j] = attempt[j]
              /\ ~(attempt[j] < MaxAttempts) /\ x = Free
    BY <1>1, <1>2 DEF TypeOK
  <1> USE DEF j
  <1>6. /\ \A k \in Jobs : k # j => status'[k] = status[k] /\ attempt'[k] = attempt[k]
        /\ status' \in [Jobs -> Statuses]
        /\ UNCHANGED <<deadLetter, retried, retryCalls>>
    BY DEF Take, Attempt, TypeOK, Statuses, Dequeued
  <1>7. attempt' \in [Jobs -> 0..MaxAttempts]
    <2>1. j \in Jobs /\ attempt \in [Jobs -> 0..MaxAttempts] /\ MaxAttempts \in Nat
      BY <1>1, JobAssumption DEF TypeOK
    <2> HIDE DEF j
    <2>2. attempt[j] < MaxAttempts => attempt[j] + 1 \in 0..MaxAttempts
      BY <2>1
    <2>3. QED
      BY <1>2, <2>1, <2>2
  <1>8. TypeOK'
    BY <1>1, <1>4, <1>6, <1>7 DEF TypeOK
  <1> HIDE DEF j
  <1>9. ASSUME NEW k \in Jobs
        PROVE  JobOK(k, status'[k], attempt'[k], queue', worker', deadLetter, retried)
    <2>1. JobOK(k, status[k], attempt[k], queue, worker, deadLetter, retried)
      BY DEF JobsOK
    <2>2. CASE k = j
      <3>1. /\ In(queue, j)
            /\ j \notin retried => Once(queue', j) /\ ~In(queue', j)
        BY <1>1, <2>1, <2>2, InTail DEF JobOK, j
      <3>2. status[j] # "queued" \/ attempt[j] = 0
        BY <2>1, <2>2 DEF JobOK
      <3>3. 0 < MaxAttempts
        BY JobAssumption
      <3>4. \A v \in Workers : j \notin retried =>
                worker[v] \notin {On("handler", j), On("sleep", j)}
        BY <2>1, <2>2, <3>1 DEF JobOK
      <3>5. /\ j \notin retried => j \notin deadLetter /\ status[j] # "none"
        BY <2>1, <2>2, <3>1 DEF JobOK
      <3>6. CASE x = On("handler", j)
        BY <1>1, <1>4, <1>5, <2>2, <3>1, <3>4, <3>5, <3>6, WorkerValues DEF JobOK
      <3>7. CASE x = Free
        <4>1. \A v \in Workers :
                 /\ worker'[v] = On("handler", j) <=> worker[v] = On("handler", j)
                 /\ worker'[v] = On("sleep", j) <=> worker[v] = On("sleep", j)
          BY <1>3, <1>4, <3>7
        <4>2. status'[j] = "failed" \/ (status'[j] = status[j] /\ status[j] # "queued"
                                         /\ attempt'[j] = attempt[j]
                                         /\ ~(attempt[j] < MaxAttempts))
          BY <1>1, <1>5, <3>2, <3>3, <3>7, WorkerValues
        <4>3. QED
          BY <2>1, <2>2, <3>1, <3>3, <3>4, <3>5, <4>1, <4>2 DEF JobOK
      <3>8. QED
        BY <1>2, <3>6, <3>7
    <2>3. CASE k # j
      <3>1. \A v \in Workers : \/ worker'[v] = worker[v]
                               \/ worker[v] \in About(j) /\ worker'[v] \in About(j)
        BY <1>2, <1>3, <1>4 DEF About
      <3>2. (In(queue', k) <=> In(queue, k)) /\ (Once(queue, k) => Once(queue', k))
        BY <1>1, <2>3, InTail DEF j
      <3>3. QED
        BY <1>1, <1>6, <2>1, <2>3, <3>1, <3>2, OtherJobs
    <2>4. QED
      BY <2>2, <2>3
  <1>10. QED
    BY <1>6, <1>8, <1>9 DEF JobsOK

\* What a worker's step about a job j it holds must leave behind.
LEMMA WorkInv ==
  ASSUME TypeOK, JobsOK, NEW w \in Workers, NEW j \in Jobs,
         NEW st \in Statuses, NEW at \in 0..MaxAttempts, NEW x \in About(j),
         worker[w] \in {On("handler", j), On("sleep", j)},
         worker' = [worker EXCEPT ![w] = x],
         status' = [status EXCEPT ![j] = st],
         attempt' = [attempt EXCEPT ![j] = at],
         deadLetter' = deadLetter \/ deadLetter' = deadLetter \cup {j},
         UNCHANGED <<queue, retried, retryCalls>>,
         JobOK(j, st, at, queue, worker', deadLetter', retried)
  PROVE  TypeOK' /\ JobsOK'
  <1>1. x \in Worker
    BY WorkerValues DEF About
  <1>2. /\ worker' \in [Workers -> Worker] /\ worker'[w] = x
        /\ \A v \in Workers : v # w => worker'[v] = worker[v]
    BY <1>1, OneWorker DEF TypeOK
  <1>3. TypeOK'
    BY <1>2 DEF TypeOK
  <1>4. ASSUME NEW k \in Jobs
        PROVE  JobOK(k, status'[k], attempt'[k], queue, worker', deadLetter', retried)
    <2>1. CASE k = j
      <3>1. status'[j] = st /\ attempt'[j] = at
        BY DEF TypeOK
      <3>2. JobOK(j, status'[j], attempt'[j], queue, worker', deadLetter', retried)
        BY <3>1
      <3>3. QED
        BY <2>1, <3>2
    <2>2. CASE k # j
      <3>1. status'[k] = status[k] /\ attempt'[k] = attempt[k]
        BY <2>2 DEF TypeOK
      <3>2. JobOK(k, status[k], attempt[k], queue, worker, deadLetter, retried)
        BY DEF JobsOK
      <3>3. \A v \in Workers : \/ worker'[v] = worker[v]
                               \/ worker[v] \in About(j) /\ worker'[v] \in About(j)
        BY <1>2 DEF About
      <3>4. k \in deadLetter' <=> k \in deadLetter
        BY <2>2
      <3>5. \A v \in Workers :
               /\ worker'[v] = On("handler", k) <=> worker[v] = On("handler", k)
               /\ worker'[v] = On("sleep", k) <=> worker[v] = On("sleep", k)
        BY <2>2, <3>3, WorkerValues DEF About
      <3>6. JobOK(k, status[k], attempt[k], queue, worker', deadLetter', retried)
        BY <3>2, <3>4, <3>5 DEF JobOK
      <3>7. QED
        BY <3>1, <3>6
    <2>3. QED
      BY <2>1, <2>2
  <1>5. QED
    BY <1>3, <1>4 DEF JobsOK

\* Where an unretried job is while worker w holds it: nowhere else.
LEMMA HeldAlone ==
  ASSUME TypeOK, JobsOK, NEW w \in Workers, NEW j \in Jobs, Holds(w, j)
  PROVE  j \notin retried =>
            /\ status[j] # "none" /\ j \notin deadLetter
            /\ ~In(queue, j) /\ Once(queue, j)
            /\ \A v \in Workers : Holds(v, j) => v = w
  <1>1. JobOK(j, status[j], attempt[j], queue, worker, deadLetter, retried)
    BY DEF JobsOK
  <1>2. QED
    BY <1>1 DEF JobOK, Holds

\* The job of a worker in a handler or in a backoff sleep.
LEMMA BusyWorker ==
  ASSUME TypeOK, NEW w \in Workers
  PROVE  /\ worker[w].at = "handler" =>
              worker[w].job \in Jobs /\ worker[w] = On("handler", worker[w].job)
         /\ worker[w].at = "sleep" =>
              worker[w].job \in Jobs /\ worker[w] = On("sleep", worker[w].job)
  BY WorkerCases DEF TypeOK

\* A handler that ends its job for good, one way or another.
LEMMA EndInv ==
  ASSUME TypeOK, JobsOK, NEW w \in Workers, NEW j \in Jobs,
         worker[w] = On("handler", j),
         NEW st \in {"completed", "cancelled", "dead_letter"},
         NEW x \in {Free, Dead},
         worker' = [worker EXCEPT ![w] = x],
         status' = [status EXCEPT ![j] = st],
         deadLetter' = deadLetter
            \/ (st = "dead_letter" /\ deadLetter' = deadLetter \cup {j}),
         UNCHANGED <<attempt, queue, retried, retryCalls>>
  PROVE  TypeOK' /\ JobsOK'
  <1>1. JobOK(j, status[j], attempt[j], queue, worker, deadLetter, retried)
    BY DEF JobsOK
  <1>2. x \in Worker /\ x \in About(j) /\ st \in Statuses
    BY WorkerValues DEF About, Statuses
  <1>3. worker'[w] = x /\ \A v \in Workers : v # w => worker'[v] = worker[v]
    BY <1>2, OneWorker DEF TypeOK
  <1>4. j \notin retried =>
            /\ j \notin deadLetter /\ ~In(queue, j) /\ Once(queue, j)
            /\ \A v \in Workers : worker'[v] \notin {On("handler", j), On("sleep", j)}
    BY <1>3, HeldAlone, WorkerValues DEF Holds
  <1>5. JobOK(j, st, attempt[j], queue, worker', deadLetter', retried)
    BY <1>4 DEF JobOK
  <1>6. attempt[j] \in 0..MaxAttempts /\ attempt' = [attempt EXCEPT ![j] = attempt[j]]
    BY DEF TypeOK
  <1>7. deadLetter' = deadLetter \/ deadLetter' = deadLetter \cup {j}
    OBVIOUS
  <1>8. worker[w] \in {On("handler", j), On("sleep", j)}
    OBVIOUS
  <1>9. UNCHANGED <<queue, retried, retryCalls>>
    OBVIOUS
  <1>10. QED
    BY <1>2, <1>5, <1>6, <1>7, <1>8, <1>9, WorkInv

LEMMA HandlerReturnsInv ==
  ASSUME TypeOK, JobsOK, NEW w \in Workers, HandlerReturns(w)
  PROVE  TypeOK' /\ JobsOK'
  <1>1. worker[w].job \in Jobs /\ worker[w] = On("handler", worker[w].job)
    BY BusyWorker DEF HandlerReturns
  <1>2. QED
    BY <1>1, EndInv DEF HandlerReturns, Release

LEMMA HandlerCancelledInv ==
  ASSUME TypeOK, JobsOK, NEW w \in Workers, HandlerCancelled(w)
  PROVE  TypeOK' /\ JobsOK'
  <1>1. worker[w].job \in Jobs /\ worker[w] = On("handler", worker[w].job)
    BY BusyWorker DEF HandlerCancelled
  <1>2. QED
    BY <1>1, EndInv DEF HandlerCancelled

LEMMA HandlerRaisesInv ==
  ASSUME TypeOK, JobsOK, NEW w \in Workers, HandlerRaises(w)
  PROVE  TypeOK' /\ JobsOK'
  <1> DEFINE j == worker[w].job
  <1>1. j \in Jobs /\ worker[w] = On("handler", j)
    BY BusyWorker DEF HandlerRaises
  <1>2. CASE Exhausted(j)
    <2>1. /\ status' = [status EXCEPT ![j] = "dead_letter"]
          /\ deadLetter' = deadLetter \cup {j}
          /\ worker' = [worker EXCEPT ![w] = Free]
          /\ UNCHANGED <<attempt, queue, retried, retryCalls>>
      BY <1>2 DEF HandlerRaises, Release
    <2> HIDE DEF j
    <2>2. QED
      BY <1>1, <2>1, EndInv
  <1>3. CASE ~Exhausted(j)
    <2> DEFINE x == On("sleep", j)
    <2>1. /\ status' = [status EXCEPT ![j] = "retrying"]
          /\ worker' = [worker EXCEPT ![w] = x]
          /\ UNCHANGED <<attempt, deadLetter, queue, retried, retryCalls>>
      BY <1>3 DEF HandlerRaises
    <2>2. attempt[j] \in 0..MaxAttempts /\ attempt[j] < MaxAttempts
      BY <1>1, <1>3, JobAssumption DEF Exhausted, TypeOK
    <2> HIDE DEF j
    <2>3. x \in Worker /\ x \in About(j) /\ "retrying" \in Statuses
      BY <1>1, WorkerValues DEF About, Statuses
    <2>4. worker'[w] = x /\ \A v \in Workers : v # w => worker'[v] = worker[v]
      BY <2>1, <2>3, OneWorker DEF TypeOK
    <2>5. j \notin retried =>
            /\ j \notin deadLetter /\ ~In(queue, j) /\ Once(queue, j)
            /\ \A v \in Workers :
                 worker'[v] \in {On("handler", j), On("sleep", j)} => v = w
      BY <1>1, <2>4, HeldAlone DEF Holds
    <2>6. JobOK(j, "retrying", attempt[j], queue, worker', deadLetter', retried)
      BY <2>1, <2>2, <2>4, <2>5 DEF JobOK
    <2>7. attempt' = [attempt EXCEPT ![j] = attempt[j]]
      BY <2>1 DEF TypeOK
    <2>8. worker[w] \in {On("handler", j), On("sleep", j)}
      BY <1>1
    <2>9. QED
      BY <1>1, <2>1, <2>2, <2>3, <2>6, <2>7, <2>8, WorkInv
  <1>4. QED
    BY <1>2, <1>3

LEMMA WakeInv ==
  ASSUME TypeOK, JobsOK, NEW w \in Workers, Wake(w)
  PROVE  TypeOK' /\ JobsOK'
  <1> DEFINE j == worker[w].job
  <1>1. j \in Jobs /\ worker[w] = On("sleep", j)
    BY BusyWorker DEF Wake
  <1>2. worker[w] \in {On("handler", j), On("sleep", j)} /\ Holds(w, j)
    BY <1>1 DEF Holds
  <1>3. attempt[j] \in 0..MaxAttempts /\ MaxAttempts \in Nat
    BY <1>1, JobAssumption DEF TypeOK
  <1>4. JobOK(j, status[j], attempt[j], queue, worker, deadLetter, retried)
    BY <1>1 DEF JobsOK
  <1>5. CASE HasAttempt(j)
    <2> DEFINE x == On("handler", j)
    <2>1. /\ status' = [status EXCEPT ![j] = "processing"]
          /\ attempt' = [attempt EXCEPT ![j] = attempt[j] + 1]
          /\ worker' = [worker EXCEPT ![w] = x]
          /\ UNCHANGED <<deadLetter, queue, retried, retryCalls>>
      BY <1>5 DEF Wake, Attempt
    <2>2. attempt[j] + 1 \in 0..MaxAttempts
      BY <1>3, <1>5 DEF HasAttempt
    <2> HIDE DEF j
    <2>3. x \in Worker /\ x \in About(j) /\ "processing" \in Statuses
      BY <1>1, WorkerValues DEF About, Statuses
    <2>4. worker'[w] = x /\ \A v \in Workers : v # w => worker'[v] = worker[v]
      BY <2>1, <2>3, OneWorker DEF TypeOK
    <2>5. j \notin retried =>
            /\ j \notin deadLetter /\ ~In(queue, j) /\ Once(queue, j)
            /\ \A v \in Workers :
                 worker'[v] \in {On("handler", j), On("sleep", j)} => v = w
      BY <1>1, <1>2, <2>4, HeldAlone DEF Holds
    <2>6. JobOK(j, "processing", attempt[j] + 1, queue, worker', deadLetter', retried)
      BY <2>1, <2>4, <2>5 DEF JobOK
    <2>7. QED
      BY <1>1, <1>2, <2>1, <2>2, <2>3, <2>6, WorkInv
  <1>6. CASE ~HasAttempt(j)
    <2>1. /\ worker' = [worker EXCEPT ![w] = Free]
          /\ UNCHANGED <<status, attempt, deadLetter, queue, retried, retryCalls>>
      BY <1>6 DEF Wake, Release
    <2> HIDE DEF j
    <2>2. status[j] \in Statuses /\ status' = [status EXCEPT ![j] = status[j]]
      BY <1>1, <2>1 DEF TypeOK
    <2>3. attempt' = [attempt EXCEPT ![j] = attempt[j]]
      BY <2>1 DEF TypeOK
    <2>4. status[j] # "retrying" /\ status[j] \notin {"none", "queued"}
      <3>1. ~(attempt[j] < MaxAttempts) /\ 0 < MaxAttempts
        BY <1>6, JobAssumption DEF HasAttempt
      <3>2. QED
        BY <1>4, <3>1 DEF JobOK
    <2>5. Free \in Worker /\ Free \in About(j)
      BY WorkerValues DEF About
    <2>6. worker'[w] = Free /\ \A v \in Workers : v # w => worker'[v] = worker[v]
      BY <2>1, <2>5, OneWorker DEF TypeOK
    <2>7. j \notin retried =>
            /\ j \notin deadLetter /\ ~In(queue, j) /\ Once(queue, j)
            /\ \A v \in Workers : worker'[v] \notin {On("handler", j), On("sleep", j)}
      BY <1>1, <1>2, <2>6, HeldAlone, WorkerValues DEF Holds
    <2>8. status[j] = "processing" =>
            \E v \in Workers : worker'[v] = On("handler", j)
      BY <1>1, <1>4, <2>6, WorkerValues DEF JobOK
    <2>9. JobOK(j, status[j], attempt[j], queue, worker', deadLetter', retried)
      BY <2>1, <2>4, <2>7, <2>8 DEF JobOK
    <2>10. QED
      BY <1>1, <1>2, <1>3, <2>1, <2>2, <2>3, <2>5, <2>9, WorkInv
  <1>7. QED
    BY <1>5, <1>6

-----------------------------------------------------------------------------
(* The invariant *)

LEMMA InvInit == Init => TypeOK /\ JobsOK
  <1> SUFFICES ASSUME Init PROVE TypeOK /\ JobsOK
    OBVIOUS
  <1>1. TypeOK
    BY JobAssumption, WorkerValues DEF Init, TypeOK, Statuses
  <1>2. ASSUME NEW j \in Jobs
        PROVE  /\ ~In(queue, j) /\ Once(queue, j)
               /\ \A w \in Workers : worker[w] \notin {On("handler", j), On("sleep", j)}
    BY WorkerValues DEF Init, In, Once
  <1>3. JobsOK
    BY <1>2 DEF Init, JobsOK, JobOK
  <1>4. QED
    BY <1>1, <1>3

LEMMA InvNext == TypeOK /\ JobsOK /\ [Next]_vars => TypeOK' /\ JobsOK'
  <1> SUFFICES ASSUME TypeOK, JobsOK, [Next]_vars PROVE TypeOK' /\ JobsOK'
    OBVIOUS
  <1>1. ASSUME NEW j \in Jobs, Enqueue(j) \/ Cancel(j) \/ Retry(j)
        PROVE  TypeOK' /\ JobsOK'
    BY <1>1, EnqueueInv, CancelInv, RetryInv
  <1>2. ASSUME NEW w \in Workers,
               \/ Take(w) \/ HandlerReturns(w) \/ HandlerRaises(w)
               \/ HandlerCancelled(w) \/ Wake(w)
        PROVE  TypeOK' /\ JobsOK'
    BY <1>2, TakeInv, HandlerReturnsInv, HandlerRaisesInv, HandlerCancelledInv,
       WakeInv
  <1>3. CASE UNCHANGED vars
    BY <1>3 DEF vars, TypeOK, JobsOK
  <1>4. QED
    BY <1>1, <1>2, <1>3 DEF Next

LEMMA InvAlways == Spec => []Inv
  <1>1. Spec => [](TypeOK /\ JobsOK)
    BY InvInit, InvNext, PTL DEF Spec
  <1>2. QED
    BY <1>1, InvIsJobsOK, PTL

-----------------------------------------------------------------------------
(* The properties *)

\* The manager's fields keep their types: in particular job.attempt never
\* exceeds max_attempts, even for a job two workers run at once.
THEOREM TypeCorrect == Spec => []TypeOK
  <1>1. Inv => TypeOK
    BY DEF Inv
  <1>2. QED
    BY InvAlways, <1>1, PTL

\* No race of cancel, retry and the workers strands a job: its status
\* promises work only where the job can be found (enqueue, retry, _process).
THEOREM NobodyStranded == Spec => []NoStrandedJob
  <1>1. Inv => NoStrandedJob
    BY DEF Inv
  <1>2. QED
    BY InvAlways, <1>1, PTL

\* Two workers run one job at once only after retry() was called for it.
THEOREM OneRunner == Spec => []OneRunnerUnlessRetried
  <1>1. Inv => OneRunnerUnlessRetried
    BY DEF Inv
  <1>2. QED
    BY InvAlways, <1>1, PTL

\* A job in the dead letter list stays dead until it is retried.
THEOREM DeadStaysDead == Spec => []DeadLetterIsFinal
  <1>1. Inv => DeadLetterIsFinal
    BY DEF Inv, GoneIsNowhere, DeadLetterIsFinal, TypeOK
  <1>2. QED
    BY InvAlways, <1>1, PTL
=============================================================================
