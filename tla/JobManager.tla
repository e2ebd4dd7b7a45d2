----------------------------- MODULE JobManager -----------------------------
(***************************************************************************)
(* JobManager (backend/app/multimodal/jobs.py): background jobs, a queue   *)
(* and max_concurrency worker coroutines on one event loop.                *)
(*                                                                         *)
(* The loop runs one coroutine at a time and switches only at an `await`,  *)
(* so an action is the code from one await to the next: queue.get to the   *)
(* handler, handler to sleep, sleep to the next attempt.  cancel and retry *)
(* have no await and run between any two of these.                         *)
(*                                                                         *)
(* Left out: payloads, results, timestamps, tenant filtering of get, and   *)
(* the telemetry counters.  enqueue and retry both start the workers; they *)
(* are taken as started.                                                   *)
(***************************************************************************)
EXTENDS Naturals, Sequences, FiniteSets

CONSTANTS Jobs,          \* job ids
          Workers,       \* worker coroutines, max_concurrency of them
          Unhandled,     \* jobs whose kind has no registered handler
          MaxQueue,      \* MAX_QUEUE
          MaxAttempts,   \* job.max_attempts = max_retries + 1
          MaxRetryCalls  \* bound: calls of retry()

ASSUME JobAssumption ==
    /\ Unhandled \subseteq Jobs
    /\ MaxQueue \in Nat /\ MaxRetryCalls \in Nat
    /\ MaxAttempts \in Nat \ {0}

VARIABLES status,       \* job -> job.status, "none" before enqueue
          attempt,      \* job -> job.attempt
          queue,        \* self._queue
          worker,       \* worker -> what it awaits, and for which job
          deadLetter,   \* jobs with an entry in self.dead_letter
          (* history, read by the properties only *)
          retried,      \* jobs retry() has been called for
          retryCalls    \* number of calls of retry()

vars == <<status, attempt, queue, worker, deadLetter, retried, retryCalls>>

Statuses == {"none", "queued", "processing", "completed", "failed",
             "cancelled", "retrying", "dead_letter"}

\* What a worker awaits: the queue, the handler or the backoff sleep of a
\* job; a dead worker's coroutine has ended.
Worker == [at : {"queue", "dead"}] \cup [at : {"handler", "sleep"}, job : Jobs]

Free == [at |-> "queue"]
Dead == [at |-> "dead"]
On(place, j) == [at |-> place, job |-> j]

Created == {j \in Jobs : status[j] # "none"}

\* Worker w is in _process for job j.
Holds(w, j) == worker[w] \in {On("handler", j), On("sleep", j)}

InQueue(j) == \E i \in 1..Len(queue) : queue[i] = j

TypeOK ==
    /\ status \in [Jobs -> Statuses]
    /\ attempt \in [Jobs -> 0..MaxAttempts]
    /\ queue \in Seq(Jobs)
    /\ worker \in [Workers -> Worker]
    /\ deadLetter \subseteq Jobs
    /\ retried \subseteq Jobs
    /\ retryCalls \in 0..MaxRetryCalls

Init ==
    /\ status = [j \in Jobs |-> "none"]
    /\ attempt = [j \in Jobs |-> 0]
    /\ queue = <<>>
    /\ worker = [w \in Workers |-> Free]
    /\ deadLetter = {}
    /\ retried = {}
    /\ retryCalls = 0

-----------------------------------------------------------------------------
(* Callers *)

\* enqueue; "job queue full" is raised without a change.
Enqueue(j) ==
    /\ status[j] = "none"
    /\ Cardinality(Created) < MaxQueue
    /\ status' = [status EXCEPT ![j] = "queued"]
    /\ queue' = Append(queue, j)
    /\ UNCHANGED <<attempt, worker, deadLetter, retried, retryCalls>>

\* A dead letter may be cancelled.
CancellableBug(j) == status[j] \notin {"none", "completed", "cancelled"}

Cancellable(j) ==
    status[j] \notin {"none", "completed", "cancelled", "dead_letter"}

\* cancel only writes the status: neither the queue nor a worker is told.
Cancel(j) ==
    /\ Cancellable(j)
    /\ status' = [status EXCEPT ![j] = "cancelled"]
    /\ UNCHANGED <<attempt, queue, worker, deadLetter, retried, retryCalls>>

\* The attempts made so far still count.
RestartAttemptsBug(j) == attempt

RestartAttempts(j) == [attempt EXCEPT ![j] = 0]

\* retry: whatever the job's status, it is queued again.
Retry(j) ==
    /\ status[j] # "none"
    /\ retryCalls < MaxRetryCalls
    /\ attempt' = RestartAttempts(j)
    /\ status' = [status EXCEPT ![j] = "queued"]
    /\ queue' = Append(queue, j)
    /\ retried' = retried \cup {j}
    /\ retryCalls' = retryCalls + 1
    /\ UNCHANGED <<worker, deadLetter>>

-----------------------------------------------------------------------------
(* A worker: _worker_loop and _process *)

\* The attempt budget is ignored.
HasAttemptBug(j) == TRUE

\* The condition of the while loop of _process.
HasAttempt(j) == attempt[j] < MaxAttempts

\* One more attempt of worker w at job j, up to `await handler(job)`.
Attempt(w, j) ==
    /\ attempt' = [attempt EXCEPT ![j] = @ + 1]
    /\ status' = [status EXCEPT ![j] = "processing"]
    /\ worker' = [worker EXCEPT ![w] = On("handler", j)]

\* The loop of _process ends; the worker waits for the queue again.
Release(w) == worker' = [worker EXCEPT ![w] = Free]

\* The worker looks at the queue's head and leaves it there.
DequeuedBug == queue

\* What queue.get leaves.
Dequeued == Tail(queue)

\* A job is taken from the queue and _process runs to its first await.
Take(w) ==
    /\ worker[w] = Free
    /\ queue # <<>>
    /\ queue' = Dequeued
    /\ LET j == Head(queue) IN
       \/ /\ j \in Unhandled
          /\ status' = [status EXCEPT ![j] = "failed"]
          /\ Release(w)
          /\ UNCHANGED attempt
       \/ /\ j \notin Unhandled
          /\ HasAttempt(j)
          /\ Attempt(w, j)
       \/ /\ j \notin Unhandled
          /\ ~HasAttempt(j)
          /\ Release(w)
          /\ UNCHANGED <<status, attempt>>
    /\ UNCHANGED <<deadLetter, retried, retryCalls>>

\* The handler returned a result.
HandlerReturns(w) ==
    /\ worker[w].at = "handler"
    /\ status' = [status EXCEPT ![worker[w].job] = "completed"]
    /\ Release(w)
    /\ UNCHANGED <<attempt, queue, deadLetter, retried, retryCalls>>

\* A failed attempt puts the job to sleep even when no attempt is left.
ExhaustedBug(j) == FALSE

Exhausted(j) == attempt[j] >= MaxAttempts

\* The handler raised: dead letter, or a backoff sleep before a new attempt.
HandlerRaises(w) ==
    /\ worker[w].at = "handler"
    /\ LET j == worker[w].job IN
       \/ /\ Exhausted(j)
          /\ status' = [status EXCEPT ![j] = "dead_letter"]
          /\ deadLetter' = deadLetter \cup {j}
          /\ Release(w)
       \/ /\ ~Exhausted(j)
          /\ status' = [status EXCEPT ![j] = "retrying"]
          /\ worker' = [worker EXCEPT ![w] = On("sleep", j)]
          /\ UNCHANGED deadLetter
    /\ UNCHANGED <<attempt, queue, retried, retryCalls>>

\* The handler was cancelled: _process re-raises CancelledError, which the
\* loop's `except Exception` does not catch, and the worker is gone for
\* good; _started stays True, so it is not replaced.
HandlerCancelled(w) ==
    /\ worker[w].at = "handler"
    /\ status' = [status EXCEPT ![worker[w].job] = "cancelled"]
    /\ worker' = [worker EXCEPT ![w] = Dead]
    /\ UNCHANGED <<attempt, queue, deadLetter, retried, retryCalls>>

\* The backoff sleep is over: the while condition is evaluated again.
Wake(w) ==
    /\ worker[w].at = "sleep"
    /\ \/ HasAttempt(worker[w].job) /\ Attempt(w, worker[w].job)
       \/ ~HasAttempt(worker[w].job) /\ Release(w) /\ UNCHANGED <<status, attempt>>
    /\ UNCHANGED <<queue, deadLetter, retried, retryCalls>>

Work(w) == Take(w) \/ HandlerReturns(w) \/ HandlerRaises(w)
           \/ HandlerCancelled(w) \/ Wake(w)

Next ==
    \/ \E j \in Jobs : Enqueue(j) \/ Cancel(j) \/ Retry(j)
    \/ \E w \in Workers : Take(w) \/ HandlerReturns(w) \/ HandlerRaises(w)
                          \/ HandlerCancelled(w) \/ Wake(w)

Spec == Init /\ [][Next]_vars

\* The event loop resumes every coroutine whose await is over, and handlers
\* end.  Nothing is assumed of callers.
FairSpec == Spec /\ \A w \in Workers : WF_vars(Work(w))

-----------------------------------------------------------------------------
(* Properties *)

\* No job is stranded: a job that is to be worked on is in the queue, in a
\* handler or in a backoff sleep, as its status says, however cancel and
\* retry race with the workers.
NoStrandedJob ==
    \A j \in Jobs :
        /\ status[j] = "queued" => InQueue(j)
        /\ status[j] = "processing" =>
               \E w \in Workers : worker[w] = On("handler", j)
        /\ status[j] = "retrying" =>
               \E w \in Workers : worker[w] = On("sleep", j)

\* A job that retry() was never called for is in one place only: once in
\* the queue, or with one worker.
OneRunnerUnlessRetried ==
    \A j \in Jobs \ retried :
        /\ \A v, w \in Workers : Holds(v, j) /\ Holds(w, j) => v = w
        /\ \A i, k \in 1..Len(queue) : queue[i] = j /\ queue[k] = j => i = k
        /\ InQueue(j) => \A w \in Workers : ~Holds(w, j)

\* A job in the dead letter list has that status and keeps it, unless it is
\* retried: no worker still runs it and cancel refuses it.
DeadLetterIsFinal ==
    \A j \in deadLetter \ retried : status[j] = "dead_letter"

\* A job that still needs work.
Unsettled(j) == status[j] \in {"queued", "processing", "retrying"}

\* Every job is brought to an end, through all its attempts and backoffs,
\* as long as one worker survives.
JobsSettle ==
    \A j \in Jobs : Unsettled(j) ~>
        (~Unsettled(j) \/ \A w \in Workers : worker[w] = Dead)
=============================================================================
