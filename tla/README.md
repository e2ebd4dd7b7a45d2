# NovaForgeAI: formal models

TLA+ models of the parts of NovaForgeAI whose correctness depends on the order
in which things happen: concurrent callers, workers, crashes, resumes, retries
and late results. TLC checks the models on small instances, TLAPS proves
every safety property of the passing runs for all instances. Each definition is a translation
of code under `src/backend/app/`; `PROJECT.json` ("map") names the lines.

Paths below are relative to `src/backend/app/`.

## 1. Inventory

NovaForgeAI is a FastAPI backend of some 1200 Python files, with a web front
end and editor plugins. Most of the files are create/read/update/delete
services over a database session. The control logic is in the following parts.

| Component | State | Operations | What is hard |
|---|---|---|---|
| Automation engine, `automation/engine.py`, `executions.py`, `retry.py` | execution records; local variables of `run` | `run` (fresh, resume), `_run_step`, `_ensure_requests`, `_trigger_compensation` | several runs of one workflow, approvals changing during a run, timeouts of handlers that had their effect, crash and resume |
| Approvals, `automation/approvals.py` | one request per workflow, step and tenant | `create`, `decide`, `auto_approve` | the engine overwrites requests that humans decide |
| Checkpoints, `automation/checkpoint.py` | one entry per execution and step | `save`, `resume_point`, `build_resume_plan` | two orders of the same steps |
| Compensation, `automation/compensation.py` | one entry per execution and step | `compensation_plan`, `run_compensation`, `record` | one of several steps failing, order of rollback |
| Workflow DAG, `automation/dag.py` | none (pure) | `validate_dag`, `topological_order` | counting down dependencies, cycles |
| Circuit breaker, `sre/resilience.py` | state, counters, `_opened_at` | `allow_call`, `_record_success`, `_record_failure`, `call` | results of calls admitted in an earlier state; cancellation |
| Background jobs, `multimodal/jobs.py` | registry, queue, workers, dead letters | `enqueue`, `cancel`, `retry`, `_worker_loop`, `_process` | `cancel` and `retry` of a job a worker is awaiting |
| JSON storage, `common/storage.py` | one dictionary per process, one file | `get`, `set`, `delete` | several processes with one file; torn writes |
| Gateway, triggers, scheduler, `automation/gateway.py`, `triggers.py`, `scheduler.py`, `cost.py`, `workflow.py` | specifications, trigger rules, cost entries | `define`, `publish`, `run`, `tick`, `handle_event` | budget checked before it is recorded; rules registered twice |
| Worker pool, `automation/workers.py`, `service.py` | thread queue | `submit`, `shutdown` | requests left at shutdown |
| Workflow platform, `workflow/*.py`, `api/workflow.py` | runs, step runs, approvals, compensations (database), leases (process memory) | trigger, pause, resume, cancel, decide, recover; `run_workflow` | check-then-insert, restart from the first step, writes over what others committed, lease expiry |
| OAuth connections, `integrations/oauth.py`, `workers.py` | one row per connection (database), leases (process memory), the provider's tokens | `start_oauth`, `oauth_callback`, `refresh_oauth`, `revoke_oauth` | single-use tokens, lost answers, leases that end before the transaction |
| Orchestrator, `automation/engine_orchestrator.py`, `task_service.py`, `budget_service.py` | automation tasks, budgets | task transitions, plan, patch, test, review, approve | lost budget updates, gates of a task |
| Event bus, `core/events.py` | subscribers, queue | `publish`, `publish_nowait`, `start`, `stop` | events lost at stop |
| Provider failover, `sre/ai_reliability.py` | one breaker per provider | `call_with_failover` | composes breakers that concurrent requests share |

How they interact: the gateway, the scheduler, the trigger hub and the worker
pool all call `WorkflowEngine.run`; the API calls `ApprovalStore.decide`; the
engine writes four `JsonFileStorage` files and asks `dag.py` for its order.
`call_with_failover` wraps each provider call in the breaker of that provider.
The multimodal services enqueue jobs and poll their status. The workflow
platform (`workflow/`) is a second, independent engine on the database. The
OAuth connections serve the integrations; several worker processes
(`docker/Dockerfile.backend:43`) share the database, not their memory.

What makes each part correct:

* engine: no effect of a gated step without an approval; dependencies first;
  a record that says "completed" tells the truth; a failed run leaves a
  rollback or a note for each step that had completed; `run` returns;
* breaker: state, counters and timestamp agree; probes are bounded; it closes
  on fresh successes only; it always recovers;
* jobs: no job is lost, none is run twice, dead letters stay dead, every job
  comes to an end;
* DAG: the order respects the dependencies and exactly the cyclic graphs are
  refused;
* OAuth: the one refresh token the provider accepts is never stranded; a
  revocation stays; concurrent refreshes do not spend a token twice;
* workflow platform: a run that says COMPLETED or FAILED tells the truth about its
  step runs and compensations; nothing behind an approval runs before it is given;
  a waiting run lacks an approval or has a WAIT step; every request ends, unless
  a step allows no attempt;
* gateway and storage: what was stored is found again; the budget holds.

`PROJECT.json` lists the hazards behind these, each at its line, and every
component, the ones not modelled too.

## 2. Modules

| Module | Models | State |
|---|---|---|
| `BreakerOps` | the locked methods of `CircuitBreaker`, as operators on one breaker record | - |
| `CircuitBreaker` | `CircuitBreaker.call` by concurrent callers | the breaker, who is inside `await operation()` |
| `KahnSort` | `validate_dag` and `topological_order`, one action per loop iteration | `remaining`, `ready`, `order` |
| `AutomationEngine` | `WorkflowEngine.run` with approvals, checkpoints, compensation | the four stores, the local variables of each thread |
| `JobManager` | `JobManager` and its workers, one action from one `await` to the next | statuses, attempts, queue, what each worker awaits |
| `AutomationGateway` | `AutomationGateway` in several processes over `JsonFileStorage` files | memory and rules of each process, the files, who is saving |
| `OAuthConnection` | one connection under `oauth_callback`, `refresh_oauth`, `revoke_oauth` | the row, each request's session, the leases of each process, the provider |
| `TokenCustody` | what the handling of a single-use token promises (abstract) | the token, its keeper |
| `WorkflowRuns` | one run of the workflow platform under the requests of its API | the committed rows, each request's session, the row lock, the lease |
| `CircuitBreakerProofs`, `KahnSortProofs`, `AutomationEngineProofs`, `JobManagerProofs`, `OAuthConnectionProofs`, `WorkflowRunsProofs`, `AutomationGatewayProofs` | theorems about the seven | - |
| `AutomationEngineOrderProofs` | theorems about the engine's order, resumes and failures; extends `AutomationEngineProofs` | - |
| `MC...` | instances for TLC | - |

`CircuitBreaker` uses `BreakerOps`, whose operators take the breaker as an argument
so that a model of provider failover can have one per provider. `AutomationEngine` takes the result of
`KahnSort` as a constant: its assumption on `Order` (every step after those it
depends on, each once) is what `SortedIsAnExecutionOrder` proves of the code that
computes it. `OAuthConnection` implements `TokenCustody`
(`ImplementsCustody`): the mapping takes the provider's token for the token, and
the request that carries its successor for the keeper.

### Circuit breaker

The breaker's methods hold a lock for their whole body, so each is one atomic
operator. `call` is two of them around an `await`: `Admit` (or `Reject`), then
`Succeed`, `Fail` or `Cancel`. `_opened_at` is only ever compared with the
clock, so it is "none", "fresh" or "aged", and `ClockAdvances` ages it.
`_consecutive_failures` is only compared with the threshold and saturates
there. `probes`, `successes` and `probeLost` are history variables.

### Automation engine

A thread's `pc` names the point in `run` it stands at:

    idle     --Begin-->  gate
    gate     --PassGate-->  gate   --Start-->  step   --Blocked-->  ensure
    ensure   --EnsureRequest-->  ensure or create  --CreateRequest-->  ensure  --AwaitApproval-->  idle
    step     --SkipStep-->  step   --BeginStep-->  attempt   --RefuseStep-->  compensate   --Complete-->  idle
    attempt  --HandlerReturns-->  checkpoint  --SaveCheckpoint-->  step
    attempt  --HandlerRaises, HandlerTimesOut-->  backoff  --Backoff-->  attempt,  or  compensate
    compensate  --Compensate-->  compensate  --RecordRollback-->  compensate  --FinishFailed-->  idle

Between two of these points other threads, `decide` or a crash may act. The
stores are maps that survive `Crash`; a thread's locals do not. A handler has
three outcomes: it returns (its effect is performed), it raises (no effect), or
it times out: `_call_with_timeout` leaves its executor only when the handler
has ended, so the effect happens and still counts as a failure. `Interrupt`
is a `BaseException` (`SystemExit`, `KeyboardInterrupt`) going through the
`try`, for which `finally` saves the status reached so far. `WorkerPool` is
written to call the engine from several threads; the service that wires it up
passes an argument `gateway.run` does not have (`service.py:33`), so at this
commit callers that hold a pool of their own are the concurrent ones. The
gateway creates the same queued record once more before `run` does, which
changes nothing.

"approved" stands for "auto_approved" too: every reader of a decision treats them
alike. The engine never gives a request a time to live, so none expires.

### Jobs

One event loop runs the workers, so an action is the code between two `await`s.
`cancel` and `retry` contain none. `HandlerCancelled` ends a worker: the
`except Exception` of the loop does not catch `CancelledError`, and `_started`
keeps the worker from being replaced.

### OAuth connection

A request is one database transaction of `get_db`: it reads the row (`Load`),
waits for the provider, changes the row it has read, flushes it, and commits
when the handler has returned. SQLAlchemy writes the columns the session has
changed and no others (`Merge`); an `UPDATE` locks the row until the
transaction ends (`RowLocked`).

    idle  --Load-->  loaded  --Acquire-->  posting  --Grant-->  changed  --Flush-->  flushed  --Release-->  released  --Commit-->  done
    loaded  --Join-->  joined        loaded  --Acquire without a token-->  failed
    posting  --Refuse-->  refused    posting, changed  --Raise-->  failed

The callback has no lease and starts at `posting`, a revocation at `changed`. The
leases are a dictionary of each process, with an expiry of 120 seconds
(`LeaseExpires`). Tokens are numbers; a provider accepts a code once and only
its current refresh token, and rotates the refresh token or keeps it. `Raise`
is a lost call, a lost answer or an answer that cannot be used; after `Grant` it
loses tokens the provider has issued (`lost`). NEEDS_REAUTH is flushed and then
rolled back by the error that follows, so a refusal leaves the row as it was.
`refresh_if_expiring` is `refresh_oauth` or nothing.

### Workflow platform

One run of one published definition. A request is a transaction here too: what
it has flushed is in its `session` and becomes part of the database variables at
`Commit`. Steps are of the kinds the loop of `run_workflow` tells apart: a
task, a task whose condition is false (`SKIPPED`) or cannot be evaluated
(`BROKEN`), a task that is allowed no attempt (`UNTRIED`: `max_attempts` is 0 or
less), `WAIT`, `APPROVAL`, a child workflow and one whose version is not
published (`NOCHILD`). `NotTried` is what happens to an `UNTRIED` step: its step run
comes back RUNNING, and the loop picks the step again. An approval is decided
(APPROVED, DENIED, CANCELLED) while it is PENDING and not `expired`; the status
EXPIRED is flushed and then rolled back by the error, so an expired approval stays
PENDING and `ApprovalExpires` only takes away the chance to answer it. `trigger`, `resume`, `decide` and `recover` all run the
workflow from its first step:

    idle  --Trigger, Resume, Recover, DecideLoad-->  loaded or marking  --Create, Decide, Mark-->  running
    running  --Pick, Succeed, Fail, NotTried, Wait, StartChild-->  running or ending  --Flush-->  flushed  --Commit-->  ended
    idle  --PauseLoad, CancelLoad-->  loaded  --Overwrite-->  ended

Writing the status locks the run's row; a runner whose status does not change
writes none. A trigger that finds a run with its key runs it again, even when it
is COMPLETED. Every other process of the backend sees the same database; the
lease is a dictionary of one, and only `recover` asks for it.

### Gateway and files

`Boot` reads the files; after that a process serves from memory and `Save`
followed by `Write` replaces a whole file: `open(..., "w")` truncates it at
`Save` (a reader then finds nothing it can decode, and starts from an empty
store), the content follows at `Write`. Two overlapping savers may leave text
nobody can decode. `WorkflowStore._flush` saves its file twice in a row, which the
model does once. Every step costs the same (`per_step_usd`), so what entries sum up
to is counted: `Total` is the number of steps of their executions, and the budget
is a number of steps. `Stop` is the end of a command-line process, a restart, or a crash.

## 3. Runs

| Run | Shows |
|---|---|
| `breaker` (pass) | `TypeOK`, `ClosedBelowThreshold`, `OpenHasTimestamp`, `ProbeBudget`, `CloseNeedsFreshSuccesses`, and with fairness `OpenEventuallyProbes`, `HalfOpenResolvesUnlessCancelled` |
| `breaker_cancel` (violation) | `HalfOpenResolves`: one cancelled probe keeps the breaker HALF_OPEN for ever |
| `engine_dag` (pass) | `TypeOK`, `GatedEffects`, `DependenciesFirst`, `CompletedMeansPerformed`, `AwaitingHasRequests`, `FailureCompensates`, `RunsTerminate` |
| `engine_resume` (pass) | `CompletedMeansPerformed`, `ResumeSkipsDone` under crashes, interrupts and resumes of a chain |
| `resume_order` (violation) | `CompletedMeansPerformed`, when declared and executed order differ |
| `kahn` (pass) | `OrderRespectsDeps`, `VerdictIsExact` on all graphs of four steps |
| `jobs` (pass) | `TypeOK`, `NoStrandedJob`, `OneRunnerUnlessRetried`, `DeadLetterIsFinal`, `JobsSettle` |
| `oauth` (pass) | `TypeOK`, `LeaseExcludes`, `TokenNeverStranded`, `RefreshNeverUnrevokes`, `NewestAccessKept`, `RequestsEnd`, and the refinement `ImplementsCustody` |
| `oauth_collapse` (violation) | `RefreshesCollapse`: a refresh presents the token another one has just exchanged |
| `workflow` (pass) | `TypeOK`, `CompletedMeansDone`, `GatedStepWaits`, `WaitingLacksApproval`, `FailedIsCompensated`, `RecoveryFenced`, `RequestsEnd` |
| `workflow_approval` (violation) | `ApprovedRunGoesOn`: an approved run asks for the same approval again, for ever |
| `gateway` (pass) | `OverspendBounded`, `AloneIsDurable`, `AloneWithinBudget` |

Each violation is a disagreement between the code and a line of the repository,
quoted under "findings" in `PROJECT.json`.

What the models show besides, of which no run makes a property:

* The compensation plan follows the order of a set (`engine.py:118`), although
  `compensation.py:66` promises the reverse order of completion; and a declared
  compensation of a step with an action ends failed, because
  `compensation.py:109` calls a three-parameter handler with one argument.
* Running a workflow again replaces the rejection of a step by a pending request
  (`engine.py:210`).
* `enqueue` compares `MAX_QUEUE` with the number of all jobs ever made: a manager
  with nothing to do answers "job queue full" (`jobs.py:71-72`).
* A cancel of a platform run that read it before a runner committed leaves
  CANCELLED with step runs that are not compensated (`api/workflow.py:333-360`);
  a runner that is still at work writes over PAUSED and CANCELLED.
* An approval that is not answered within its 24 hours can never be answered, stays
  PENDING, and leaves its run WAITING (`workflow/approval.py:63-68`); so does a
  CANCELLED decision (`approval.py:82-89`). Such a run is left only by a pause, a
  cancel, or a runner.
* A step with `max_attempts` of 0 or less makes its runner go round for ever
  (`execution.py:134`, `execution.py:293-322`), inserting a step run each time and holding its locks; `RequestsEnd`
  says that nothing else does.
* COMPENSATING is never committed, so `saga_recovery` finds no run.
* Trigger rules are kept in memory only: a restart, and each command-line
  process, starts without any, so `tick` there has nothing to do; `define` and
  `publish` register a rule twice; triggered runs are not counted in the budget.

### Bounds, and why they are enough

* Breaker: three callers, threshold 2, two probes (one in `breaker_cancel`, the
  default of the code). One call from before the outage can be in flight while
  one probe has finished and another has been lost; a fourth caller adds nothing
  the two ends of a call can tell apart. Nothing is bounded besides.
* Engine: three steps with a dependency, an independent step, a condition, an
  approval and a retry. `engine_dag` has two threads and three executions: two
  runs interleave and a third starts after one of them has changed the
  approvals. `MaxDecisions = 3` lets a step be rejected, requested again and
  approved, and its approval overwritten. `engine_resume` has one thread,
  because a resumed execution has one at a time, `MaxResumes = 2`,
  `MaxCrashes = 1`, `MaxInterrupts = 1`: a resume of a resume, and a crash before
  or inside either. `CHECK_DEADLOCK FALSE`: when the executions and the bounds
  are used up, the system stops.
* Kahn: four steps are the fewest with a diamond, two disjoint cycles, and a cycle
  with a tail; two malformed graphs exercise the rejection. It stops when sorted.
* Jobs: two workers, three jobs (one without a handler), two attempts,
  `MaxQueue = 2` and `MaxRetryCalls = 2`, so a job can be in the queue twice while
  both workers hold it. It stops when all jobs have ended and the callers are done.
* OAuth: three requests, two in one process and one in another, one expired
  lease, one crash. Two refreshes race in a process, two across processes, and the
  third request revokes or connects between them. `oauth_collapse` has no
  crash. It stops when the requests have ended.
* Workflow: two steps, in a row or side by side, in seven definitions that between
  them have each kind of step and each `on_failure`; three requests, of any
  operation, so that two race after a third has created the run; one expired lease
  and one restart, and any approval may expire. `workflow_approval`: a task before an approval, and enough
  requests to trigger it and decide twice. It stops when the requests have ended.
* Gateway: a server and a command line, one workflow of two steps and a budget of
  three, so that a second run is over the budget; three runs, four process
  starts. With two processes that read the files before either wrote them both
  overspend; four starts leave room for restarts on both sides. It stops when the
  starts are used up and no process is left.

### Fairness

* Breaker: time passes; an awaited provider call ends somehow (the providers'
  HTTP clients have timeouts); callers keep calling. Nothing says how calls end.
* Engine: a thread inside `run` keeps running and its handlers end
  (`WF(Proceed(t))`). Nothing is assumed of humans, callers, crashes or
  interrupts.
* Jobs: the event loop resumes every coroutine whose await is over, and handlers
  end (`WF(Work(w))`). Nothing is assumed of callers.
* OAuth and workflow platform: a request that was started goes on
  (`WF(Advance(r))`): outbound calls have time limits (`oauth.py:156`), and the
  database grants a lock that is free. A runner caught by an `UNTRIED` step does go on,
  and never ends: `RequestsEnd` of the workflow platform supposes that there is none
  (`AllTried`). `Start`, expiry and crashes are not assumed.
  `gateway` needs none.

### Mutants

The definitions named `...Bug` stand beside the definition they spoil: a dropped
guard, an off-by-one, a missing reset. They are used by no behaviour. Put
in the place of that definition, each makes TLC find a property violated; the
pairs are in `PROJECT.json` ("mutants").

## 4. Proofs

| Theorem | Says, for every value of the constants |
|---|---|
| `CircuitBreakerProofs!TypeCorrect` | `Spec => []TypeOK` |
| `NeverClosedAtThreshold`, `OpenIsTimed`, `ProbesBounded` | the three invariants of the breaker |
| `ClosesOnFreshSuccesses` | the action property `CloseNeedsFreshSuccesses` |
| `AutomationEngineProofs!TypeCorrect` | `Spec => []TypeOK` |
| `EffectsAreGated` | `Spec => []GatedEffects`: any workflow, threads, crashes, resumes, decisions |
| `AwaitingIsActionable` | `Spec => []AwaitingHasRequests` |
| `AutomationEngineOrderProofs!DependenciesComeFirst`, `CompletedIsPerformed` | `Spec => []DependenciesFirst`, `Spec => []CompletedMeansPerformed`, for workflows whose declaration is an execution order and for engines nobody resumes (`OrdersAgree`) |
| `ResumeSkipsWhatIsDone` | `Spec => []ResumeSkipsDone`, without that condition |
| `FailuresAreCompensated` | the action property `FailureCompensates` |
| `KahnSortProofs!OrderIsTopological`, `VerdictIsRight` | `Spec => []OrderRespectsDeps`, `Spec => []VerdictIsExact`: every finite workflow |
| `SortedIsAnExecutionOrder` | a sorted outcome is what `AutomationEngine` assumes of `Order` |
| `JobManagerProofs!TypeCorrect` | `Spec => []TypeOK`: attempts never pass the maximum |
| `NobodyStranded`, `OneRunner`, `DeadStaysDead` | the three invariants of the job manager |
| `OAuthConnectionProofs!TypeCorrect`, `TokenKept` | `Spec => []TypeOK`, `Spec => []TokenNeverStranded` |
| `RevocationStays` | the action property `RefreshNeverUnrevokes` |
| `CustodyKept` | `Spec => ImplementsCustody`: every step is one of `TokenCustody` or a stutter |
| `RefreshesAreLeased` | `Spec => []LeaseExcludes` |
| `NewestTokenKept` | the action property `NewestAccessKept` |
| `WorkflowRunsProofs!TypeCorrect` | `Spec => []TypeOK` |
| `CompletedHasWork` | `Spec => []CompletedMeansDone`: any steps, definitions, requests, crashes |
| `GateHolds` | the action property `GatedStepWaits` |
| `RecoveriesAreFenced`, `WaitingIsExplained`, `FailuresAreUndone` | `Spec => []RecoveryFenced`, `Spec => []WaitingLacksApproval`, `Spec => []FailedIsCompensated` |
| `AutomationGatewayProofs!TypeCorrect`, `Durable` | `Spec => []TypeOK`, `Spec => []AloneIsDurable` |
| `OverspendIsBounded`, `BudgetIsKept` | `Spec => []OverspendBounded`, `Spec => []AloneWithinBudget` |

Assumptions: only those named in the modules (`BreakerConfigAssumption`,
`CallersAssumption`, `GraphAssumption`, `WorkflowAssumption`, `EnvironmentAssumption`,
`JobAssumption`, `OAuthAssumption`, `WorkflowAssumption`, `GatewayAssumption`),
which TLC evaluates on every run, and `OrdersAgree` where a theorem states it.

The arguments:

* **Breaker.** `ProbeBudget` alone is not inductive: a probe that finishes
  leaves its slot used. The strengthening bounds the probes in flight by the
  slots handed out, and ties the recorded successes to the
  `_half_open_successes` the code counts, so that closing on the code's counter
  is closing on fresh successes; outside HALF_OPEN nobody is a probe. The
  cardinality of `probes` needs the callers
  to be finite.
* **Engine.** `GatedEffects` says that a performed gated step was granted once.
  A thread calls a handler only at label `attempt`, and it gets there by
  `GateHolds`; the strengthening says that a thread at `attempt`, `backoff` or
  `checkpoint` has a current step and, if that step is gated, that it has been granted; and
  that an approved request was granted (`ApprovedWasGranted`). The second is
  needed because a request read as approved may be overwritten before the
  handler runs: `granted` never shrinks. For `AwaitingHasRequests` the thread
  at `ensure` has dealt with the steps it has passed: each gating step is still in
  `todo` or has a request. `ResumePoint` is the largest index with a checkpoint;
  that it exists is proved through the well-foundedness of the naturals.
* **Engine, order.** A thread in the loop has a rest of `Order` before it and has
  performed every unconditional step behind it (`OnPath`); a checkpoint stands for
  all steps up to its own (`CheckpointsBacked`). Then what a resume leaves out has
  been performed. The last needs that `build_resume_plan`, which cuts the
  *declared* list after the last step with a checkpoint, cuts the *executed* one there: that is
  the hypothesis `OrdersAgree`. It is not a convenience: run `resume_order` shows
  `CompletedMeansPerformed` violated without it. `ResumeSkipsDone` does hold for every
  declaration, because the rest of a resumed run has no step with a checkpoint
  and no step twice, and nobody else saves checkpoints of its execution
  (`OneRunEach`). For `FailureCompensates` each completed step of a thread that
  compensates is the failed one, still to undo, undone, or recorded (`Accounted`), and
  no record is taken back.
* **DAG.** `remaining[n]` is the number of dependencies of `n` that are not in `order`,
  and is 0 exactly for what is in `order` or `ready`; nothing is in them twice
  (`Counted`, `EachOnce`). At the end the nodes not in `order` each wait for another
  of them: they are the circle that `VerdictIsExact` asks for. If all are in `order`,
  the first of a supposed circle would come after one of its members. The
  appended nodes are modelled in declared order by counting (`InDeclaredOrder`),
  because what `SelectSeq`, a recursion, returns for every sequence cannot be proved.
* **Jobs.** The three properties are inductive together with two more parts:
  a job that is new or queued has attempt 0 and one that is `retrying` has an
  attempt left (so the worker that takes or wakes it never drops it silently,
  which `NoStrandedJob` needs), and a job that nobody retried and that is unborn
  or in the dead letter list is neither in the queue nor with a worker (so
  nothing can overwrite its status). The proof restates the invariant as one
  formula per job (`JobOK`), since an action disturbs one job and leaves what is
  said of the others.

* **OAuth.** `TokenNeverStranded` needs to know who may spend the token.
  `TokensIssued` says that every refresh token in the row or in a session has
  been issued, `CarriedIsNew` that a carried successor is the provider's current
  token, that neither the row nor any session has read it, and that nobody else
  carries one. The provider accepts only the current token, so nobody can exchange
  it while it is carried; a commit of another session does not touch the
  column (`Merge`), and the carrier's puts it in the row. The refinement
  follows from the same invariant: a `Grant` that rotates is `Exchange`, the
  carrier's `Commit` is `Store`, a loss or a revocation is `GiveUp`, everything
  else stutters. `RefreshNeverUnrevokes` needs `StatusRead`: a refresh that has an
  answer has read ACTIVE and writes ACTIVE, so it does not write the column at all.
  `LeaseExcludes` is not inductive by itself: the strengthening (`LeaseInv`) says that a
  live lease is held by a refresh at work, so that all the others are paid for by an
  expiry. `NewestAccessKept` then follows, without expiries and in one process, from
  `Ordered`: a granted token is newer than the row's, and of two granted tokens the
  older one's request has released its lease. It has flushed by then, so it holds the
  row lock (`OneWriter`) and commits first. The token a callback gets is no exception:
  a code is exchanged only while nobody has a token to refresh.
* **Workflow platform.** A runner may commit COMPLETED only over its own work, so
  the invariant follows each session (`Good`): every completed task that does
  not skip failures is among the runner's uncommitted step runs, every child
  is started, a session that ends with COMPLETED has completed every step and
  none that waits. The committed counters never shrink, which is why other
  runners, pauses and cancels do not disturb a COMPLETED row. For
  `GatedStepWaits` the proof uses something stronger: no runner ever counts an
  approval step as completed, so whatever it takes up has none among its
  dependencies. That is the defect run `workflow_approval` shows; the property asks
  for less, that an approval has been given, and is what remains to be proved,
  from the approvals themselves, once approved steps count as completed.
  `LeaseInv` counts the recoveries at work like the leases of OAuth. `WaitInv`
  follows what makes a row WAITING: a runner that will write it has a WAIT step or asks
  for an approval in the same transaction, and an approver has found the run
  waiting. `UndoInv` uses the row lock: between the plan of a compensation and its
  commit nobody else commits a SUCCESS step run, and a run nobody triggered has no row.
* **Gateway.** `AloneIsDurable` needs `OneAtATime`: only a running process saves, and
  unless two have run together there is at most one and no save was overlaid.
  `OverspendBounded` needs an account (`SpentInv`): what all runs cost plus what the
  processes that are up have left, by what they know of, is at most one budget
  per start. A start adds at most a budget to it; a run moves its cost from "left" to
  "spent", because its entry is new to its process too; a stop only forgets. Entries
  on disk or in memory are always entries of real runs. For `AloneWithinBudget` the one
  process that is up knows every entry, and when none is up the file does
  (`AloneInv`). Sums are sizes of disjoint blocks of numbers (`BlocksAdd`), which
  turns them into facts about finite sets.

Model-checked only: every liveness property (`OpenEventuallyProbes`,
`HalfOpenResolvesUnlessCancelled`, `RunsTerminate`, `JobsSettle`, the two
`RequestsEnd`). They rest on fairness, that is on ENABLED, and on a measure that
decreases over data; the provers have neither. Every safety invariant and action
property of a passing run is a theorem; `CompletedMeansPerformed` and
`DependenciesFirst` under `OrdersAgree`, which the instances of their passing runs satisfy.

## 5. Not modelled

Step inputs and outputs, error texts, delays, telemetry; dry runs; duplicate
step ids. The engine model takes its stores as atomic maps that survive a crash;
what the files behind them do is the subject of `AutomationGateway`. Of the
workflow platform: definitions and their publication, human tasks, limits over
many runs, replays (a replay makes a run that nothing executes), who may decide
an approval. Of the gateway: webhooks, generated workflows, cron matching, versions,
and a run that is given the `execution_id` of an earlier one, whose cost entry it
would overwrite (`cost.py:50-52`; nothing in the repository does that). The worker pool: each of its
requests fails with a TypeError before it reaches the engine (`service.py:31-33`).

Most of the repository's 1300 implementation files (compliance catalogues,
parsers, cloud and data services, their API routers) are create, read, update and
delete operations, text processing and tables: one transaction each, without a
state machine whose steps interleave. They are listed by area in
`PROJECT.json` and are not modelled, so the modelled share of all lines is small.

## 6. Possible extensions

1. The refinement of an abstract specification of the engine (an execution is
   started, performs steps, ends once), and of the job manager.
2. Provider failover (`sre/ai_reliability.py`): one `BreakerOps` breaker per
   provider, concurrent requests; a request is refused only if every provider was.
3. The task orchestrator and the event bus.
