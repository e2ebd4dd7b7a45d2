-------------------------- MODULE AutomationEngine --------------------------
(***************************************************************************)
(* WorkflowEngine.run (backend/app/automation/engine.py) on one workflow   *)
(* of one tenant, with the stores it writes: execution records,            *)
(* checkpoints, approval requests and compensation records.                *)
(*                                                                         *)
(* Several threads may be inside run at once (WorkerPool of workers.py is  *)
(* written to call it so), while ApprovalStore.decide is called by others; *)
(* the process may crash, and the stores survive.  One action is one       *)
(* stretch of run between two points where another thread or a crash makes *)
(* a difference: a handler call, a save to a store, a read of approvals.   *)
(*                                                                         *)
(* Step outputs are abstracted to which steps have one; dry_run,           *)
(* approvals_enabled and checkpoint_enabled have their defaults (nothing   *)
(* in the repository changes them); timestamps, error texts and backoff    *)
(* delays are left out.                                                    *)
(***************************************************************************)
EXTENDS Naturals, Sequences, FiniteSets

CONSTANTS
    Steps,          \* ids of spec.flat_steps()
    Declared,       \* the sequence [s.id for s in spec.flat_steps()]
    Order,          \* the sequence execution_order(spec), see module KahnSort
    DependsOn,      \* step -> its depends_on
    Required,       \* steps with needs_approval or policy.requires_approval
    Reads,          \* step -> steps whose output its condition mentions
    Retries,        \* step -> retry.max_retries
    TransientOnly,  \* steps with a non-empty retry.retry_on
    Unhandled,      \* steps whose type has no registered handler
    Compensated,    \* steps that declare a compensation
    HasAction,      \* steps with an action
    Executions,     \* execution ids
    Threads,        \* threads that call run
    MaxResumes,     \* bound: calls of run with resume=True
    MaxCrashes,     \* bound: process crashes
    MaxInterrupts,  \* bound: BaseExceptions raised inside a run
    MaxDecisions    \* bound: human decisions

IsEnumeration(q, S) ==
    /\ q \in Seq(S)
    /\ \A s \in S : \E i \in 1..Len(q) : q[i] = s
    /\ \A i, j \in 1..Len(q) : q[i] = q[j] => i = j

ASSUME WorkflowAssumption ==
    /\ IsFiniteSet(Steps)
    /\ IsEnumeration(Declared, Steps)
    /\ IsEnumeration(Order, Steps)
    /\ DependsOn \in [Steps -> SUBSET Steps]
    /\ \A i \in 1..Len(Order) : \A d \in DependsOn[Order[i]] :
           \E j \in 1..(i - 1) : Order[j] = d
    /\ Required \subseteq Steps
    /\ Reads \in [Steps -> SUBSET Steps]
    /\ Retries \in [Steps -> Nat]
    /\ TransientOnly \subseteq Steps
    /\ Unhandled \subseteq Steps
    /\ Compensated \subseteq Steps
    /\ HasAction \subseteq Steps

ASSUME EnvironmentAssumption ==
    /\ Executions # {}
    /\ MaxResumes \in Nat /\ MaxCrashes \in Nat
    /\ MaxInterrupts \in Nat /\ MaxDecisions \in Nat

VARIABLES
    (* the persisted stores *)
    record,         \* ExecutionStore: execution -> status
    results,        \* ExecutionStore: execution -> record.steps
    checkpoints,    \* CheckpointStore: execution -> steps with a checkpoint
    approvals,      \* ApprovalStore: step -> decision
    compensations,  \* CompensationStore: execution -> step -> status
    (* the process *)
    thread,         \* thread -> the local variables of its call of run
    (* history, read by the properties only *)
    performed,      \* execution -> steps whose handler ran to its end
    granted,        \* steps a human has ever approved
    interrupted,    \* executions a BaseException went through
    used            \* how much of each bound has been used

stores  == <<record, results, checkpoints, approvals, compensations>>
history == <<performed, granted, interrupted>>
vars    == <<stores, thread, history, used>>

Statuses  == {"none", "queued", "awaiting_approval", "running", "completed",
              "failed"}
Decisions == {"none", "pending", "approved", "rejected"}
StepResults == {"none", "succeeded", "failed"}
Rollbacks == {"none", "notified", "completed", "failed"}
Labels == {"idle", "gate", "ensure", "create", "step", "attempt",
           "backoff", "checkpoint", "compensate"}
Bounded == {"resume", "crash", "interrupt", "decide"}

Thread == [pc        : Labels,
           exec      : Executions,            \* tracker.record.execution_id
           resume    : BOOLEAN,
           todo      : Seq(Steps),            \* rest of the loop in progress
           completed : Seq(Steps),            \* completed, in the order added
           outputs   : SUBSET Steps,
           attempt   : Nat,
           toUndo    : SUBSET Steps,          \* rest of the compensation plan
           undone    : [Steps -> Rollbacks]]  \* results not yet recorded

NothingUndone == [s \in Steps |-> "none"]

Idle(e) == [pc |-> "idle", exec |-> e, resume |-> FALSE, todo |-> <<>>,
            completed |-> <<>>, outputs |-> {}, attempt |-> 0,
            toUndo |-> {}, undone |-> NothingUndone]

TypeOK ==
    /\ record \in [Executions -> Statuses]
    /\ results \in [Executions -> [Steps -> StepResults]]
    /\ checkpoints \in [Executions -> SUBSET Steps]
    /\ approvals \in [Steps -> Decisions]
    /\ compensations \in [Executions -> [Steps -> Rollbacks]]
    /\ thread \in [Threads -> Thread]
    /\ performed \in [Executions -> SUBSET Steps]
    /\ granted \subseteq Steps
    /\ interrupted \subseteq Executions
    /\ used \in [Bounded -> Nat]

Init ==
    /\ record = [e \in Executions |-> "none"]
    /\ results = [e \in Executions |-> [s \in Steps |-> "none"]]
    /\ checkpoints = [e \in Executions |-> {}]
    /\ approvals = [s \in Steps |-> "none"]
    /\ compensations = [e \in Executions |-> [s \in Steps |-> "none"]]
    /\ thread = [t \in Threads |-> Idle(CHOOSE e \in Executions : TRUE)]
    /\ performed = [e \in Executions |-> {}]
    /\ granted = {}
    /\ interrupted = {}
    /\ used = [b \in Bounded |-> 0]

At(t, label) == thread[t].pc = label
Use(bound) == used' = [used EXCEPT ![bound] = @ + 1]

\* The local variables of t become those of r.
Becomes(t, r) == thread' = [thread EXCEPT ![t] = r]

\* tracker.finish or tracker.update_status, and run returns.
Finish(t, status) ==
    /\ record' = [record EXCEPT ![thread[t].exec] = status]
    /\ Becomes(t, Idle(thread[t].exec))

-----------------------------------------------------------------------------
(* The head of run: begin the record, pass the gates, make the plan *)

\* ExecutionTracker.begin: a new record replaces any record of that id.
Begin(t, e, resume) ==
    /\ At(t, "idle")
    /\ record' = [record EXCEPT ![e] = "queued"]
    /\ results' = [results EXCEPT ![e] = [s \in Steps |-> "none"]]
    /\ Becomes(t, [Idle(e) EXCEPT !.pc = "gate", !.todo = Declared, !.resume = resume])
    /\ UNCHANGED <<checkpoints, approvals, compensations, history>>

\* gateway.run and the triggers: a run gets a new execution id.
RunFresh(t, e) ==
    /\ record[e] = "none"
    /\ Begin(t, e, FALSE)
    /\ UNCHANGED used

\* run(spec, execution_id=e, resume=True), once no other thread runs e.
RunResume(t, e) ==
    /\ used["resume"] < MaxResumes
    /\ record[e] # "none"
    /\ \A u \in Threads : At(u, "idle") \/ thread[u].exec # e
    /\ Begin(t, e, TRUE)
    /\ Use("resume")

\* A pending request passes for an approval.
IsApprovedBug(s) == approvals[s] \in {"pending", "approved"}

IsApproved(s) == approvals[s] = "approved"

Current(t) == Head(thread[t].todo)

\* The step in hand needs no approval or has it.
GateHolds(t) == Current(t) \in Required => IsApproved(Current(t))

\* _gates_cleared looks at one step after the other.
PassGate(t) ==
    /\ At(t, "gate")
    /\ thread[t].todo # <<>>
    /\ GateHolds(t)
    /\ Becomes(t, [thread[t] EXCEPT !.todo = Tail(@)])
    /\ UNCHANGED <<stores, history, used>>

\* It stops at the first step that lacks its approval.
Blocked(t) ==
    /\ At(t, "gate")
    /\ thread[t].todo # <<>>
    /\ ~GateHolds(t)
    /\ Becomes(t, [thread[t] EXCEPT !.pc = "ensure", !.todo = Declared])
    /\ UNCHANGED <<stores, history, used>>

\* The search for a checkpoint stops at the first one.
ResumePointBug(e) ==
    LET done == {i \in 1..Len(Declared) : Declared[i] \in checkpoints[e]}
    IN  IF done = {} THEN 0
        ELSE CHOOSE i \in done : \A j \in done : i <= j

\* CheckpointStore.resume_point: the last declared step with a checkpoint,
\* as its index in the declaration, 0 when there is none.
ResumePoint(e) ==
    LET done == {i \in 1..Len(Declared) : Declared[i] \in checkpoints[e]}
    IN  IF done = {} THEN 0
        ELSE CHOOSE i \in done : \A j \in done : j <= i

\* A fresh run executes the steps as declared, whatever they depend on.
PlanBug(t) == SubSeq(Declared, ResumePoint(thread[t].exec) + 1, Len(Declared))

\* The resumed run starts one step too late.
PlanSkipsBug(t) ==
    IF thread[t].resume
    THEN SubSeq(Declared, ResumePoint(thread[t].exec) + 2, Len(Declared))
    ELSE Order

\* build_resume_plan for a resumed run, execution_order otherwise.
Plan(t) ==
    IF thread[t].resume
    THEN SubSeq(Declared, ResumePoint(thread[t].exec) + 1, Len(Declared))
    ELSE Order

\* What a resumed run takes over from its checkpoint.
Restored(t) ==
    LET i == ResumePoint(thread[t].exec)
    IN  IF thread[t].resume /\ i > 0 THEN <<Declared[i]>> ELSE <<>>

\* Every step has passed: tracker.start and the plan.
Start(t) ==
    /\ At(t, "gate")
    /\ thread[t].todo = <<>>
    /\ record' = [record EXCEPT ![thread[t].exec] = "running"]
    /\ Becomes(t, [thread[t] EXCEPT
           !.pc = "step", !.todo = Plan(t), !.completed = Restored(t),
           !.outputs = {Restored(t)[i] : i \in 1..Len(Restored(t))}])
    /\ UNCHANGED <<results, checkpoints, approvals, compensations, history, used>>

\* Only a rejected step gets a new request.
NeedsRequestBug(s) == s \in Required /\ approvals[s] = "rejected"

\* A gating step for which steps_pending is false: a request will be
\* created, over whatever record there is.
NeedsRequest(s) == s \in Required /\ ~IsApproved(s)

\* _ensure_requests looks at the next step.
EnsureRequest(t) ==
    /\ At(t, "ensure")
    /\ thread[t].todo # <<>>
    /\ Becomes(t, IF NeedsRequest(Head(thread[t].todo))
                  THEN [thread[t] EXCEPT !.pc = "create"]
                  ELSE [thread[t] EXCEPT !.todo = Tail(@)])
    /\ UNCHANGED <<stores, history, used>>

\* ApprovalStore.create.
CreateRequest(t) ==
    /\ At(t, "create")
    /\ approvals' = [approvals EXCEPT ![Head(thread[t].todo)] = "pending"]
    /\ Becomes(t, [thread[t] EXCEPT !.pc = "ensure", !.todo = Tail(@)])
    /\ UNCHANGED <<record, results, checkpoints, compensations, history, used>>

\* The spelling of EXECUTION_STATUS, which no reader of records expects.
BlockedStatusBug == "waiting_for_approval"

BlockedStatus == "awaiting_approval"

\* Every gating step has its request: the run returns.
AwaitApproval(t) ==
    /\ At(t, "ensure")
    /\ thread[t].todo = <<>>
    /\ Finish(t, BlockedStatus)
    /\ UNCHANGED <<results, checkpoints, approvals, compensations, history, used>>

-----------------------------------------------------------------------------
(* The steps: _execute_ordered and _run_step *)

HasStep(t) == At(t, "step") /\ thread[t].todo # <<>>

\* _eval_condition: false when an output it mentions is missing, else what
\* the outputs make of it.
ConditionMayFail(t) == Reads[Current(t)] # {}
ConditionMayHold(t) == Reads[Current(t)] \subseteq thread[t].outputs

\* The condition is false: the step is skipped.
SkipStep(t) ==
    /\ HasStep(t)
    /\ ConditionMayFail(t)
    /\ Becomes(t, [thread[t] EXCEPT !.todo = Tail(@)])
    /\ UNCHANGED <<stores, history, used>>

\* The condition holds and so does the second approval check: the handler is called.
BeginStep(t) ==
    /\ HasStep(t)
    /\ ConditionMayHold(t)
    /\ GateHolds(t)
    /\ Current(t) \notin Unhandled
    /\ Becomes(t, [thread[t] EXCEPT !.pc = "attempt", !.attempt = 1])
    /\ UNCHANGED <<stores, history, used>>

\* Only steps that declare a compensation are planned.
CompensationPlanBug(done, s) == (done \ {s}) \cap Compensated

\* compensation_plan: the other completed steps.  The caller passes
\* list(completed) of a set, so the plan's order is arbitrary.
CompensationPlan(done, s) == done \ {s}

\* The failure is noted and the loop goes on.
FailStepBug(t) ==
    Becomes(t, [thread[t] EXCEPT !.pc = "step", !.todo = Tail(@)])

\* StepFailure reaches run: status = "failed", compensation begins.
FailStep(t) ==
    LET done == {thread[t].completed[i] : i \in 1..Len(thread[t].completed)}
    IN  Becomes(t, [thread[t] EXCEPT
            !.pc = "compensate", !.toUndo = CompensationPlan(done, Current(t))])

\* The gate has closed again, or no handler is registered: no result is
\* recorded for the step.
RefuseStep(t) ==
    /\ HasStep(t)
    /\ ConditionMayHold(t)
    /\ ~GateHolds(t) \/ Current(t) \in Unhandled
    /\ FailStep(t)
    /\ UNCHANGED <<stores, history, used>>

\* The handler of the current step ran to its end.
Perform(t) ==
    performed' = [performed EXCEPT ![thread[t].exec] = @ \cup {Current(t)}]

\* tracker.record_step, which saves the whole in-memory record.
RecordStep(t, result) ==
    /\ results' = [results EXCEPT ![thread[t].exec][Current(t)] = result]
    /\ record' = [record EXCEPT ![thread[t].exec] = "running"]

\* The handler returned in time.
HandlerReturns(t) ==
    /\ At(t, "attempt")
    /\ Perform(t)
    /\ RecordStep(t, "succeeded")
    /\ Becomes(t, [thread[t] EXCEPT !.pc = "checkpoint"])
    /\ UNCHANGED <<checkpoints, approvals, compensations, granted,
                   interrupted, used>>

\* The attempt is not counted.
NextAttemptBug(n) == n

NextAttempt(n) == n + 1

\* run_with_retry after an exception: sleep and try again, or give up.
MayRetry(t, transient) ==
    /\ thread[t].attempt <= Retries[Current(t)]
    /\ Current(t) \in TransientOnly => transient

Retry(t, transient) ==
    /\ MayRetry(t, transient)
    /\ Becomes(t, [thread[t] EXCEPT !.pc = "backoff"])
    /\ UNCHANGED <<record, results>>

\* The backoff delay is over: the next attempt.
Backoff(t) ==
    /\ At(t, "backoff")
    /\ Becomes(t, [thread[t] EXCEPT !.pc = "attempt",
                                    !.attempt = NextAttempt(@)])
    /\ UNCHANGED <<stores, history, used>>

GiveUp(t, transient) ==
    /\ ~MayRetry(t, transient)
    /\ RecordStep(t, "failed")
    /\ FailStep(t)

\* The handler raised, without having had its effect.
HandlerRaises(t, transient) ==
    /\ At(t, "attempt")
    /\ Retry(t, transient) \/ GiveUp(t, transient)
    /\ UNCHANGED <<checkpoints, approvals, compensations, history, used>>

\* _call_with_timeout reports a timeout, but leaving its executor waits for
\* the handler to end: the effect happens and counts as a failure.
HandlerTimesOut(t) ==
    /\ At(t, "attempt")
    /\ Perform(t)
    /\ Retry(t, TRUE) \/ GiveUp(t, TRUE)
    /\ UNCHANGED <<checkpoints, approvals, compensations, granted,
                   interrupted, used>>

\* completed.add, outputs and checkpoints.save.
SaveCheckpoint(t) ==
    /\ At(t, "checkpoint")
    /\ checkpoints' = [checkpoints EXCEPT ![thread[t].exec] = @ \cup {Current(t)}]
    /\ Becomes(t, [thread[t] EXCEPT
           !.pc = "step", !.todo = Tail(@),
           !.completed = Append(@, Current(t)), !.outputs = @ \cup {Current(t)}])
    /\ UNCHANGED <<record, results, approvals, compensations, history, used>>

\* Every step is done, or a resumed run had none left.
Complete(t) ==
    /\ At(t, "step")
    /\ thread[t].todo = <<>>
    /\ Finish(t, "completed")
    /\ UNCHANGED <<results, checkpoints, approvals, compensations, history, used>>

-----------------------------------------------------------------------------
(* _trigger_compensation *)

\* What run_compensation makes of a step.  With an action, the tool is the
\* step's own handler, a StepHandler of three arguments, called with one:
\* the TypeError is caught and the rollback has failed.  Without one it is
\* rollback_signal, which only takes a note.
RollbackOutcome(s) ==
    CASE s \notin Compensated -> "notified"
      [] s \in Compensated /\ s \in HasAction -> "failed"
      [] OTHER -> "completed"

\* run_compensation, one action of the plan.
Compensate(t, s) ==
    /\ At(t, "compensate")
    /\ s \in thread[t].toUndo
    /\ Becomes(t, [thread[t] EXCEPT !.toUndo = @ \ {s},
                                    !.undone[s] = RollbackOutcome(s)])
    /\ UNCHANGED <<stores, history, used>>

\* compensations.record, one result after the other.
RecordRollback(t, s) ==
    /\ At(t, "compensate")
    /\ thread[t].toUndo = {}
    /\ thread[t].undone[s] # "none"
    /\ compensations' = [compensations EXCEPT ![thread[t].exec][s] = thread[t].undone[s]]
    /\ Becomes(t, [thread[t] EXCEPT !.undone[s] = "none"])
    /\ UNCHANGED <<record, results, checkpoints, approvals, history, used>>

\* tracker.finish("failed").
FinishFailed(t) ==
    /\ At(t, "compensate")
    /\ thread[t].toUndo = {} /\ thread[t].undone = NothingUndone
    /\ Finish(t, "failed")
    /\ UNCHANGED <<results, checkpoints, approvals, compensations, history, used>>

-----------------------------------------------------------------------------
(* The environment *)

\* ApprovalStore.decide, called by the API.
Decide(s, decision) ==
    /\ used["decide"] < MaxDecisions
    /\ approvals[s] = "pending"
    /\ approvals' = [approvals EXCEPT ![s] = decision]
    /\ granted' = IF decision = "approved" THEN granted \cup {s} ELSE granted
    /\ Use("decide")
    /\ UNCHANGED <<record, results, checkpoints, compensations, thread,
                   performed, interrupted>>

\* KeyboardInterrupt or SystemExit inside the try of run: no except clause
\* takes it and `finally` saves the status reached so far, which is
\* "completed" until a StepFailure has been caught.
Interrupt(t) ==
    /\ used["interrupt"] < MaxInterrupts
    /\ thread[t].pc \in {"step", "attempt", "backoff", "checkpoint",
                        "compensate"}
    /\ Finish(t, IF At(t, "compensate") THEN "failed" ELSE "completed")
    /\ interrupted' = interrupted \cup {thread[t].exec}
    /\ Use("interrupt")
    /\ UNCHANGED <<results, checkpoints, approvals, compensations, performed,
                   granted>>

\* The process dies; the JSON stores survive.
Crash ==
    /\ used["crash"] < MaxCrashes
    /\ \E t \in Threads : ~At(t, "idle")
    /\ thread' = [t \in Threads |-> Idle(thread[t].exec)]
    /\ Use("crash")
    /\ UNCHANGED <<stores, history>>

-----------------------------------------------------------------------------

\* A step a running call of run can always take.
Proceed(t) ==
    \/ PassGate(t) \/ Start(t) \/ Blocked(t) \/ EnsureRequest(t) \/ CreateRequest(t)
    \/ AwaitApproval(t)
    \/ SkipStep(t) \/ BeginStep(t) \/ RefuseStep(t)
    \/ HandlerReturns(t) \/ HandlerTimesOut(t)
    \/ \E transient \in BOOLEAN : HandlerRaises(t, transient)
    \/ Backoff(t) \/ SaveCheckpoint(t) \/ Complete(t)
    \/ \E s \in Steps : Compensate(t, s) \/ RecordRollback(t, s)
    \/ FinishFailed(t)

Next ==
    \/ \E t \in Threads :
         \/ \E e \in Executions : RunFresh(t, e) \/ RunResume(t, e)
         \/ Proceed(t)
         \/ Interrupt(t)
    \/ \E s \in Steps, decision \in {"approved", "rejected"} : Decide(s, decision)
    \/ Crash

Spec == Init /\ [][Next]_vars

\* A thread that is inside run keeps running, and its handlers end: nothing
\* is assumed of humans, of callers or of crashes.
FairSpec == Spec /\ \A t \in Threads : WF_vars(Proceed(t))

-----------------------------------------------------------------------------
(* Properties *)

\* README "High-risk actions ... always require an approved human (or policy
\* auto-approved) request before the engine runs them": no handler of a
\* gated step runs, in any execution, unless a human approved that step,
\* whatever requests are overwritten or decided while the run is under way.
GatedEffects ==
    \A e \in Executions : performed[e] \cap Required \subseteq granted

\* A handler is called only after every step it depends on has been
\* performed in this execution (a conditional one may have been skipped):
\* execution_order and the resume plan keep the DAG's order.
DependenciesFirst ==
    \A t \in Threads : At(t, "attempt") =>
        \A d \in DependsOn[Current(t)] :
            d \in performed[thread[t].exec] \/ Reads[d] # {}

\* A record says "completed" only if every unconditional step of the
\* workflow has been performed in this execution, over all its runs,
\* crashes and resumes.  Executions a KeyboardInterrupt or SystemExit went
\* through are left out: `finally` saves "completed" for them.
CompletedMeansPerformed ==
    \A e \in Executions :
        record[e] = "completed" /\ e \notin interrupted =>
            \A s \in Steps : Reads[s] = {} => s \in performed[e]

\* checkpoint.py "resume from the last completed step instead of
\* restarting": a resumed run does not perform a step again that has a
\* checkpoint.
ResumeSkipsDone ==
    \A t \in Threads : At(t, "attempt") /\ thread[t].resume =>
        Current(t) \notin checkpoints[thread[t].exec]

\* A run is reported "failed" only once each step that run had completed has
\* a compensation record, be it a rollback or a note to the operator.
FailureCompensates ==
    [][\A t \in Threads :
         LET e == thread[t].exec IN
         /\ At(t, "compensate")
         /\ thread'[t].pc = "idle"
         /\ record[e] # "failed" /\ record'[e] = "failed"
         /\ e \notin interrupted'
         => \A i \in 1..Len(thread[t].completed) :
                \/ thread[t].completed[i] = Current(t)
                \/ compensations'[e][thread[t].completed[i]] # "none"]_vars

\* README "runs blocked on approvals persist as awaiting_approval and create
\* the pending requests": a blocked run leaves every gating step with a
\* request a human can find.
AwaitingHasRequests ==
    (\E e \in Executions : record[e] = "awaiting_approval") =>
        \A s \in Required : approvals[s] # "none"

\* A call of run returns: retries, the gate and the compensation loop end,
\* given that the handlers do.
RunsTerminate ==
    \A t \in Threads : ~At(t, "idle") ~> At(t, "idle")
=============================================================================
