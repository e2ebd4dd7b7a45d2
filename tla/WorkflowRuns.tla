----------------------------- MODULE WorkflowRuns -----------------------------
(***************************************************************************)
(* One run of a published workflow (workflow/execution.py, approval.py,    *)
(* compensation.py, recovery.py) under the requests of api/workflow.py.    *)
(* A request is a database transaction: what it flushed is its own until   *)
(* it commits, and an UPDATE of the run's row locks it until then. Every   *)
(* runner starts from the first step; only a recovery takes the lease.     *)
(***************************************************************************)
EXTENDS Naturals, FiniteSets, Sequences, SequencesExt

CONSTANTS Step, Definitions,   \* the steps and the published definitions tried
          Request, WorkerOf,   \* API requests, numbered as they start; who recovers
          None,                \* no lease holder, no lock
          MaxParallel,         \* max_parallel of run_workflow
          MaxExpiries, MaxCrashes  \* bounds: expired leases, process restarts

ASSUME WorkflowAssumption ==
    /\ IsFiniteSet(Step) /\ Request \subseteq Nat /\ None \notin Request
    /\ None \notin {WorkerOf[r] : r \in Request}
    /\ MaxParallel \in Nat \ {0} /\ MaxExpiries \in Nat /\ MaxCrashes \in Nat

VARIABLES definition,    \* the version that is run: kind, deps, onFailure, undoable
          row,           \* committed status of the run
          done, undone,  \* committed SUCCESS step runs and compensations of a step
          children,      \* steps whose child run was started
          approvals,     \* committed approvals: step and status
          expired,       \* which of them are past their 24 hours
          op, pc, session,
          locker,        \* who has updated the run's row and not committed
          lease, expiries, crashes

db   == <<definition, row, done, undone, children, approvals>>
vars == <<db, expired, op, pc, session, locker, lease, expiries, crashes>>

Terminal == {"COMPLETED", "CANCELLED", "FAILED"}
Status   == Terminal \cup {"NONE", "RUNNING", "WAITING", "PAUSED"}
Count    == [Step -> Nat]
Zero     == [s \in Step |-> 0]
NoLease  == [worker |-> None, live |-> FALSE]
Decisions == {"APPROVED", "DENIED", "CANCELLED"}
Answers   == Decisions \cup {"PENDING"}
Approval  == [step : Step, status : Answers]

\* What a session holds: the status as it read or flushed it, the one it will end
\* with, whether it has changed the column, the local state of run_workflow, and the
\* SUCCESS step runs (for a cancel: those it saw), approvals, children and
\* compensations it has flushed.
Fresh == [status |-> "NONE", final |-> "NONE", wrote |-> FALSE,
          completed |-> {}, todo |-> {}, waits |-> FALSE,
          mine |-> {}, child |-> {}, asks |-> {}, undo |-> Zero,
          answers |-> 0, decision |-> "PENDING"]

Operations == {"none", "trigger", "pause", "resume", "cancel", "recover", "decide"}
Stages     == {"idle", "loaded", "marking", "running", "ending", "flushed", "ended"}
Lease      == [worker : {WorkerOf[r] : r \in Request} \cup {None}, live : BOOLEAN]
Sessions(known) ==
    [status : Status, final : Status, wrote : BOOLEAN,
     completed : SUBSET Step, todo : SUBSET Step, waits : BOOLEAN,
     mine : SUBSET Step, child : SUBSET Step, asks : SUBSET Step, undo : Count,
     answers : 0 .. known, decision : Answers]

TypeOK ==
    /\ definition \in Definitions
    /\ row \in Status
    /\ done \in Count /\ undone \in Count /\ children \subseteq Step
    /\ approvals \in Seq(Approval) /\ expired \subseteq DOMAIN approvals
    /\ op \in [Request -> Operations] /\ pc \in [Request -> Stages]
    /\ session \in [Request -> Sessions(Len(approvals))]
    /\ locker \in Request \cup {None} /\ lease \in Lease
    /\ expiries \in 0 .. MaxExpiries /\ crashes \in 0 .. MaxCrashes

Init ==
    /\ definition \in Definitions
    /\ row = "NONE" /\ done = Zero /\ undone = Zero
    /\ children = {} /\ approvals = <<>> /\ expired = {}
    /\ op = [r \in Request |-> "none"] /\ pc = [r \in Request |-> "idle"]
    /\ session = [r \in Request |-> Fresh]
    /\ locker = None /\ lease = NoLease
    /\ expiries = 0 /\ crashes = 0

-----------------------------------------------------------------------------
\* r is started as k: it has read the status and goes to l.
Begin(r, k, l, s) ==
    /\ pc[r] = "idle" /\ \A q \in Request : q < r => pc[q] # "idle"
    /\ op' = [op EXCEPT ![r] = k] /\ pc' = [pc EXCEPT ![r] = l]
    /\ session' = [session EXCEPT ![r] = s]
    /\ UNCHANGED <<db, expired, locker, expiries, crashes>>

Reading == [Fresh EXCEPT !.status = row]

Goto(r, l, s) ==
    /\ pc' = [pc EXCEPT ![r] = l] /\ session' = [session EXCEPT ![r] = s]
    /\ UNCHANGED <<expired, op, lease, expiries, crashes>>

LockFree(r) == locker \in {None, r}

Unlocked(r) == IF locker = r THEN None ELSE locker

LeaseAfter(r) ==
    IF op[r] = "recover" /\ lease.worker = WorkerOf[r] THEN NoLease ELSE lease

\* The transaction of r is rolled back.
RollBack(r) ==
    /\ pc' = [pc EXCEPT ![r] = "ended"] /\ session' = [session EXCEPT ![r] = Fresh]
    /\ locker' = Unlocked(r)
    /\ lease' = LeaseAfter(r)
    /\ UNCHANGED <<db, expired, op, expiries, crashes>>

-----------------------------------------------------------------------------
\* start_run finds the run by its key and the caller runs it again, or creates it.
Trigger(r) ==
    /\ Begin(r, "trigger", IF row = "NONE" THEN "loaded" ELSE "running", Reading)
    /\ UNCHANGED lease

Create(r) ==
    /\ pc[r] = "loaded" /\ op[r] = "trigger"
    /\ \/ /\ row = "NONE"
          /\ row' = "RUNNING"
          /\ Goto(r, "running", [Fresh EXCEPT !.status = "RUNNING"])
          /\ UNCHANGED <<definition, done, undone, children, approvals, locker>>
       \/ row # "NONE" /\ RollBack(r)   \* the key is unique

PauseLoad(r) ==
    /\ row \in {"RUNNING", "WAITING"}
    /\ Begin(r, "pause", "loaded", Reading)
    /\ UNCHANGED lease

CancelLoad(r) ==
    /\ row \notin Terminal \cup {"NONE"}
    /\ Begin(r, "cancel", "loaded", [Reading EXCEPT !.mine = {s \in Step : done[s] > 0}])
    /\ UNCHANGED lease

\* The status of the rollback is the last one written.
OutcomeBug(r) == IF op[r] = "pause" THEN "PAUSED" ELSE "COMPENSATING"
Outcome(r) == IF op[r] = "pause" THEN "PAUSED" ELSE "CANCELLED"

\* pause and cancel write over whatever was committed since they read the row;
\* a cancel that had seen a SUCCESS compensates every one it finds now.
Overwrite(r) ==
    /\ pc[r] = "loaded" /\ op[r] \in {"pause", "cancel"} /\ locker = None
    /\ row' = Outcome(r)
    /\ undone' = IF op[r] = "cancel" /\ session[r].mine # {} /\ definition.undoable
                 THEN [s \in Step |-> undone[s] + done[s]] ELSE undone
    /\ Goto(r, "ended", Fresh)
    /\ UNCHANGED <<definition, done, children, approvals, locker>>

Resume(r) ==
    /\ row = "PAUSED"
    /\ Begin(r, "resume", "marking", Reading)
    /\ UNCHANGED lease

\* The lease of another worker is not looked at.
LeaseFreeBug(r) == TRUE
LeaseFree(r) == lease.worker \in {None, WorkerOf[r]} \/ ~lease.live

Recover(r) ==
    /\ LeaseFree(r)
    /\ row \in {"RUNNING", "WAITING", "PAUSED"}
    /\ Begin(r, "recover", "marking", Reading)
    /\ lease' = [worker |-> WorkerOf[r], live |-> TRUE]

\* An expired request is refused: the EXPIRED flushed for it is rolled back with the
\* error, so it stays PENDING and nobody can answer it any more.
DecideLoad(r, i, d) ==
    /\ approvals[i].status = "PENDING" /\ i \notin expired
    /\ Begin(r, "decide", "loaded", [Fresh EXCEPT !.answers = i, !.decision = d])
    /\ UNCHANGED lease

\* The decision is flushed, which locks the approval; then the run is read.
Decide(r) ==
    /\ pc[r] = "loaded" /\ op[r] = "decide"
    /\ \A q \in Request \ {r} : ~ ( /\ op[q] = "decide" /\ pc[q] \notin {"loaded", "ended"}
                                    /\ session[q].answers = session[r].answers )
    /\ Goto(r, IF session[r].decision = "APPROVED" /\ row = "WAITING"
               THEN "marking" ELSE "flushed",
            [session[r] EXCEPT !.status = row])
    /\ UNCHANGED <<db, locker>>

\* run.status = RUNNING is flushed; nothing is written when it was RUNNING.
Mark(r) ==
    /\ pc[r] = "marking"
    /\ \/ session[r].status = "RUNNING" /\ locker' = locker
       \/ session[r].status # "RUNNING" /\ LockFree(r) /\ locker' = r
    /\ Goto(r, "running", [session[r] EXCEPT !.wrote = @ \/ session[r].status # "RUNNING",
                                            !.status = "RUNNING"])
    /\ UNCHANGED db

-----------------------------------------------------------------------------
Kind(s) == definition.kind[s]

\* An approval that was requested counts as given.
ReadyBug(r) ==
    LET past == session[r].completed \cup {approvals[i].step : i \in DOMAIN approvals}
    IN {s \in Step \ past : definition.deps[s] \subseteq past}
Ready(r) ==
    {s \in Step \ session[r].completed : definition.deps[s] \subseteq session[r].completed}

\* The batches run_workflow may take: at most MaxParallel of the ready steps.
Batch(r) ==
    {b \in SUBSET Ready(r) : Cardinality(b) = IF Cardinality(Ready(r)) < MaxParallel
                                               THEN Cardinality(Ready(r)) ELSE MaxParallel}

\* One turn of the loop: the end, a pause for approvals, or the next batch, whose
\* conditions are evaluated first.
Pick(r) ==
    LET s    == session[r]
        asks == {x \in Ready(r) : Kind(x) = "APPROVAL"}
    IN /\ pc[r] = "running" /\ s.todo = {}
       /\ \/ /\ s.completed = Step
             /\ Goto(r, "ending",
                     [s EXCEPT !.final = IF s.waits THEN "WAITING" ELSE "COMPLETED"])
          \/ /\ asks # {}
             /\ Goto(r, "ending", [s EXCEPT !.final = "WAITING", !.asks = asks])
          \/ /\ asks = {} /\ s.completed # Step
             /\ \E b \in Batch(r) :
                  IF \E x \in b : Kind(x) = "BROKEN"
                  THEN Goto(r, "ending", [s EXCEPT !.final = "FAILED"])
                  ELSE LET skipped == {x \in b : Kind(x) = "SKIPPED"} IN
                       Goto(r, "running", [s EXCEPT !.completed = @ \cup skipped,
                                                    !.todo = b \ skipped])
       /\ UNCHANGED <<db, locker>>

\* Every failure is skipped.
OnFailureBug(x) == "skip"
OnFailure(x) == definition.onFailure[x]

\* build_compensation_plan: the SUCCESS step runs r sees, its own included.
PlanBug(r) == [y \in Step |-> IF y \in session[r].mine THEN 1 ELSE 0]
Plan(r) == [y \in Step |-> done[y] + IF y \in session[r].mine THEN 1 ELSE 0]

\* A WAIT step is not removed from the steps that remain.
CompletedBug(s, x) ==
    IF Kind(x) = "WAIT" THEN [s EXCEPT !.todo = @ \ {x}]
    ELSE [s EXCEPT !.completed = @ \cup {x}, !.todo = @ \ {x}]
Completed(s, x) == [s EXCEPT !.completed = @ \cup {x}, !.todo = @ \ {x}]

\* execute_step of a task: SUCCESS, FAILED after its attempts, or (NotTried) neither.
Succeed(r, x) ==
    /\ pc[r] = "running" /\ x \in session[r].todo /\ Kind(x) = "TASK"
    /\ Goto(r, "running", [Completed(session[r], x) EXCEPT !.mine = @ \cup {x}])
    /\ UNCHANGED <<db, locker>>

Fail(r, x) ==
    LET s == session[r] IN
    /\ pc[r] = "running" /\ x \in s.todo /\ Kind(x) = "TASK"
    /\ \/ /\ OnFailure(x) = "skip"
          /\ Goto(r, "running", Completed(s, x))
          /\ locker' = locker
       \/ /\ OnFailure(x) = "fail_workflow"
          /\ Goto(r, "ending", [s EXCEPT !.final = "FAILED", !.todo = {}])
          /\ locker' = locker
       \/ \* COMPENSATING is flushed before the SUCCESS step runs are read.
          /\ OnFailure(x) = "compensate" /\ LockFree(r)
          /\ Goto(r, "ending", [s EXCEPT !.final = "FAILED", !.wrote = TRUE, !.todo = {},
                                          !.undo = Plan(r)])
          /\ locker' = r
    /\ UNCHANGED db

\* No attempt is allowed (max_attempts <= 0): the step run comes back RUNNING, no
\* branch takes the step away from those that remain, and the loop picks it again.
NotTried(r, x) ==
    /\ pc[r] = "running" /\ x \in session[r].todo /\ Kind(x) = "UNTRIED"
    /\ Goto(r, "running", [session[r] EXCEPT !.todo = @ \ {x}])
    /\ UNCHANGED <<db, locker>>

\* A WAIT step does not wait; it makes the run end as WAITING.
Wait(r, x) ==
    /\ pc[r] = "running" /\ x \in session[r].todo /\ Kind(x) = "WAIT"
    /\ Goto(r, "running", [Completed(session[r], x) EXCEPT !.waits = TRUE])
    /\ UNCHANGED <<db, locker>>

\* A child run is created under the key run:step, and never run. Two runners that
\* insert the same key: one waits for the other, or is aborted.
StartChild(r, x) ==
    LET rival == \E q \in Request \ {r} : x \in session[q].child IN
    /\ pc[r] = "running" /\ x \in session[r].todo /\ Kind(x) = "CHILD"
    /\ \/ /\ ~rival \/ x \in children
          /\ Goto(r, "running",
                  [Completed(session[r], x) EXCEPT !.child = @ \cup ({x} \ children)])
          /\ UNCHANGED <<db, locker>>
       \/ rival /\ x \notin children /\ RollBack(r)

\* The child's version is not published: run_workflow raises. trigger and decide
\* swallow it and commit what was flushed; resume and recover roll back.
NoChild(r, x) ==
    /\ pc[r] = "running" /\ x \in session[r].todo /\ Kind(x) = "NOCHILD"
    /\ IF op[r] \in {"trigger", "decide"}
       THEN Goto(r, "flushed", [session[r] EXCEPT !.todo = {}]) /\ UNCHANGED <<db, locker>>
       ELSE RollBack(r)

\* The last write: run.status if it changes, and completed_at with COMPLETED and
\* FAILED. A recovery gives up its lease here.
Flush(r) ==
    LET s == session[r]
        changes == s.final # s.status
    IN /\ pc[r] = "ending"
       /\ IF changes \/ s.final \in Terminal THEN LockFree(r) /\ locker' = r
                                             ELSE locker' = locker
       /\ pc' = [pc EXCEPT ![r] = "flushed"]
       /\ session' = [session EXCEPT ![r].status = s.final, ![r].wrote = @ \/ changes]
       /\ lease' = LeaseAfter(r)
       /\ UNCHANGED <<db, expired, op, expiries, crashes>>

\* create_approval does not ask again for a step that was asked for.
RequestsBug(r) ==
    LET old == {approvals[i].step : i \in DOMAIN approvals}
    IN SetToSeq({[step |-> x, status |-> "PENDING"] : x \in session[r].asks \ old})
Requests(r) == SetToSeq({[step |-> x, status |-> "PENDING"] : x \in session[r].asks})

Commit(r) ==
    LET s == session[r]
        decided == [i \in DOMAIN approvals |->
                      IF i = s.answers THEN [approvals[i] EXCEPT !.status = s.decision]
                      ELSE approvals[i]]
    IN /\ pc[r] = "flushed"
       /\ row' = IF s.wrote THEN s.status ELSE row
       /\ done' = [x \in Step |-> done[x] + IF x \in s.mine THEN 1 ELSE 0]
       /\ undone' = [x \in Step |-> undone[x] + s.undo[x]]
       /\ children' = children \cup s.child
       /\ approvals' = decided \o Requests(r)
       /\ locker' = Unlocked(r)
       /\ Goto(r, "ended", Fresh)
       /\ UNCHANGED definition

LeaseExpires ==
    /\ lease.live /\ expiries < MaxExpiries
    /\ lease' = [lease EXCEPT !.live = FALSE] /\ expiries' = expiries + 1
    /\ UNCHANGED <<db, expired, op, pc, session, locker, crashes>>

\* 24 hours have passed since approval i was requested.
ApprovalExpires(i) ==
    /\ approvals[i].status = "PENDING" /\ i \notin expired
    /\ expired' = expired \cup {i}
    /\ UNCHANGED <<db, op, pc, session, locker, lease, expiries, crashes>>

\* The process restarts: every open transaction is rolled back, the lease is lost.
Crash ==
    LET victims == {r \in Request : pc[r] \notin {"idle", "ended"}} IN
    /\ crashes < MaxCrashes /\ victims # {}
    /\ pc' = [r \in Request |-> IF r \in victims THEN "ended" ELSE pc[r]]
    /\ session' = [r \in Request |-> Fresh]
    /\ locker' = None /\ lease' = NoLease
    /\ crashes' = crashes + 1
    /\ UNCHANGED <<db, expired, op, expiries>>

Advance(r) ==
    \/ Create(r) \/ Overwrite(r) \/ Decide(r) \/ Mark(r) \/ Pick(r) \/ Flush(r) \/ Commit(r)
    \/ \E x \in Step :
         \/ Succeed(r, x) \/ Fail(r, x) \/ NotTried(r, x) \/ Wait(r, x)
         \/ StartChild(r, x) \/ NoChild(r, x)

Start(r) ==
    \/ Trigger(r) \/ PauseLoad(r) \/ CancelLoad(r) \/ Resume(r) \/ Recover(r)
    \/ \E i \in DOMAIN approvals, d \in Decisions : DecideLoad(r, i, d)

Next ==
    \/ \E r \in Request : Start(r) \/ Advance(r)
    \/ \E i \in DOMAIN approvals : ApprovalExpires(i)
    \/ LeaseExpires \/ Crash

Spec == Init /\ [][Next]_vars

\* A request that was started goes on.
FairSpec == Spec /\ \A r \in Request : WF_vars(Advance(r))

-----------------------------------------------------------------------------
\* COMPLETED is committed with the work of one runner, whatever other runners,
\* pauses and cancels were committed in between.
CompletedMeansDone ==
    row = "COMPLETED" => \A s \in Step :
        /\ Kind(s) = "TASK" /\ definition.onFailure[s] # "skip" => done[s] > 0
        /\ Kind(s) = "CHILD" => s \in children
        /\ Kind(s) \notin {"WAIT", "APPROVAL", "BROKEN", "NOCHILD", "UNTRIED"}

\* A runner takes up a step only when the approvals that its dependencies ask for
\* have been given, by then or by the decision it carries out itself
\* (execution.run_workflow, approval.decide_approval).
Given(r, d) ==
    \E i \in DOMAIN approvals :
        /\ approvals[i].step = d
        /\ \/ approvals[i].status = "APPROVED"
           \/ session[r].answers = i /\ session[r].decision = "APPROVED"
GatedStepWaits ==
    [][\A r \in Request : \A s \in session'[r].todo \ session[r].todo :
        \A d \in definition.deps[s] : Kind(d) = "APPROVAL" => Given(r, d)]_vars

\* A run is WAITING for something: a WAIT step, or a request that has not been
\* APPROVED (still PENDING, perhaps expired and then for ever, DENIED or CANCELLED).
\* However decisions, runners and restarts overlap, no approval leaves the run
\* WAITING without the request that comes next (approval.decide_approval).
WaitingLacksApproval ==
    row = "WAITING" =>
        \/ \E i \in DOMAIN approvals : approvals[i].status # "APPROVED"
        \/ \E s \in Step : Kind(s) = "WAIT"

\* When every failure compensates, a FAILED run has no SUCCESS step run left without
\* a compensation, although several runners may have worked on it: the row lock
\* taken for COMPENSATING makes the plan see them (execution.run_workflow). Not
\* when the trigger is repeated: a runner whose last status is the one it had read
\* does not write it.
FailedIsCompensated ==
    /\ row = "FAILED"
    /\ \A s \in Step : Kind(s) = "TASK" /\ definition.onFailure[s] = "compensate"
    /\ Cardinality({r \in Request : op[r] = "trigger"}) = 1
    => \A s \in Step : undone[s] >= done[s]

\* Two recoveries of different workers are at work together only if a lease
\* expired (recovery.acquire_lease). A worker that sends two shares its lease.
Recovering ==
    {r \in Request : op[r] = "recover" /\ pc[r] \in {"marking", "running", "ending"}}
RecoveryFenced ==
    (\A r, q \in Request : r # q => WorkerOf[r] # WorkerOf[q]) =>
        Cardinality(Recovering) <= 1 + expiries

\* Every turn of run_workflow disposes of the steps it took, and row locks and approval
\* locks make no cycle: when all steps are allowed an attempt, every request ends.
\* With a step that is not, its runner never ends, nor do those that wait for its locks.
AllTried == \A s \in Step : Kind(s) # "UNTRIED"
RequestsEnd == \A r \in Request : pc[r] # "idle" /\ AllTried ~> pc[r] = "ended"

\* "If approved, resume workflow if waiting": the run does not stay WAITING.
ApprovedRunGoesOn ==
    (\E i \in DOMAIN approvals : approvals[i].status = "APPROVED") ~> row # "WAITING"

=============================================================================
