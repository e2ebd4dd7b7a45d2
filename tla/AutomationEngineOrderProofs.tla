---------------------- MODULE AutomationEngineOrderProofs ----------------------
(***************************************************************************)
(* The order of the steps of AutomationEngine, what a resume skips and     *)
(* what a failure undoes, for every workflow, every number of threads,     *)
(* executions, resumes, crashes and interrupts.  The types come from       *)
(* AutomationEngineProofs.                                                 *)
(***************************************************************************)
EXTENDS AutomationEngineProofs

-----------------------------------------------------------------------------
(* The inductive invariants *)

\* The order of the declaration is the order of the execution, or no run is
\* ever resumed: build_resume_plan follows the declaration.
OrdersAgree == Declared = Order \/ MaxResumes = 0

\* q is what is left of the execution order.
IsRest(q) ==
    /\ Len(q) <= Len(Order)
    /\ \A i \in 1..Len(q) : q[i] = Order[Len(Order) - Len(q) + i]

\* The unconditional steps among the first n of the order are done.
DoneUpTo(n, done) ==
    \A j \in 1..n : Reads[Order[j]] = {} => Order[j] \in done

InLoop == {"step", "attempt", "backoff", "checkpoint"}

\* A run inside the loop has a rest of the order before it and has
\* performed what lies behind it.
OnPath(r, done) ==
    /\ IsRest(r.todo)
    /\ DoneUpTo(Len(Order) - Len(r.todo), done)
    /\ r.pc = "checkpoint" => Head(r.todo) \in done

ThreadsOnPath ==
    \A u \in Threads : thread[u].pc \in InLoop =>
        OnPath(thread[u], performed[thread[u].exec])

\* A checkpoint stands for every step up to its own.
CheckpointsBacked ==
    \A e \in Executions : \A p \in 1..Len(Order) :
        Order[p] \in checkpoints[e] => DoneUpTo(p, performed[e])

ResumeIsCounted ==
    /\ used["resume"] <= MaxResumes
    /\ MaxResumes = 0 => \A u \in Threads : ~thread[u].resume

OrderInv ==
    /\ ThreadsOnPath
    /\ CheckpointsBacked
    /\ ResumeIsCounted
    /\ CompletedMeansPerformed

\* No two calls of run are inside the same execution, and its record exists.
OneRunEach ==
    /\ \A u \in Threads : thread[u].pc # "idle" => record[thread[u].exec] # "none"
    /\ \A u, v \in Threads :
           thread[u].pc # "idle" /\ thread[v].pc # "idle"
               /\ thread[u].exec = thread[v].exec => u = v

\* The rest of a resumed run has no checkpoint and no step twice.
FreshAhead(r, saved) ==
    /\ \A i \in 1..Len(r.todo) : r.todo[i] \notin saved
    /\ \A i, j \in 1..Len(r.todo) : r.todo[i] = r.todo[j] => i = j

ResumeInv ==
    /\ OneRunEach
    /\ \A u \in Threads : thread[u].pc \in InLoop /\ thread[u].resume =>
           FreshAhead(thread[u], checkpoints[thread[u].exec])

\* A completed step is the one that failed now, still to undo, undone, or recorded.
Accounted(r, saved) ==
    \A i \in 1..Len(r.completed) :
        \/ r.completed[i] = Head(r.todo)
        \/ r.completed[i] \in r.toUndo
        \/ r.undone[r.completed[i]] # "none"
        \/ saved[r.completed[i]] # "none"

UndoInv ==
    \A u \in Threads : thread[u].pc = "compensate" =>
        Accounted(thread[u], compensations[thread[u].exec])

-----------------------------------------------------------------------------
(* What a step of a call of run does to its local variables *)

\* Every other call of run keeps its local variables.
OthersStay(t) == \A u \in Threads : u # t => thread'[u] = thread[u]

\* t goes to label with q as the rest of its loop, in the same run.
Moves(t, label, q) ==
    /\ OthersStay(t)
    /\ thread'[t].pc = label
    /\ thread'[t].todo = q
    /\ thread'[t].exec = thread[t].exec
    /\ thread'[t].resume = thread[t].resume

\* No record disappears and none becomes "completed".
RecordKept ==
    /\ \A e \in Executions : record[e] # "none" => record'[e] # "none"
    /\ \A e \in Executions : record'[e] = "completed" => record[e] = "completed"

\* No compensation record is taken back.
RollbacksKept ==
    \A e \in Executions : \A s \in Steps :
        compensations[e][s] # "none" => compensations'[e][s] # "none"

PerformedGrows == \A e \in Executions : performed[e] \subseteq performed'[e]

\* t leaves the loop, or waits at the gate.
Leaves(t) ==
    /\ OthersStay(t)
    /\ thread'[t].pc \in {"idle", "gate", "ensure", "create"}
    /\ thread'[t].exec = thread[t].exec
    /\ thread'[t].resume => thread[t].resume
    /\ checkpoints' = checkpoints
    /\ RecordKept

Enters(t) ==
    /\ At(t, "gate")
    /\ Moves(t, "step", Plan(t))
    /\ checkpoints' = checkpoints
    /\ RecordKept

Skips(t) ==
    /\ At(t, "step") /\ thread[t].todo # <<>>
    /\ Reads[Current(t)] # {}
    /\ Moves(t, "step", Tail(thread[t].todo))
    /\ checkpoints' = checkpoints
    /\ RecordKept

Tries(t) ==
    /\ thread[t].pc \in InLoop
    /\ \E label \in {"attempt", "backoff"} : Moves(t, label, thread[t].todo)
    /\ checkpoints' = checkpoints
    /\ RecordKept

Performs(t) ==
    /\ At(t, "attempt")
    /\ Moves(t, "checkpoint", thread[t].todo)
    /\ Current(t) \in performed'[thread[t].exec]
    /\ checkpoints' = checkpoints
    /\ RecordKept

Saves(t) ==
    /\ At(t, "checkpoint")
    /\ Moves(t, "step", Tail(thread[t].todo))
    /\ checkpoints' = [checkpoints EXCEPT ![thread[t].exec] = @ \cup {Current(t)}]
    /\ RecordKept

Completes(t) ==
    /\ At(t, "step") /\ thread[t].todo = <<>>
    /\ OthersStay(t)
    /\ thread'[t].pc = "idle" /\ thread'[t].exec = thread[t].exec
    /\ ~thread'[t].resume
    /\ checkpoints' = checkpoints
    /\ record' = [record EXCEPT ![thread[t].exec] = "completed"]

Fails(t) ==
    /\ thread[t].pc \in InLoop
    /\ Moves(t, "compensate", thread[t].todo)
    /\ thread'[t].completed = thread[t].completed
    /\ \A i \in 1..Len(thread[t].completed) :
           thread[t].completed[i] # Current(t) =>
               thread[t].completed[i] \in thread'[t].toUndo
    /\ checkpoints' = checkpoints
    /\ RecordKept

Undoes(t) ==
    /\ At(t, "compensate")
    /\ Moves(t, "compensate", thread[t].todo)
    /\ thread'[t].completed = thread[t].completed
    /\ \A s \in Steps :
           /\ s \in thread[t].toUndo =>
                  s \in thread'[t].toUndo \/ thread'[t].undone[s] # "none"
           /\ thread[t].undone[s] # "none" =>
                  \/ thread'[t].undone[s] # "none"
                  \/ compensations'[thread[t].exec][s] # "none"
    /\ checkpoints' = checkpoints
    /\ RecordKept

Kinds(t) ==
    \/ Leaves(t) \/ Enters(t) \/ Skips(t) \/ Tries(t) \/ Performs(t)
    \/ Saves(t) \/ Completes(t) \/ Fails(t) \/ Undoes(t)

\* run returns with a status other than "completed".
LEMMA FinishLeaves ==
  ASSUME Inv, NEW t \in Threads, NEW status \in Statuses \ {"none", "completed"},
         Finish(t, status), checkpoints' = checkpoints
  PROVE  Leaves(t)
  <1>1. OthersStay(t)
    BY DEF Inv, ThreadTypes, Finish, Becomes, OthersStay
  <1>2. /\ thread'[t].pc = "idle" /\ thread'[t].exec = thread[t].exec
        /\ ~thread'[t].resume
    BY DEF Inv, ThreadTypes, Thread, Finish, Becomes, Idle
  <1>3. RecordKept
    BY DEF Inv, StoreTypes, ThreadTypes, Thread, Finish, RecordKept
  <1>4. QED
    BY <1>1, <1>2, <1>3 DEF Leaves

\* The gate: requests are looked for and created.
LEMMA GateKinds ==
  ASSUME Inv, NEW t \in Threads,
         \/ PassGate(t) \/ Blocked(t) \/ EnsureRequest(t) \/ CreateRequest(t)
         \/ AwaitApproval(t)
  PROVE  Leaves(t)
  <1>1. CASE PassGate(t) \/ Blocked(t) \/ EnsureRequest(t) \/ CreateRequest(t)
    <2>1. record' = record /\ checkpoints' = checkpoints
      BY <1>1 DEF PassGate, Blocked, EnsureRequest, CreateRequest, stores
    <2>2. /\ thread'[t].pc \in {"gate", "ensure", "create"}
          /\ thread'[t].exec = thread[t].exec
          /\ thread'[t].resume = thread[t].resume
      <3>1. CASE Blocked(t)
        BY <3>1 DEF Blocked, Becomes, Inv, ThreadTypes, Thread
      <3>2. CASE EnsureRequest(t)
        <4>1. /\ thread[t].pc = "ensure"
              /\ \/ Becomes(t, [thread[t] EXCEPT !.pc = "create"])
                 \/ Becomes(t, [thread[t] EXCEPT !.todo = Tail(@)])
          BY <3>2 DEF EnsureRequest, At
        <4>2. QED
          BY <4>1 DEF Becomes, Inv, ThreadTypes, Thread
      <3>3. CASE CreateRequest(t)
        BY <3>3 DEF CreateRequest, Becomes, Inv, ThreadTypes, Thread
      <3>4. CASE PassGate(t)
        BY <3>4 DEF PassGate, At, Becomes, Inv, ThreadTypes, Thread
      <3>5. QED
        BY <1>1, <3>1, <3>2, <3>3, <3>4
    <2>3. OthersStay(t)
      BY <1>1 DEF PassGate, Blocked, EnsureRequest, CreateRequest, Becomes, Inv,
                  ThreadTypes, OthersStay
    <2>4. QED
      BY <2>1, <2>2, <2>3 DEF Leaves, RecordKept
  <1>2. CASE AwaitApproval(t)
    BY <1>2, FinishLeaves DEF AwaitApproval, BlockedStatus, Statuses
  <1>3. QED
    BY <1>1, <1>2

LEMMA StartKind ==
  ASSUME Inv, NEW t \in Threads, Start(t)
  PROVE  Enters(t)
  <1>1. Moves(t, "step", Plan(t))
    BY DEF Inv, ThreadTypes, Thread, Start, Becomes, Moves, OthersStay
  <1>2. RecordKept
    BY DEF Inv, StoreTypes, ThreadTypes, Thread, Start, RecordKept
  <1>3. QED
    BY <1>1, <1>2 DEF Enters, Start

LEMMA SkipKind ==
  ASSUME Inv, NEW t \in Threads, SkipStep(t)
  PROVE  Skips(t)
  <1>1. Moves(t, "step", Tail(thread[t].todo))
    BY DEF Inv, ThreadTypes, Thread, SkipStep, HasStep, At, Becomes, Moves,
           OthersStay
  <1>2. QED
    BY <1>1 DEF Skips, SkipStep, HasStep, ConditionMayFail, stores, RecordKept

\* A step's gate is open, or the delay before a retry is over.
LEMMA TryKinds ==
  ASSUME Inv, NEW t \in Threads, BeginStep(t) \/ Backoff(t)
  PROVE  Tries(t)
  <1>1. Moves(t, "attempt", thread[t].todo)
    BY DEF Inv, ThreadTypes, Thread, BeginStep, Backoff, HasStep, At, Becomes,
           Moves, OthersStay
  <1>2. QED
    BY <1>1 DEF Tries, BeginStep, Backoff, HasStep, At, InLoop, stores, RecordKept

\* A failing step plans the compensation of the others.
LEMMA FailMoves ==
  ASSUME Inv, NEW t \in Threads, FailStep(t)
  PROVE  /\ Moves(t, "compensate", thread[t].todo)
         /\ thread'[t].completed = thread[t].completed
         /\ \A i \in 1..Len(thread[t].completed) :
                thread[t].completed[i] # Current(t) =>
                    thread[t].completed[i] \in thread'[t].toUndo
  <1> DEFINE done == {thread[t].completed[i] : i \in 1..Len(thread[t].completed)}
  <1>1. /\ Moves(t, "compensate", thread[t].todo)
        /\ thread'[t].completed = thread[t].completed
        /\ thread'[t].toUndo = done \ {Current(t)}
    BY DEF Inv, ThreadTypes, Thread, FailStep, Becomes, Moves, OthersStay,
           CompensationPlan
  <1>2. QED
    BY <1>1

LEMMA RefuseKind ==
  ASSUME Inv, NEW t \in Threads, RefuseStep(t)
  PROVE  Fails(t)
  BY FailMoves DEF RefuseStep, HasStep, At, InLoop, Fails, stores, RecordKept

\* record_step only ever saves "running".
LEMMA RecordStepKeeps ==
  ASSUME Inv, NEW t \in Threads, NEW result,
         RecordStep(t, result) \/ record' = record
  PROVE  RecordKept
  BY DEF Inv, StoreTypes, ThreadTypes, Thread, RecordStep, RecordKept

LEMMA ReturnKind ==
  ASSUME Inv, NEW t \in Threads, HandlerReturns(t)
  PROVE  Performs(t)
  <1>1. Moves(t, "checkpoint", thread[t].todo)
    BY DEF Inv, ThreadTypes, Thread, HandlerReturns, Becomes, Moves, OthersStay
  <1>2. RecordKept
    BY RecordStepKeeps DEF HandlerReturns
  <1>3. thread[t].exec \in Executions
    BY DEF Inv, ThreadTypes, Thread
  <1>4. Current(t) \in performed'[thread[t].exec]
    BY <1>3 DEF Inv, StoreTypes, HandlerReturns, Perform
  <1>5. QED
    BY <1>1, <1>2, <1>4 DEF Performs, HandlerReturns

\* An attempt that is not a success.
LEMMA AttemptKinds ==
  ASSUME Inv, NEW t \in Threads, At(t, "attempt"), checkpoints' = checkpoints,
         NEW transient \in BOOLEAN, Retry(t, transient) \/ GiveUp(t, transient)
  PROVE  Tries(t) \/ Fails(t)
  <1>1. RecordKept
    BY RecordStepKeeps DEF Retry, GiveUp
  <1>2. CASE Retry(t, transient)
    <2>1. Moves(t, "backoff", thread[t].todo)
      BY <1>2 DEF Inv, ThreadTypes, Thread, Retry, Becomes, Moves, OthersStay
    <2>2. QED
      BY <1>1, <2>1 DEF Tries, InLoop, At
  <1>3. CASE GiveUp(t, transient)
    BY <1>1, <1>3, FailMoves DEF GiveUp, Fails, InLoop, At
  <1>4. QED
    BY <1>2, <1>3

LEMMA SaveKind ==
  ASSUME Inv, NEW t \in Threads, SaveCheckpoint(t)
  PROVE  Saves(t)
  <1>1. Moves(t, "step", Tail(thread[t].todo))
    BY DEF Inv, ThreadTypes, Thread, SaveCheckpoint, Becomes, Moves, OthersStay
  <1>2. QED
    BY <1>1 DEF Saves, SaveCheckpoint, RecordKept

LEMMA CompleteKind ==
  ASSUME Inv, NEW t \in Threads, Complete(t)
  PROVE  Completes(t)
  <1>1. OthersStay(t)
    BY DEF Inv, ThreadTypes, Complete, Finish, Becomes, OthersStay
  <1>2. /\ thread'[t].pc = "idle" /\ thread'[t].exec = thread[t].exec
        /\ ~thread'[t].resume
    BY DEF Inv, ThreadTypes, Thread, Complete, Finish, Becomes, Idle
  <1>3. QED
    BY <1>1, <1>2 DEF Completes, Complete, Finish

LEMMA UndoKind ==
  ASSUME Inv, NEW t \in Threads, NEW s \in Steps, Compensate(t, s)
  PROVE  Undoes(t)
  <1>1. /\ Moves(t, "compensate", thread[t].todo)
        /\ thread'[t].completed = thread[t].completed
        /\ thread'[t].toUndo = thread[t].toUndo \ {s}
        /\ thread'[t].undone = [thread[t].undone EXCEPT ![s] = RollbackOutcome(s)]
    BY DEF Inv, ThreadTypes, Thread, Compensate, Becomes, Moves, OthersStay, At
  <1>2. thread[t].undone \in [Steps -> Rollbacks] /\ RollbackOutcome(s) # "none"
    BY DEF Inv, ThreadTypes, Thread, RollbackOutcome
  <1>3. \A d \in Steps :
          /\ d \in thread[t].toUndo =>
                 d \in thread'[t].toUndo \/ thread'[t].undone[d] # "none"
          /\ thread[t].undone[d] # "none" => thread'[t].undone[d] # "none"
    BY <1>1, <1>2
  <1>4. QED
    BY <1>1, <1>3 DEF Undoes, Compensate, stores, RecordKept

LEMMA RecordKind ==
  ASSUME Inv, NEW t \in Threads, NEW s \in Steps, RecordRollback(t, s)
  PROVE  Undoes(t) /\ RollbacksKept
  <1>1. /\ Moves(t, "compensate", thread[t].todo)
        /\ thread'[t].completed = thread[t].completed
        /\ thread'[t].toUndo = thread[t].toUndo
        /\ thread'[t].undone = [thread[t].undone EXCEPT ![s] = "none"]
    BY DEF Inv, ThreadTypes, Thread, RecordRollback, Becomes, Moves, OthersStay, At
  <1>2. /\ thread[t].exec \in Executions
        /\ thread[t].undone \in [Steps -> Rollbacks]
        /\ compensations \in [Executions -> [Steps -> Rollbacks]]
    BY DEF Inv, StoreTypes, ThreadTypes, Thread
  <1>3. /\ compensations'[thread[t].exec][s] # "none"
        /\ RollbacksKept
    BY <1>2 DEF RecordRollback, RollbacksKept
  <1>4. \A d \in Steps :
          thread[t].undone[d] # "none" =>
              \/ thread'[t].undone[d] # "none"
              \/ compensations'[thread[t].exec][d] # "none"
    BY <1>1, <1>2, <1>3
  <1>5. QED
    BY <1>1, <1>3, <1>4 DEF Undoes, RecordRollback, RecordKept

\* Every step of a call of run is of one of these kinds.
LEMMA ProceedKinds ==
  ASSUME Inv, NEW t \in Threads, Proceed(t)
  PROVE  /\ Kinds(t)
         /\ PerformedGrows /\ interrupted' = interrupted /\ used' = used
  <1>1. CASE PassGate(t) \/ Start(t) \/ Blocked(t) \/ EnsureRequest(t)
             \/ CreateRequest(t) \/ AwaitApproval(t)
    <2>1. Kinds(t)
      BY <1>1, StartKind, GateKinds DEF Kinds
    <2>2. UNCHANGED <<performed, interrupted, used>>
      BY <1>1 DEF PassGate, Start, Blocked, EnsureRequest, CreateRequest, AwaitApproval,
                  history
    <2>3. QED
      BY <2>1, <2>2 DEF PerformedGrows
  <1>2. CASE SkipStep(t) \/ BeginStep(t) \/ RefuseStep(t) \/ Backoff(t)
             \/ SaveCheckpoint(t) \/ Complete(t)
    <2>1. Kinds(t)
      BY <1>2, SkipKind, TryKinds, RefuseKind, SaveKind, CompleteKind DEF Kinds
    <2>2. UNCHANGED <<performed, interrupted, used>>
      BY <1>2 DEF SkipStep, BeginStep, RefuseStep, Backoff, SaveCheckpoint,
                  Complete, history
    <2>3. QED
      BY <2>1, <2>2 DEF PerformedGrows
  <1>3. CASE HandlerReturns(t) \/ HandlerTimesOut(t)
    <2>1. Kinds(t)
      <3>1. CASE HandlerReturns(t)
        BY <3>1, ReturnKind DEF Kinds
      <3>2. CASE HandlerTimesOut(t)
        <4>1. TRUE \in BOOLEAN
          OBVIOUS
        <4>2. QED
          BY <3>2, <4>1, AttemptKinds DEF HandlerTimesOut, Kinds
      <3>3. QED
        BY <1>3, <3>1, <3>2
    <2>2. Perform(t) /\ UNCHANGED <<interrupted, used>>
      BY <1>3 DEF HandlerReturns, HandlerTimesOut
    <2>3. PerformedGrows
      BY <2>2 DEF Perform, PerformedGrows, Inv, StoreTypes
    <2>4. QED
      BY <2>1, <2>2, <2>3
  <1>4. ASSUME NEW transient \in BOOLEAN, HandlerRaises(t, transient)
        PROVE  Kinds(t) /\ UNCHANGED <<performed, interrupted, used>>
    BY <1>4, AttemptKinds DEF HandlerRaises, history, Kinds
  <1>5. ASSUME NEW s \in Steps, Compensate(t, s) \/ RecordRollback(t, s)
        PROVE  Kinds(t) /\ UNCHANGED <<performed, interrupted, used>>
    BY <1>5, UndoKind, RecordKind DEF Compensate, RecordRollback, history, Kinds
  <1>6. CASE FinishFailed(t)
    <2>1. Leaves(t)
      BY <1>6, FinishLeaves DEF FinishFailed, Statuses
    <2>2. QED
      BY <1>6, <2>1 DEF FinishFailed, history, Kinds, PerformedGrows
  <1>7. QED
    BY <1>1, <1>2, <1>3, <1>4, <1>5, <1>6 DEF Proceed, PerformedGrows

-----------------------------------------------------------------------------
(* The order of the steps *)

\* Order lists every step once.
LEMMA OrderFacts ==
  /\ Order \in Seq(Steps) /\ Len(Order) \in Nat
  /\ \A s \in Steps : \E i \in 1..Len(Order) : Order[i] = s
  /\ \A i, j \in 1..Len(Order) : Order[i] = Order[j] => i = j
  <1>1. IsEnumeration(Order, Steps)
    BY WorkflowAssumption
  <1>2. Order \in Seq(Steps)
    BY <1>1 DEF IsEnumeration
  <1>3. QED
    BY <1>1, <1>2 DEF IsEnumeration

\* The first step is done with: one fewer is left, one more lies behind.
LEMMA RestAdvances ==
  ASSUME NEW q \in Seq(Steps), q # <<>>, IsRest(q)
  PROVE  /\ IsRest(Tail(q))
         /\ Len(Order) - Len(q) + 1 \in 1..Len(Order)
         /\ Head(q) = Order[Len(Order) - Len(q) + 1]
         /\ Len(Order) - Len(Tail(q)) = Len(Order) - Len(q) + 1
  <1>1. Len(Order) \in Nat /\ Len(q) \in Nat /\ Len(q) >= 1
    <2>1. Len(q) \in Nat /\ Len(q) >= 1
      OBVIOUS
    <2>2. QED
      BY <2>1, OrderFacts
  <1>2. /\ Len(Tail(q)) = Len(q) - 1
        /\ \A i \in 1..Len(Tail(q)) : Tail(q)[i] = q[i + 1]
    BY <1>1
  <1>3. Head(q) = q[1]
    BY <1>1
  <1>4. IsRest(Tail(q))
    <2>1. ASSUME NEW i \in 1..Len(Tail(q))
          PROVE  Tail(q)[i] = Order[Len(Order) - Len(Tail(q)) + i]
      <3>1. i + 1 \in 1..Len(q) /\ Tail(q)[i] = q[i + 1]
        BY <1>1, <1>2
      <3>2. q[i + 1] = Order[Len(Order) - Len(q) + (i + 1)]
        BY <3>1 DEF IsRest
      <3>3. Len(Order) - Len(q) + (i + 1) = Len(Order) - Len(Tail(q)) + i
        BY <1>1, <1>2
      <3>4. QED
        BY <3>1, <3>2, <3>3
    <2>2. QED
      BY <1>1, <1>2, <2>1 DEF IsRest
  <1>5. QED
    BY <1>1, <1>2, <1>3, <1>4 DEF IsRest

\* More effects keep what lies behind done.
LEMMA DoneMonotone ==
  ASSUME NEW n, NEW d1, NEW d2, d1 \subseteq d2, DoneUpTo(n, d1)
  PROVE  DoneUpTo(n, d2)
  BY DEF DoneUpTo

LEMMA OnPathMonotone ==
  ASSUME NEW r, NEW d1, NEW d2, d1 \subseteq d2, OnPath(r, d1)
  PROVE  OnPath(r, d2)
  BY DoneMonotone DEF OnPath

\* The last declared step with a checkpoint.
LEMMA ResumePointIsLast ==
  ASSUME NEW e
  PROVE  /\ ResumePoint(e) > 0 => Declared[ResumePoint(e)] \in checkpoints[e]
         /\ \A i \in 1..Len(Declared) :
                Declared[i] \in checkpoints[e] => i <= ResumePoint(e)
  <1> DEFINE done == {i \in 1..Len(Declared) : Declared[i] \in checkpoints[e]}
  <1>1. Len(Declared) \in Nat
    BY WorkflowAssumption DEF IsEnumeration
  <1>2. CASE done = {}
    BY <1>2 DEF ResumePoint
  <1>3. CASE done # {}
    <2>1. \E i \in done : \A j \in done : j <= i
      <3>1. done \in SUBSET (1..Len(Declared))
        OBVIOUS
      <3> HIDE DEF done
      <3>2. QED
        BY <1>1, <1>3, <3>1, GreatestExists
    <2>2. ResumePoint(e) = CHOOSE i \in done : \A j \in done : j <= i
      BY <1>3 DEF ResumePoint
    <2>3. ResumePoint(e) \in done /\ \A j \in done : j <= ResumePoint(e)
      <3> HIDE DEF done
      <3>1. QED
        BY <2>1, <2>2
    <2>4. QED
      BY <2>3
  <1>4. QED
    BY <1>2, <1>3

\* A resumed run's plan is what is left of the declaration.
LEMMA ResumePlan ==
  ASSUME NEW t \in Threads, thread[t].resume
  PROVE  LET p == ResumePoint(thread[t].exec) IN
         /\ p \in 0..Len(Declared) /\ Len(Plan(t)) = Len(Declared) - p
         /\ \A i \in 1..Len(Plan(t)) : Plan(t)[i] = Declared[p + i]
  <1> DEFINE p == ResumePoint(thread[t].exec)
  <1>1. Declared \in Seq(Steps) /\ Len(Declared) \in Nat
    BY WorkflowAssumption DEF IsEnumeration
  <1>2. p \in 0..Len(Declared)
    BY ResumePointType
  <1>3. Plan(t) = SubSeq(Declared, p + 1, Len(Declared))
    BY DEF Plan
  <1> HIDE DEF p
  <1>4. /\ Len(Plan(t)) = Len(Declared) - p
        /\ \A i \in 1..Len(Plan(t)) : Plan(t)[i] = Declared[p + i]
    BY <1>1, <1>2, <1>3
  <1>5. QED
    BY <1>2, <1>4 DEF p

\* A run starts on a rest of the order with everything before it done: at
\* the first step, or after the last step with a checkpoint.
LEMMA PlanOnPath ==
  ASSUME OrdersAgree, ThreadTypes, CheckpointsBacked, ResumeIsCounted,
         NEW t \in Threads
  PROVE  /\ IsRest(Plan(t))
         /\ DoneUpTo(Len(Order) - Len(Plan(t)), performed[thread[t].exec])
  <1> DEFINE x == thread[t].exec
             p == ResumePoint(x)
  <1>1. Len(Order) \in Nat /\ x \in Executions
    BY WorkflowAssumption DEF IsEnumeration, ThreadTypes, Thread
  <1>2. CASE thread[t].resume
    <2>1. Declared = Order
      BY <1>2 DEF OrdersAgree, ResumeIsCounted
    <2>2. /\ p \in 0..Len(Order) /\ Len(Plan(t)) = Len(Order) - p
          /\ \A i \in 1..Len(Plan(t)) : Plan(t)[i] = Order[p + i]
      BY <1>2, <2>1, ResumePlan
    <2>3. p > 0 => Order[p] \in checkpoints[x]
      BY <2>1, ResumePointIsLast
    <2> HIDE DEF p
    <2>4. IsRest(Plan(t))
      BY <1>1, <2>2 DEF IsRest
    <2>5. Len(Order) - Len(Plan(t)) = p
      BY <1>1, <2>2
    <2>6. DoneUpTo(p, performed[x])
      <3>1. CASE p = 0
        BY <3>1 DEF DoneUpTo
      <3>2. CASE p # 0
        <4>1. p > 0 /\ p \in 1..Len(Order)
          BY <1>1, <2>2, <3>2
        <4>2. QED
          BY <1>1, <2>3, <4>1 DEF CheckpointsBacked
      <3>3. QED
        BY <3>1, <3>2
    <2>7. QED
      BY <2>4, <2>5, <2>6
  <1>3. CASE ~thread[t].resume
    <2>1. Plan(t) = Order
      BY <1>3 DEF Plan
    <2>2. QED
      BY <1>1, <2>1 DEF IsRest, DoneUpTo
  <1>4. QED
    BY <1>2, <1>3

\* The first step is skipped, being conditional, or done.
LEMMA DoneAdvances ==
  ASSUME NEW q \in Seq(Steps), q # <<>>, IsRest(q), NEW done,
         DoneUpTo(Len(Order) - Len(q), done),
         Reads[Head(q)] # {} \/ Head(q) \in done
  PROVE  DoneUpTo(Len(Order) - Len(Tail(q)), done)
  <1>1. /\ Len(Order) \in Nat /\ Len(q) \in Nat /\ Len(q) <= Len(Order)
        /\ Head(q) = Order[Len(Order) - Len(q) + 1]
        /\ Len(Order) - Len(Tail(q)) = Len(Order) - Len(q) + 1
    <2>1. Len(Order) \in Nat /\ Len(q) \in Nat /\ Len(q) <= Len(Order)
      BY OrderFacts DEF IsRest
    <2>2. QED
      BY <2>1, RestAdvances
  <1>2. ASSUME NEW j \in 1..(Len(Order) - Len(Tail(q))), Reads[Order[j]] = {}
        PROVE  Order[j] \in done
    <2>1. CASE j \in 1..(Len(Order) - Len(q))
      BY <1>2, <2>1 DEF DoneUpTo
    <2>2. CASE j = Len(Order) - Len(q) + 1
      BY <1>1, <1>2, <2>2
    <2>3. QED
      BY <1>1, <2>1, <2>2
  <1>3. QED
    BY <1>2 DEF DoneUpTo

\* Within the loop the step in hand exists.
LEMMA InHand ==
  ASSUME Inv, NEW t \in Threads,
         thread[t].pc \in {"attempt", "backoff", "checkpoint"}
  PROVE  thread[t].todo # <<>>
  BY DEF Inv, ThreadsOK, ThreadOK

LEMMA RestType ==
  ASSUME Inv, NEW t \in Threads
  PROVE  /\ thread[t].todo \in Seq(Steps)
         /\ thread[t].exec \in Executions
         /\ Current(t) = Head(thread[t].todo)
  BY DEF Inv, ThreadTypes, Thread, Current

\* A step of a call of run keeps every call inside the loop on its path.
LEMMA PathKept ==
  ASSUME Inv, OrderInv, OrdersAgree, NEW t \in Threads, Kinds(t), PerformedGrows
  PROVE  ThreadsOnPath'
  <1> USE RestType
  <1> DEFINE x == thread[t].exec
             done == performed[x]
  <1>0. done \subseteq performed'[x]
    BY DEF PerformedGrows
  <1>1. ASSUME NEW u \in Threads, u # t, thread'[u].pc \in InLoop
        PROVE  OnPath(thread'[u], performed'[thread'[u].exec])
    <2>1. thread'[u] = thread[u]
      BY <1>1 DEF Kinds, Leaves, Enters, Skips, Tries, Performs, Saves,
                  Completes, Fails, Undoes, Moves, OthersStay
    <2>2. OnPath(thread[u], performed[thread[u].exec])
      BY <1>1, <2>1 DEF OrderInv, ThreadsOnPath
    <2>3. performed[thread[u].exec] \subseteq performed'[thread[u].exec]
      BY DEF PerformedGrows
    <2>4. QED
      BY <2>1, <2>2, <2>3, OnPathMonotone
  <1>2. ASSUME thread'[t].pc \in InLoop
        PROVE  OnPath(thread'[t], performed'[thread'[t].exec])
    <2>1. CASE Enters(t)
      <3>1. IsRest(Plan(t)) /\ DoneUpTo(Len(Order) - Len(Plan(t)), done)
        BY PlanOnPath DEF Inv, OrderInv
      <3>2. DoneUpTo(Len(Order) - Len(Plan(t)), performed'[x])
        BY <1>0, <3>1, DoneMonotone
      <3>3. QED
        BY <2>1, <3>1, <3>2 DEF Enters, Moves, OnPath
    <2>2. CASE Skips(t) \/ Saves(t)
      <3>1. thread[t].todo # <<>> /\ thread[t].pc \in InLoop
        BY <2>2, InHand DEF Skips, Saves, At, InLoop
      <3>2. OnPath(thread[t], done)
        BY <3>1 DEF OrderInv, ThreadsOnPath
      <3>3. Reads[Current(t)] # {} \/ Current(t) \in done
        BY <2>2, <3>2 DEF Skips, Saves, At, OnPath
      <3>4. /\ IsRest(Tail(thread[t].todo))
            /\ DoneUpTo(Len(Order) - Len(Tail(thread[t].todo)), done)
        BY <3>1, <3>2, <3>3, RestAdvances, DoneAdvances DEF OnPath
      <3>5. DoneUpTo(Len(Order) - Len(Tail(thread[t].todo)), performed'[x])
        BY <1>0, <3>4, DoneMonotone
      <3>6. /\ thread'[t].pc = "step" /\ thread'[t].exec = x
            /\ thread'[t].todo = Tail(thread[t].todo)
        BY <2>2 DEF Skips, Saves, Moves
      <3>7. QED
        BY <3>4, <3>5, <3>6 DEF OnPath
    <2>3. CASE Tries(t) \/ Performs(t)
      <3>1. thread[t].pc \in InLoop
        BY <2>3 DEF Tries, Performs, At, InLoop
      <3>2. OnPath(thread[t], done)
        BY <3>1 DEF OrderInv, ThreadsOnPath
      <3>3. /\ thread'[t].todo = thread[t].todo /\ thread'[t].exec = x
            /\ thread'[t].pc = "checkpoint" => Current(t) \in performed'[x]
        BY <2>3 DEF Tries, Performs, Moves
      <3>4. DoneUpTo(Len(Order) - Len(thread[t].todo), performed'[x])
        BY <1>0, <3>2, DoneMonotone DEF OnPath
      <3>5. QED
        BY <3>2, <3>3, <3>4 DEF OnPath
    <2>4. CASE Leaves(t) \/ Completes(t) \/ Fails(t) \/ Undoes(t)
      BY <1>2, <2>4 DEF Leaves, Completes, Fails, Undoes, Moves, InLoop
    <2>5. QED
      BY <2>1, <2>2, <2>3, <2>4 DEF Kinds
  <1>3. QED
    BY <1>1, <1>2 DEF ThreadsOnPath

\* A new checkpoint is one of a step that is done, as are those before it.
LEMMA BackingKept ==
  ASSUME Inv, OrderInv, NEW t \in Threads, Kinds(t), PerformedGrows
  PROVE  CheckpointsBacked'
  <1> USE RestType
  <1> DEFINE x == thread[t].exec
  <1>1. ASSUME NEW e \in Executions, NEW p \in 1..Len(Order),
               Order[p] \in checkpoints[e]
        PROVE  DoneUpTo(p, performed'[e])
    <2>1. DoneUpTo(p, performed[e])
      BY <1>1 DEF OrderInv, CheckpointsBacked
    <2>2. QED
      BY <2>1, DoneMonotone DEF PerformedGrows
  <1>2. CASE Saves(t)
    <2>1. /\ thread[t].todo # <<>> /\ thread[t].pc \in InLoop
          /\ thread[t].pc = "checkpoint"
      BY <1>2, InHand DEF Saves, At, InLoop
    <2>2. OnPath(thread[t], performed[x])
      BY <2>1 DEF OrderInv, ThreadsOnPath
    <2>3. DEFINE k == Len(Order) - Len(thread[t].todo) + 1
    <2>4. /\ k \in 1..Len(Order) /\ Order[k] = Current(t)
          /\ Len(Order) - Len(Tail(thread[t].todo)) = k
      BY <2>1, <2>2, RestAdvances DEF OnPath
    <2>5. DoneUpTo(k, performed[x])
      BY <2>1, <2>2, <2>4, DoneAdvances DEF OnPath
    <2> HIDE DEF k
    <2>6. ASSUME NEW e \in Executions, NEW p \in 1..Len(Order),
                 Order[p] \in checkpoints'[e], Order[p] \notin checkpoints[e]
          PROVE  DoneUpTo(p, performed'[e])
      <3>1. e = x /\ Order[p] = Current(t)
        BY <1>2, <2>6 DEF Saves, Inv, StoreTypes
      <3>2. p = k
        BY <2>4, <3>1, OrderFacts
      <3>3. performed[x] \subseteq performed'[x]
        BY DEF PerformedGrows
      <3>4. QED
        BY <2>5, <3>1, <3>2, <3>3, DoneMonotone
    <2>7. QED
      BY <1>1, <2>6 DEF CheckpointsBacked
  <1>3. CASE ~Saves(t)
    <2>1. checkpoints' = checkpoints
      BY <1>3 DEF Kinds, Leaves, Enters, Skips, Tries, Performs, Completes,
                  Fails, Undoes
    <2>2. QED
      BY <1>1, <2>1 DEF CheckpointsBacked
  <1>4. QED
    BY <1>2, <1>3

\* A run that completes has every unconditional step behind it.
LEMMA CompletionKept ==
  ASSUME Inv, OrderInv, NEW t \in Threads, Kinds(t), PerformedGrows,
         interrupted' = interrupted
  PROVE  CompletedMeansPerformed'
  <1> USE RestType
  <1> DEFINE x == thread[t].exec
  <1>1. ASSUME NEW e \in Executions, record[e] = "completed",
               e \notin interrupted, NEW s \in Steps, Reads[s] = {}
        PROVE  s \in performed'[e]
    BY <1>1 DEF OrderInv, CompletedMeansPerformed, PerformedGrows
  <1>2. CASE Completes(t)
    <2>1. /\ thread[t].todo = <<>> /\ thread[t].pc \in InLoop
      BY <1>2 DEF Completes, At, InLoop
    <2>2. OnPath(thread[t], performed[x])
      BY <2>1 DEF OrderInv, ThreadsOnPath
    <2>3. DoneUpTo(Len(Order), performed[x])
      <3>1. Len(Order) \in Nat /\ Len(thread[t].todo) = 0
        BY <2>1, OrderFacts
      <3>2. Len(Order) - Len(thread[t].todo) = Len(Order)
        BY <3>1
      <3>3. QED
        BY <2>2, <3>2 DEF OnPath
    <2>4. ASSUME NEW s \in Steps, Reads[s] = {} PROVE s \in performed'[x]
      <3>1. PICK j \in 1..Len(Order) : Order[j] = s
        BY OrderFacts
      <3>2. s \in performed[x]
        BY <2>3, <2>4, <3>1 DEF DoneUpTo
      <3>3. QED
        BY <3>2 DEF PerformedGrows
    <2>5. \A e \in Executions : e = x \/ record'[e] = record[e]
      BY <1>2 DEF Completes, Inv, StoreTypes
    <2>6. QED
      BY <1>1, <2>4, <2>5 DEF CompletedMeansPerformed
  <1>3. CASE ~Completes(t)
    <2>1. RecordKept
      BY <1>3 DEF Kinds, Leaves, Enters, Skips, Tries, Performs, Saves,
                  Fails, Undoes
    <2>2. QED
      BY <1>1, <2>1 DEF CompletedMeansPerformed, RecordKept
  <1>4. QED
    BY <1>2, <1>3

\* Resumes are counted: with none allowed no call is a resumed one.
LEMMA CountKept ==
  ASSUME Inv, ResumeIsCounted, NEW t \in Threads, Kinds(t), used' = used
  PROVE  ResumeIsCounted'
  <1>1. ASSUME NEW u \in Threads, thread'[u].resume PROVE thread[u].resume
    BY <1>1 DEF Kinds, Leaves, Enters, Skips, Tries, Performs, Saves,
                Completes, Fails, Undoes, Moves, OthersStay
  <1>2. QED
    BY <1>1 DEF ResumeIsCounted

\* A call of run begins, or ends by an interrupt or a crash: nobody enters
\* the loop, nothing is performed or saved.
LEMMA OutsideKeepsOrder ==
  ASSUME Inv, OrderInv, UNCHANGED <<checkpoints, performed>>,
         \A u \in Threads : thread'[u].pc \in InLoop => thread'[u] = thread[u],
         \A e \in Executions : record'[e] = "completed" /\ e \notin interrupted' =>
             record[e] = "completed" /\ e \notin interrupted,
         ResumeIsCounted'
  PROVE  OrderInv'
  <1>1. ThreadsOnPath'
    BY DEF OrderInv, ThreadsOnPath
  <1>2. CheckpointsBacked'
    BY DEF OrderInv, CheckpointsBacked
  <1>3. CompletedMeansPerformed'
    BY DEF OrderInv, CompletedMeansPerformed
  <1>4. QED
    BY <1>1, <1>2, <1>3 DEF OrderInv

\* A call of run begins.
LEMMA BeginFields ==
  ASSUME Inv, NEW t \in Threads, NEW e \in Executions, NEW resume \in BOOLEAN,
         Begin(t, e, resume)
  PROVE  /\ OthersStay(t)
         /\ thread'[t].pc = "gate" /\ thread'[t].exec = e
         /\ thread'[t].resume = resume
         /\ record' = [record EXCEPT ![e] = "queued"]
         /\ UNCHANGED <<checkpoints, performed, interrupted>>
  BY DEF Inv, ThreadTypes, Begin, Becomes, Idle, OthersStay, history

\* An interrupt ends the call of run.
LEMMA InterruptFields ==
  ASSUME Inv, NEW t \in Threads, Interrupt(t)
  PROVE  /\ OthersStay(t)
         /\ thread'[t].pc = "idle" /\ ~thread'[t].resume
         /\ UNCHANGED <<checkpoints, performed>>
         /\ interrupted' = interrupted \cup {thread[t].exec}
         /\ \A e \in Executions : e # thread[t].exec => record'[e] = record[e]
         /\ \A e \in Executions : record[e] # "none" => record'[e] # "none"
         /\ used'["resume"] = used["resume"]
  <1>1. PICK status \in {"completed", "failed"} :
            Finish(t, status)
    BY DEF Interrupt
  <1>2. OthersStay(t) /\ thread'[t].pc = "idle" /\ ~thread'[t].resume
    BY <1>1 DEF Inv, ThreadTypes, Thread, Finish, Becomes, Idle, OthersStay
  <1>3. /\ \A e \in Executions : e # thread[t].exec => record'[e] = record[e]
        /\ \A e \in Executions : record[e] # "none" => record'[e] # "none"
    BY <1>1 DEF Inv, StoreTypes, ThreadTypes, Thread, Finish
  <1>4. used'["resume"] = used["resume"]
    BY DEF Interrupt, Use, Inv, StoreTypes, Bounded
  <1>5. QED
    BY <1>2, <1>3, <1>4 DEF Interrupt

\* After a crash every thread is idle.
LEMMA CrashFields ==
  ASSUME Inv, Crash
  PROVE  /\ \A u \in Threads : thread'[u].pc = "idle" /\ ~thread'[u].resume
         /\ UNCHANGED <<record, checkpoints, performed, interrupted>>
         /\ used'["resume"] = used["resume"]
  BY DEF Crash, Idle, Use, Inv, StoreTypes, Bounded, stores, history

LEMMA OrderNext ==
  ASSUME OrdersAgree, Inv, OrderInv, [Next]_vars
  PROVE  OrderInv'
  <1>1. ASSUME NEW t \in Threads, NEW e \in Executions, RunFresh(t, e)
        PROVE  OrderInv'
    <2>1. FALSE \in BOOLEAN /\ Begin(t, e, FALSE) /\ used' = used
      BY <1>1 DEF RunFresh
    <2>2. ResumeIsCounted'
      BY <2>1, BeginFields DEF OrderInv, ResumeIsCounted, OthersStay
    <2>3. QED
      BY <2>1, <2>2, BeginFields, OutsideKeepsOrder
         DEF OthersStay, InLoop, Inv, StoreTypes
  <1>2. ASSUME NEW t \in Threads, NEW e \in Executions, RunResume(t, e)
        PROVE  OrderInv'
    <2>1. TRUE \in BOOLEAN /\ Begin(t, e, TRUE)
      BY <1>2 DEF RunResume
    <2>2. ResumeIsCounted'
      <3>1. used["resume"] \in Nat /\ MaxResumes \in Nat
        BY EnvironmentAssumption DEF Inv, StoreTypes, Bounded
      <3>2. used'["resume"] = used["resume"] + 1
        BY <1>2 DEF RunResume, Use, Inv, StoreTypes, Bounded
      <3>3. used["resume"] < MaxResumes
        BY <1>2 DEF RunResume
      <3>4. used'["resume"] <= MaxResumes /\ MaxResumes # 0
        BY <3>1, <3>2, <3>3
      <3>5. QED
        BY <3>4 DEF ResumeIsCounted
    <2>3. QED
      BY <2>1, <2>2, BeginFields, OutsideKeepsOrder
         DEF OthersStay, InLoop, Inv, StoreTypes
  <1>3. ASSUME NEW t \in Threads, Proceed(t) PROVE OrderInv'
    <2>1. Kinds(t) /\ PerformedGrows /\ interrupted' = interrupted /\ used' = used
      BY <1>3, ProceedKinds
    <2>2. QED
      BY <2>1, PathKept, BackingKept, CompletionKept, CountKept DEF OrderInv
  <1>4. ASSUME NEW t \in Threads, Interrupt(t) PROVE OrderInv'
    <2>1. ResumeIsCounted'
      BY <1>4, InterruptFields DEF OrderInv, ResumeIsCounted, OthersStay
    <2>2. QED
      BY <1>4, <2>1, InterruptFields, OutsideKeepsOrder DEF OthersStay, InLoop
  <1>5. ASSUME NEW s \in Steps, NEW decision \in {"approved", "rejected"},
               Decide(s, decision)
        PROVE  OrderInv'
    <2>1. used'["resume"] = used["resume"]
      BY <1>5 DEF Decide, Use, Inv, StoreTypes, Bounded
    <2>2. UNCHANGED <<record, checkpoints, thread, performed, interrupted>>
      BY <1>5 DEF Decide
    <2>3. ResumeIsCounted'
      BY <2>1, <2>2 DEF OrderInv, ResumeIsCounted
    <2>4. QED
      BY <2>2, <2>3, OutsideKeepsOrder
  <1>6. CASE Crash
    <2>1. ResumeIsCounted'
      BY <1>6, CrashFields DEF OrderInv, ResumeIsCounted
    <2>2. QED
      BY <1>6, <2>1, CrashFields, OutsideKeepsOrder DEF InLoop
  <1>7. CASE UNCHANGED vars
    <2>1. UNCHANGED <<record, checkpoints, thread, performed, interrupted, used>>
      BY <1>7 DEF vars, stores, history
    <2>2. ResumeIsCounted'
      BY <2>1 DEF OrderInv, ResumeIsCounted
    <2>3. QED
      BY <2>1, <2>2, OutsideKeepsOrder
  <1>8. QED
    BY <1>1, <1>2, <1>3, <1>4, <1>5, <1>6, <1>7 DEF Next

LEMMA OrderInit ==
  ASSUME Init
  PROVE  OrderInv
  <1> DEFINE e0 == CHOOSE e \in Executions : TRUE
  <1>1. thread = [t \in Threads |-> Idle(e0)]
    BY DEF Init
  <1> HIDE DEF e0
  <1>2. \A u \in Threads : thread[u].pc = "idle" /\ ~thread[u].resume
    BY <1>1 DEF Idle
  <1>3. ThreadsOnPath
    BY <1>2 DEF ThreadsOnPath, InLoop
  <1>4. CheckpointsBacked /\ CompletedMeansPerformed
    BY DEF Init, CheckpointsBacked, CompletedMeansPerformed
  <1>5. ResumeIsCounted
    BY <1>2, EnvironmentAssumption DEF Init, ResumeIsCounted, Bounded
  <1>6. QED
    BY <1>3, <1>4, <1>5 DEF OrderInv

LEMMA OrderAlways ==
  ASSUME OrdersAgree
  PROVE  Spec => [](Inv /\ OrderInv)
  <1>1. Init => Inv /\ OrderInv
    BY InvInit, OrderInit
  <1>2. Inv /\ OrderInv /\ [Next]_vars => (Inv /\ OrderInv)'
    BY InvNext, OrderNext
  <1>3. QED
    BY <1>1, <1>2, PTL DEF Spec

\* A handler is called only after the steps it depends on have been
\* performed, for every workflow and any number of concurrent, crashed and
\* interrupted runs (execution_order, build_resume_plan, _execute_ordered).
\* Resumed runs keep the order when the declaration is in it: otherwise
\* build_resume_plan does not.
THEOREM DependenciesComeFirst ==
  ASSUME OrdersAgree
  PROVE  Spec => []DependenciesFirst
  <1>1. ASSUME Inv, OrderInv PROVE DependenciesFirst
    <2>1. SUFFICES ASSUME NEW t \in Threads, At(t, "attempt"),
                          NEW d \in DependsOn[Current(t)], Reads[d] = {}
                   PROVE  d \in performed[thread[t].exec]
      BY DEF DependenciesFirst
    <2> DEFINE q == thread[t].todo
               k == Len(Order) - Len(q) + 1
    <2>2. /\ q \in Seq(Steps) /\ q # <<>> /\ Current(t) = Head(q)
          /\ OnPath(thread[t], performed[thread[t].exec])
      BY <1>1, <2>1, InHand, RestType DEF At, OrderInv, ThreadsOnPath, InLoop
    <2>3. k \in 1..Len(Order) /\ Current(t) = Order[k]
      BY <2>2, RestAdvances DEF OnPath
    <2>4. DoneUpTo(k - 1, performed[thread[t].exec])
      <3>1. k - 1 = Len(Order) - Len(q)
        BY <2>2, OrderFacts
      <3>2. QED
        BY <2>2, <3>1 DEF OnPath
    <2> HIDE DEF k
    <2>5. PICK j \in 1..(k - 1) : Order[j] = d
      BY <2>1, <2>3, WorkflowAssumption
    <2>6. QED
      BY <2>1, <2>4, <2>5 DEF DoneUpTo
  <1>2. QED
    BY <1>1, OrderAlways, PTL

\* "completed" is the truth about every execution no BaseException went
\* through: each unconditional step of the workflow has been performed in
\* it, over all its runs, crashes and resumes.
THEOREM CompletedIsPerformed ==
  ASSUME OrdersAgree
  PROVE  Spec => []CompletedMeansPerformed
  <1>1. OrderInv => CompletedMeansPerformed
    BY DEF OrderInv
  <1>2. QED
    BY <1>1, OrderAlways, PTL

-----------------------------------------------------------------------------
(* What a resumed run skips *)

\* A plan that resumes lies after the last checkpoint and lists no step twice.
LEMMA PlanFresh ==
  ASSUME NEW t \in Threads, thread[t].resume, NEW r, r.todo = Plan(t)
  PROVE  FreshAhead(r, checkpoints[thread[t].exec])
  <1> DEFINE p == ResumePoint(thread[t].exec)
             saved == checkpoints[thread[t].exec]
  <1>1. /\ p \in 0..Len(Declared) /\ Len(Plan(t)) = Len(Declared) - p
        /\ \A i \in 1..Len(Plan(t)) : Plan(t)[i] = Declared[p + i]
    BY ResumePlan
  <1>2. \A i \in 1..Len(Declared) : Declared[i] \in saved => i <= p
    BY ResumePointIsLast
  <1>3. /\ Len(Declared) \in Nat
        /\ \A i, j \in 1..Len(Declared) : Declared[i] = Declared[j] => i = j
    BY WorkflowAssumption DEF IsEnumeration
  <1> HIDE DEF p, saved
  <1>4. \A i \in 1..Len(Plan(t)) : p + i \in 1..Len(Declared) /\ ~(p + i <= p)
    BY <1>1, <1>3
  <1>5. \A i \in 1..Len(Plan(t)) : Plan(t)[i] \notin saved
    BY <1>1, <1>2, <1>4
  <1>6. ASSUME NEW i \in 1..Len(Plan(t)), NEW j \in 1..Len(Plan(t)),
               Plan(t)[i] = Plan(t)[j]
        PROVE  i = j
    <2>1. p + i = p + j
      BY <1>1, <1>3, <1>4, <1>6
    <2>2. QED
      BY <1>1, <2>1
  <1>7. QED
    BY <1>5, <1>6 DEF FreshAhead, saved

\* The first step is done with: what follows is still ahead, and differs
\* from it.
LEMMA FreshTail ==
  ASSUME NEW r, NEW d, NEW saved, r.todo \in Seq(Steps), r.todo # <<>>,
         d.todo = Tail(r.todo), FreshAhead(r, saved)
  PROVE  FreshAhead(d, saved \cup {Head(r.todo)})
  <1>1. /\ Len(r.todo) \in Nat /\ Len(Tail(r.todo)) = Len(r.todo) - 1
        /\ Head(r.todo) = r.todo[1] /\ Len(r.todo) >= 1
    OBVIOUS
  <1>2. \A i \in 1..Len(Tail(r.todo)) :
            Tail(r.todo)[i] = r.todo[i + 1] /\ i + 1 \in 1..Len(r.todo)
    BY <1>1
  <1>3. ASSUME NEW i \in 1..Len(d.todo)
        PROVE  d.todo[i] \notin saved /\ d.todo[i] # Head(r.todo)
    <2>1. d.todo[i] = r.todo[i + 1] /\ i + 1 \in 1..Len(r.todo)
      BY <1>2
    <2>2. i + 1 # 1 /\ 1 \in 1..Len(r.todo)
      BY <1>1
    <2>3. QED
      BY <1>1, <2>1, <2>2 DEF FreshAhead
  <1>4. ASSUME NEW i \in 1..Len(d.todo), NEW j \in 1..Len(d.todo),
               d.todo[i] = d.todo[j]
        PROVE  i = j
    <2>1. /\ d.todo[i] = r.todo[i + 1] /\ i + 1 \in 1..Len(r.todo)
          /\ d.todo[j] = r.todo[j + 1] /\ j + 1 \in 1..Len(r.todo)
      BY <1>2
    <2>2. i + 1 = j + 1
      BY <1>4, <2>1 DEF FreshAhead
    <2>3. QED
      BY <2>2
  <1>5. QED
    BY <1>3, <1>4 DEF FreshAhead

\* With fewer checkpoints no more steps are skipped.
LEMMA FreshSame ==
  ASSUME NEW r, NEW d, NEW s1, NEW s2, FreshAhead(r, s1), s2 \subseteq s1,
         d.todo = r.todo
  PROVE  FreshAhead(d, s2)
  BY DEF FreshAhead

\* A step inside one call leaves the checkpoints of all other calls alone.
LEMMA OthersCheckpoints ==
  ASSUME Inv, OneRunEach, NEW t \in Threads, Kinds(t),
         NEW u \in Threads, u # t, thread[u].pc # "idle"
  PROVE  checkpoints'[thread[u].exec] = checkpoints[thread[u].exec]
  <1>1. CASE Saves(t)
    <2>1. thread[t].pc # "idle"
      BY <1>1 DEF Saves, At
    <2>2. thread[u].exec # thread[t].exec
      BY <2>1 DEF OneRunEach
    <2>3. QED
      BY <1>1, <2>2, RestType DEF Saves, Inv, StoreTypes
  <1>2. CASE ~Saves(t)
    BY <1>2 DEF Kinds, Leaves, Enters, Skips, Tries, Performs, Completes,
                Fails, Undoes
  <1>3. QED
    BY <1>1, <1>2

\* A call stays alone in its execution.
LEMMA AloneKept ==
  ASSUME Inv, OneRunEach, NEW t \in Threads, Kinds(t), ~At(t, "idle")
  PROVE  OneRunEach'
  <1>1. \A u \in Threads : u # t => thread'[u] = thread[u]
    BY DEF Kinds, Leaves, Enters, Skips, Tries, Performs, Saves, Completes,
           Fails, Undoes, Moves, OthersStay
  <1>2. thread'[t].exec = thread[t].exec
    BY DEF Kinds, Leaves, Enters, Skips, Tries, Performs, Saves, Completes,
           Fails, Undoes, Moves
  <1>3. \A e \in Executions : record[e] # "none" => record'[e] # "none"
    <2>1. CASE Completes(t)
      BY <2>1 DEF Completes, Inv, StoreTypes
    <2>2. CASE ~Completes(t)
      BY <2>2 DEF Kinds, Leaves, Enters, Skips, Tries, Performs, Saves,
                  Fails, Undoes, RecordKept
    <2>3. QED
      BY <2>1, <2>2
  <1>4. \A u \in Threads : /\ thread'[u].exec = thread[u].exec
                           /\ thread'[u].pc # "idle" => thread[u].pc # "idle"
    BY <1>1, <1>2 DEF At
  <1>5. \A u \in Threads : thread'[u].pc # "idle" => record'[thread'[u].exec] # "none"
    BY <1>3, <1>4, RestType DEF OneRunEach
  <1>6. QED
    BY <1>4, <1>5 DEF OneRunEach

\* Only a call of run that is under way proceeds.
LEMMA ProceedNotIdle ==
  ASSUME NEW t \in Threads, Proceed(t)
  PROVE  ~At(t, "idle")
  BY DEF Proceed, PassGate, Start, Blocked, EnsureRequest, CreateRequest,
         AwaitApproval, SkipStep, BeginStep, RefuseStep, HandlerReturns,
         HandlerTimesOut, HandlerRaises, Backoff, SaveCheckpoint, Complete,
         Compensate, RecordRollback, FinishFailed, HasStep, At

LEMMA FreshKept ==
  ASSUME Inv, ResumeInv, NEW t \in Threads, Kinds(t)
  PROVE  \A u \in Threads : thread'[u].pc \in InLoop /\ thread'[u].resume =>
             FreshAhead(thread'[u], checkpoints'[thread'[u].exec])
  <1>1. ASSUME NEW u \in Threads, u # t, thread'[u].pc \in InLoop,
               thread'[u].resume
        PROVE  FreshAhead(thread'[u], checkpoints'[thread'[u].exec])
    <2>1. thread'[u] = thread[u]
      BY <1>1 DEF Kinds, Leaves, Enters, Skips, Tries, Performs, Saves,
                  Completes, Fails, Undoes, Moves, OthersStay
    <2>2. thread[u].pc # "idle"
      BY <1>1, <2>1 DEF InLoop
    <2>3. checkpoints'[thread[u].exec] = checkpoints[thread[u].exec]
      BY <1>1, <2>2, OthersCheckpoints DEF ResumeInv
    <2>4. QED
      BY <1>1, <2>1, <2>3 DEF ResumeInv
  <1>2. ASSUME thread'[t].pc \in InLoop, thread'[t].resume
        PROVE  FreshAhead(thread'[t], checkpoints'[thread'[t].exec])
    <2>1. CASE Enters(t)
      BY <1>2, <2>1, PlanFresh DEF Enters, Moves
    <2>2. CASE Skips(t) \/ Saves(t)
      <3>1. /\ thread[t].todo # <<>> /\ thread[t].pc \in InLoop
            /\ thread[t].resume
        BY <1>2, <2>2, InHand DEF Skips, Saves, At, InLoop, Moves
      <3>2. FreshAhead(thread[t], checkpoints[thread[t].exec])
        BY <3>1 DEF ResumeInv
      <3>3. /\ thread'[t].todo = Tail(thread[t].todo)
            /\ thread'[t].exec = thread[t].exec
        BY <2>2 DEF Skips, Saves, Moves
      <3>4. FreshAhead(thread'[t], checkpoints[thread[t].exec] \cup {Current(t)})
        BY <3>1, <3>2, <3>3, FreshTail, RestType
      <3>5. checkpoints'[thread[t].exec] \subseteq
                checkpoints[thread[t].exec] \cup {Current(t)}
        BY <2>2, RestType DEF Skips, Saves, Inv, StoreTypes
      <3>6. QED
        BY <3>3, <3>4, <3>5, FreshSame
    <2>3. CASE Tries(t) \/ Performs(t)
      <3>1. /\ thread[t].pc \in InLoop /\ thread[t].resume
            /\ thread'[t].todo = thread[t].todo
            /\ thread'[t].exec = thread[t].exec
            /\ checkpoints' = checkpoints
        BY <1>2, <2>3 DEF Tries, Performs, At, InLoop, Moves
      <3>2. FreshAhead(thread[t], checkpoints[thread[t].exec])
        BY <3>1 DEF ResumeInv
      <3>3. QED
        BY <3>1, <3>2, FreshSame
    <2>4. CASE Leaves(t) \/ Completes(t) \/ Fails(t) \/ Undoes(t)
      BY <1>2, <2>4 DEF Leaves, Completes, Fails, Undoes, Moves, InLoop
    <2>5. QED
      BY <2>1, <2>2, <2>3, <2>4 DEF Kinds
  <1>3. QED
    BY <1>1, <1>2

\* A call of run begins in an execution nobody else is in.
LEMMA BeginKeepsResume ==
  ASSUME Inv, ResumeInv, NEW t \in Threads, NEW e \in Executions,
         NEW resume \in BOOLEAN, Begin(t, e, resume),
         \A u \in Threads : thread[u].pc = "idle" \/ thread[u].exec # e
  PROVE  ResumeInv'
  <1>1. /\ \A u \in Threads : u # t => thread'[u] = thread[u]
        /\ thread'[t].pc = "gate" /\ thread'[t].exec = e
        /\ checkpoints' = checkpoints
        /\ \A f \in Executions : f # e => record'[f] = record[f]
        /\ record'[e] # "none"
    BY BeginFields DEF OthersStay, Inv, StoreTypes
  <1>2. OneRunEach'
    <2>1. \A u \in Threads : thread'[u].pc # "idle" => record'[thread'[u].exec] # "none"
      BY <1>1, RestType DEF ResumeInv, OneRunEach
    <2>2. QED
      BY <1>1, <2>1 DEF ResumeInv, OneRunEach
  <1>3. QED
    BY <1>1, <1>2 DEF ResumeInv, InLoop

\* Nobody enters an execution, and no checkpoint is saved.
LEMMA QuietKeepsResume ==
  ASSUME ResumeInv, Inv, checkpoints' = checkpoints,
         \A u \in Threads : thread'[u] = thread[u] \/ thread'[u].pc = "idle",
         \A e \in Executions : record[e] # "none" => record'[e] # "none"
  PROVE  ResumeInv'
  <1>1. OneRunEach'
    <2>1. \A u \in Threads : thread'[u].pc # "idle" => record'[thread'[u].exec] # "none"
      BY RestType DEF ResumeInv, OneRunEach
    <2>2. QED
      BY <2>1 DEF ResumeInv, OneRunEach
  <1>2. QED
    BY <1>1 DEF ResumeInv, InLoop

LEMMA ResumeNext ==
  ASSUME Inv, ResumeInv, [Next]_vars
  PROVE  ResumeInv'
  <1>1. ASSUME NEW t \in Threads, NEW e \in Executions, RunFresh(t, e)
        PROVE  ResumeInv'
    <2>1. FALSE \in BOOLEAN /\ Begin(t, e, FALSE) /\ record[e] = "none"
      BY <1>1 DEF RunFresh
    <2>2. \A u \in Threads : thread[u].pc = "idle" \/ thread[u].exec # e
      BY <2>1 DEF ResumeInv, OneRunEach
    <2>3. QED
      BY <2>1, <2>2, BeginKeepsResume
  <1>2. ASSUME NEW t \in Threads, NEW e \in Executions, RunResume(t, e)
        PROVE  ResumeInv'
    <2>1. TRUE \in BOOLEAN /\ Begin(t, e, TRUE)
      BY <1>2 DEF RunResume
    <2>2. \A u \in Threads : thread[u].pc = "idle" \/ thread[u].exec # e
      BY <1>2 DEF RunResume, At
    <2>3. QED
      BY <2>1, <2>2, BeginKeepsResume
  <1>3. ASSUME NEW t \in Threads, Proceed(t) PROVE ResumeInv'
    <2>1. Kinds(t)
      BY <1>3, ProceedKinds
    <2>2. OneRunEach'
      BY <1>3, <2>1, ProceedNotIdle, AloneKept DEF ResumeInv
    <2>3. QED
      BY <2>1, <2>2, FreshKept DEF ResumeInv
  <1>4. ASSUME NEW t \in Threads, Interrupt(t) PROVE ResumeInv'
    BY <1>4, InterruptFields, QuietKeepsResume DEF OthersStay
  <1>5. ASSUME NEW s \in Steps, NEW decision \in {"approved", "rejected"},
               Decide(s, decision)
        PROVE  ResumeInv'
    BY <1>5, QuietKeepsResume DEF Decide
  <1>6. CASE Crash
    BY <1>6, CrashFields, QuietKeepsResume
  <1>7. CASE UNCHANGED vars
    <2>1. UNCHANGED <<record, checkpoints, thread>>
      BY <1>7 DEF vars, stores
    <2>2. QED
      BY <2>1, QuietKeepsResume
  <1>8. QED
    BY <1>1, <1>2, <1>3, <1>4, <1>5, <1>6, <1>7 DEF Next

\* At the start every thread is idle.
LEMMA AllIdle ==
  ASSUME Init
  PROVE  \A u \in Threads : thread[u].pc = "idle"
  <1> DEFINE e0 == CHOOSE e \in Executions : TRUE
  <1>1. thread = [t \in Threads |-> Idle(e0)]
    BY DEF Init
  <1> HIDE DEF e0
  <1>2. QED
    BY <1>1 DEF Idle

LEMMA ResumeAlways == Spec => [](Inv /\ ResumeInv)
  <1>1. Init => Inv /\ ResumeInv
    BY InvInit, AllIdle DEF ResumeInv, OneRunEach, InLoop
  <1>2. Inv /\ ResumeInv /\ [Next]_vars => (Inv /\ ResumeInv)'
    BY InvNext, ResumeNext
  <1>3. QED
    BY <1>1, <1>2, PTL DEF Spec

\* A resumed run performs no step again that has a checkpoint, whatever the
\* order of the declaration, and whoever saves checkpoints meanwhile
\* (resume_point, build_resume_plan).
THEOREM ResumeSkipsWhatIsDone == Spec => []ResumeSkipsDone
  <1>1. ASSUME Inv, ResumeInv PROVE ResumeSkipsDone
    <2>1. SUFFICES ASSUME NEW t \in Threads, At(t, "attempt"), thread[t].resume
                   PROVE  Current(t) \notin checkpoints[thread[t].exec]
      BY DEF ResumeSkipsDone
    <2>2. /\ thread[t].todo \in Seq(Steps) /\ thread[t].todo # <<>>
          /\ Current(t) = Head(thread[t].todo)
          /\ FreshAhead(thread[t], checkpoints[thread[t].exec])
      BY <1>1, <2>1, InHand, RestType DEF At, ResumeInv, InLoop
    <2>3. Head(thread[t].todo) = thread[t].todo[1] /\ 1 \in 1..Len(thread[t].todo)
      BY <2>2
    <2>4. QED
      BY <2>2, <2>3 DEF FreshAhead
  <1>2. QED
    BY <1>1, ResumeAlways, PTL

-----------------------------------------------------------------------------
(* What a failure undoes *)

\* Nothing takes a compensation record back.
LEMMA ProceedKeepsRollbacks ==
  ASSUME Inv, NEW t \in Threads, Proceed(t)
  PROVE  RollbacksKept
  <1>1. ASSUME NEW s \in Steps, RecordRollback(t, s) PROVE RollbacksKept
    BY <1>1, RecordKind
  <1>2. ASSUME compensations' = compensations PROVE RollbacksKept
    BY <1>2 DEF RollbacksKept
  <1>3. QED
    BY <1>1, <1>2
       DEF Proceed, PassGate, Start, Blocked, EnsureRequest, CreateRequest,
           AwaitApproval, SkipStep, BeginStep, RefuseStep, HandlerReturns,
           HandlerTimesOut, HandlerRaises, Backoff, SaveCheckpoint, Complete,
           Compensate, FinishFailed, stores

\* The plan of a failing step accounts for every other completed step, and
\* the loops of _trigger_compensation keep the account.
LEMMA UndoKept ==
  ASSUME Inv, UndoInv, NEW t \in Threads, Kinds(t), RollbacksKept
  PROVE  UndoInv'
  <1>0. \A u \in Threads : \A i \in 1..Len(thread[u].completed) :
            thread[u].completed[i] \in Steps /\ thread[u].exec \in Executions
    BY DEF Inv, ThreadTypes, Thread
  <1>1. ASSUME NEW u \in Threads, u # t, thread'[u].pc = "compensate"
        PROVE  Accounted(thread'[u], compensations'[thread'[u].exec])
    <2>1. thread'[u] = thread[u]
      BY <1>1 DEF Kinds, Leaves, Enters, Skips, Tries, Performs, Saves,
                  Completes, Fails, Undoes, Moves, OthersStay
    <2>2. Accounted(thread[u], compensations[thread[u].exec])
      BY <1>1, <2>1 DEF UndoInv
    <2>3. QED
      BY <1>0, <2>1, <2>2 DEF Accounted, RollbacksKept
  <1>2. ASSUME thread'[t].pc = "compensate"
        PROVE  Accounted(thread'[t], compensations'[thread'[t].exec])
    <2>1. CASE Fails(t)
      BY <2>1 DEF Fails, Moves, Accounted, Current
    <2>2. CASE Undoes(t)
      <3>1. Accounted(thread[t], compensations[thread[t].exec])
        BY <2>2 DEF Undoes, At, UndoInv
      <3>2. QED
        BY <1>0, <2>2, <3>1 DEF Undoes, Moves, Accounted, RollbacksKept
    <2>3. QED
      BY <1>2, <2>1, <2>2 DEF Kinds, Leaves, Enters, Skips, Tries, Performs,
                              Saves, Completes, Moves
  <1>3. QED
    BY <1>1, <1>2 DEF UndoInv

LEMMA UndoNext ==
  ASSUME Inv, UndoInv, [Next]_vars
  PROVE  UndoInv'
  <1>1. ASSUME compensations' = compensations,
               \A u \in Threads : thread'[u] = thread[u]
                                   \/ thread'[u].pc \in {"idle", "gate"}
        PROVE  UndoInv'
    BY <1>1 DEF UndoInv
  <1>2. ASSUME NEW t \in Threads, NEW e \in Executions,
               RunFresh(t, e) \/ RunResume(t, e)
        PROVE  UndoInv'
    <2>1. PICK resume \in BOOLEAN : Begin(t, e, resume)
      BY <1>2 DEF RunFresh, RunResume
    <2>2. compensations' = compensations
      BY <2>1 DEF Begin
    <2>3. QED
      BY <1>1, <2>1, <2>2, BeginFields DEF OthersStay
  <1>3. ASSUME NEW t \in Threads, Proceed(t) PROVE UndoInv'
    BY <1>3, ProceedKinds, ProceedKeepsRollbacks, UndoKept
  <1>4. ASSUME NEW t \in Threads, Interrupt(t) PROVE UndoInv'
    <2>1. compensations' = compensations
      BY <1>4 DEF Interrupt
    <2>2. QED
      BY <1>1, <1>4, <2>1, InterruptFields DEF OthersStay
  <1>5. ASSUME NEW s \in Steps, NEW decision \in {"approved", "rejected"},
               Decide(s, decision)
        PROVE  UndoInv'
    BY <1>1, <1>5 DEF Decide
  <1>6. CASE Crash
    <2>1. compensations' = compensations
      BY <1>6 DEF Crash, stores
    <2>2. QED
      BY <1>1, <1>6, <2>1, CrashFields
  <1>7. CASE UNCHANGED vars
    BY <1>1, <1>7 DEF vars, stores
  <1>8. QED
    BY <1>2, <1>3, <1>4, <1>5, <1>6, <1>7 DEF Next

\* The body of FailureCompensates.
Compensates ==
    \A t \in Threads :
         LET e == thread[t].exec IN
         /\ At(t, "compensate")
         /\ thread'[t].pc = "idle"
         /\ record[e] # "failed" /\ record'[e] = "failed"
         /\ e \notin interrupted'
         => \A i \in 1..Len(thread[t].completed) :
                \/ thread[t].completed[i] = Current(t)
                \/ compensations'[e][thread[t].completed[i]] # "none"

\* The records of a run that reports its failure.
LEMMA FinishFailedRecords ==
  ASSUME Inv, UndoInv, NEW t \in Threads, FinishFailed(t)
  PROVE  \A i \in 1..Len(thread[t].completed) :
             \/ thread[t].completed[i] = Current(t)
             \/ compensations'[thread[t].exec][thread[t].completed[i]] # "none"
  <1>1. /\ Accounted(thread[t], compensations[thread[t].exec])
        /\ thread[t].toUndo = {} /\ thread[t].undone = NothingUndone
        /\ compensations' = compensations
    BY DEF FinishFailed, At, UndoInv
  <1>2. \A i \in 1..Len(thread[t].completed) : thread[t].completed[i] \in Steps
    BY DEF Inv, ThreadTypes, Thread
  <1>3. QED
    BY <1>1, <1>2 DEF Accounted, Current, NothingUndone

LEMMA CompensatesNext ==
  ASSUME Inv, UndoInv, [Next]_vars
  PROVE  [Compensates]_vars
  <1>1. ASSUME NEW t \in Threads, At(t, "compensate"), thread'[t].pc = "idle",
               NEW e, e = thread[t].exec, record[e] # "failed",
               record'[e] = "failed", e \notin interrupted'
        PROVE  FinishFailed(t)
    <2>1. ASSUME NEW u \in Threads, NEW f \in Executions,
                 RunFresh(u, f) \/ RunResume(u, f)
          PROVE  FALSE
      <3>1. PICK resume \in BOOLEAN : Begin(u, f, resume)
        BY <2>1 DEF RunFresh, RunResume
      <3>2. OthersStay(u) /\ thread'[u].pc = "gate"
        BY <3>1, BeginFields
      <3>3. QED
        BY <1>1, <3>2 DEF OthersStay, At
    <2>2. ASSUME NEW u \in Threads, Proceed(u)
          PROVE  FinishFailed(t)
      <3>1. OthersStay(u)
        BY <2>2, ProceedKinds DEF Kinds, Leaves, Enters, Skips, Tries, Performs,
           Saves, Completes, Fails, Undoes, Moves
      <3>2. u = t
        BY <1>1, <3>1 DEF OthersStay, At
      <3>3. ASSUME NEW s \in Steps, Compensate(t, s) \/ RecordRollback(t, s)
            PROVE  FALSE
        BY <1>1, <3>3, UndoKind, RecordKind DEF Undoes, Moves
      <3>4. QED
        BY <1>1, <2>2, <3>2, <3>3
           DEF Proceed, PassGate, Start, Blocked, EnsureRequest, CreateRequest,
               AwaitApproval, SkipStep, BeginStep, RefuseStep, HandlerReturns,
               HandlerTimesOut, HandlerRaises, Backoff, SaveCheckpoint,
               Complete, HasStep, At
    <2>3. ASSUME NEW u \in Threads, Interrupt(u)
          PROVE  FALSE
      <3>1. OthersStay(u) /\ interrupted' = interrupted \cup {thread[u].exec}
        BY <2>3, InterruptFields
      <3>2. u = t
        BY <1>1, <3>1 DEF OthersStay, At
      <3>3. QED
        BY <1>1, <3>1, <3>2
    <2>4. ASSUME NEW s \in Steps, NEW decision \in {"approved", "rejected"},
                 Decide(s, decision)
          PROVE  FALSE
      BY <1>1, <2>4 DEF Decide
    <2>5. CASE Crash
      BY <1>1, <2>5, CrashFields
    <2>6. CASE UNCHANGED vars
      BY <1>1, <2>6 DEF vars, stores
    <2>7. QED
      BY <2>1, <2>2, <2>3, <2>4, <2>5, <2>6 DEF Next
  <1>2. Compensates
    BY <1>1, FinishFailedRecords DEF Compensates
  <1>3. QED
    BY <1>2

\* A run reports "failed" only when each step it had completed has a
\* compensation record, however the compensations come out
\* (_trigger_compensation, run_compensation).
THEOREM FailuresAreCompensated == Spec => FailureCompensates
  <1>1. Init => Inv /\ UndoInv
    BY InvInit, AllIdle DEF UndoInv
  <1>2. Inv /\ UndoInv /\ [Next]_vars => (Inv /\ UndoInv)'
    BY InvNext, UndoNext
  <1>3. Inv /\ UndoInv /\ [Next]_vars => [Compensates]_vars
    BY CompensatesNext
  <1>4. Spec => [][Compensates]_vars
    BY <1>1, <1>2, <1>3, PTL DEF Spec
  <1>5. QED
    BY <1>4 DEF FailureCompensates, Compensates
=============================================================================
