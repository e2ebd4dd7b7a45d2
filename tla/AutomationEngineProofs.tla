----------------------- MODULE AutomationEngineProofs -----------------------
(***************************************************************************)
(* Safety of AutomationEngine for every workflow, every number of threads, *)
(* executions, decisions, resumes, crashes and interrupts.                 *)
(***************************************************************************)
EXTENDS AutomationEngine, WellFoundedInduction, TLAPS

-----------------------------------------------------------------------------
(* The resume point *)

NatLess == {ss \in Nat \X Nat : ss[1] < ss[2]}

\* A set of naturals bounded by n has a greatest element.
LEMMA GreatestExists ==
  ASSUME NEW n \in Nat, NEW S \in SUBSET (1..n), S # {}
  PROVE  \E i \in S : \A j \in S : j <= i
  <1> DEFINE T == {n - i : i \in S}
  <1>1. T \subseteq Nat
    OBVIOUS
  <1>2. T # {}
    <2>1. PICK i \in S : TRUE
      OBVIOUS
    <2>2. n - i \in T
      BY <2>1
    <2>3. QED
      BY <2>2
  <1>3. IsWellFoundedOn(NatLess, Nat)
    BY NatLessThanWellFounded, Zenon DEF OpToRel, NatLess
  <1> HIDE DEF T
  <1>4. PICK x \in T : \A y \in T : ~(<<y, x>> \in NatLess)
    BY <1>1, <1>2, <1>3, WFMin
  <1>5. \A y \in T : ~(y < x)
    BY <1>1, <1>4 DEF NatLess
  <1>6. PICK i \in S : x = n - i
    BY <1>4 DEF T
  <1>7. ASSUME NEW j \in S PROVE j <= i
    <2>1. n - j \in T
      BY DEF T
    <2>2. ~(n - j < n - i)
      BY <1>5, <1>6, <2>1
    <2>3. QED
      BY <2>2
  <1>8. QED
    BY <1>6, <1>7

\* resume_point finds a declared step, or none.
LEMMA ResumePointType ==
  ASSUME NEW e
  PROVE  ResumePoint(e) \in 0..Len(Declared)
  <1> DEFINE done == {i \in 1..Len(Declared) : Declared[i] \in checkpoints[e]}
  <1>1. Len(Declared) \in Nat
    BY WorkflowAssumption DEF IsEnumeration
  <1>2. CASE done = {}
    BY <1>1, <1>2 DEF ResumePoint
  <1>3. CASE done # {}
    <2>1. \E i \in done : \A j \in done : j <= i
      <3>1. done \in SUBSET (1..Len(Declared))
        OBVIOUS
      <3> HIDE DEF done
      <3>2. QED
        BY <1>1, <1>3, <3>1, GreatestExists
    <2>2. ResumePoint(e) = CHOOSE i \in done : \A j \in done : j <= i
      BY <1>3 DEF ResumePoint
    <2>3. ResumePoint(e) \in done
      <3> HIDE DEF done
      <3>1. QED
        BY <2>1, <2>2
    <2>4. QED
      BY <1>1, <2>3
  <1>4. QED
    BY <1>2, <1>3

\* What Start puts into the local variables.
LEMMA PlanType ==
  ASSUME NEW t \in Threads
  PROVE  /\ Plan(t) \in Seq(Steps)
         /\ Restored(t) \in Seq(Steps)
         /\ {Restored(t)[i] : i \in 1..Len(Restored(t))} \in SUBSET Steps
  <1> DEFINE p == ResumePoint(thread[t].exec)
  <1>1. /\ Declared \in Seq(Steps) /\ Order \in Seq(Steps)
        /\ Len(Declared) \in Nat
    BY WorkflowAssumption DEF IsEnumeration
  <1>2. p \in 0..Len(Declared)
    BY ResumePointType
  <1> HIDE DEF p
  <1>3. SubSeq(Declared, p + 1, Len(Declared)) \in Seq(Steps)
    BY <1>1, <1>2
  <1>4. Plan(t) \in Seq(Steps)
    BY <1>1, <1>3 DEF Plan, p
  <1>5. Restored(t) \in Seq(Steps)
    <2>1. CASE thread[t].resume /\ p > 0
      <3>1. Declared[p] \in Steps
        BY <1>1, <1>2, <2>1
      <3>2. Restored(t) = <<Declared[p]>>
        BY <2>1 DEF Restored, p
      <3>3. QED
        BY <3>1, <3>2
    <2>2. CASE ~(thread[t].resume /\ p > 0)
      <3>1. Restored(t) = <<>>
        BY <2>2 DEF Restored, p
      <3>2. QED
        BY <3>1
    <2>3. QED
      BY <2>1, <2>2
  <1>6. QED
    BY <1>4, <1>5

-----------------------------------------------------------------------------
(* The inductive invariant *)

\* What a thread relies on while it waits: between the gate of a step and
\* its effect the approval may be overwritten, but it has been granted; a
\* gating step without a request is still ahead of _ensure_requests.
ThreadOK(r, decisions, grants) ==
    /\ r.pc \in {"create", "attempt", "backoff", "checkpoint"} => r.todo # <<>>
    /\ r.pc \in {"attempt", "backoff", "checkpoint"} /\ Head(r.todo) \in Required =>
           Head(r.todo) \in grants
    /\ r.pc \in {"ensure", "create"} =>
           \A s \in Required :
               decisions[s] # "none" \/ \E i \in 1..Len(r.todo) : r.todo[i] = s

ThreadsOK == \A u \in Threads : ThreadOK(thread[u], approvals, granted)

ApprovedWasGranted == \A s \in Steps : approvals[s] = "approved" => s \in granted

StoreTypes ==
    /\ record \in [Executions -> Statuses]
    /\ results \in [Executions -> [Steps -> StepResults]]
    /\ checkpoints \in [Executions -> SUBSET Steps]
    /\ approvals \in [Steps -> Decisions]
    /\ compensations \in [Executions -> [Steps -> Rollbacks]]
    /\ performed \in [Executions -> SUBSET Steps]
    /\ granted \subseteq Steps
    /\ interrupted \subseteq Executions
    /\ used \in [Bounded -> Nat]

ThreadTypes == thread \in [Threads -> Thread]

Inv ==
    /\ StoreTypes
    /\ ThreadTypes
    /\ ThreadsOK
    /\ ApprovedWasGranted
    /\ GatedEffects
    /\ AwaitingHasRequests

\* Requests are never withdrawn, grants never forgotten.
Monotone ==
    /\ granted \subseteq granted'
    /\ \A s \in Steps : approvals[s] # "none" => approvals'[s] # "none"

-----------------------------------------------------------------------------
(* Local variables *)

\* An idle thread's local variables have their types.
LEMMA IdleType ==
  ASSUME NEW e \in Executions
  PROVE  /\ Idle(e) \in Thread
         /\ Idle(e).pc = "idle" /\ Idle(e).todo = <<>> /\ Idle(e).exec = e
  BY DEF Idle, Thread, Labels, NothingUndone, Rollbacks

\* d has the program counter, the loop and the execution of r.
SameControl(d, r) == d.pc = r.pc /\ d.todo = r.todo /\ d.exec = r.exec

\* Assigning one local variable keeps the types and the others.
LEMMA LocalType ==
  ASSUME NEW r \in Thread
  PROVE  /\ \A x \in Labels :
              /\ [r EXCEPT !.pc = x] \in Thread
              /\ [r EXCEPT !.pc = x].pc = x
              /\ [r EXCEPT !.pc = x].todo = r.todo
              /\ [r EXCEPT !.pc = x].exec = r.exec
         /\ \A x \in Seq(Steps) :
              /\ [r EXCEPT !.todo = x] \in Thread
              /\ [r EXCEPT !.todo = x].todo = x
              /\ [r EXCEPT !.todo = x].pc = r.pc
              /\ [r EXCEPT !.todo = x].exec = r.exec
         /\ \A x \in BOOLEAN :
              [r EXCEPT !.resume = x] \in Thread /\ SameControl([r EXCEPT !.resume = x], r)
         /\ \A x \in Seq(Steps) :
              [r EXCEPT !.completed = x] \in Thread /\ SameControl([r EXCEPT !.completed = x], r)
         /\ \A x \in SUBSET Steps :
              [r EXCEPT !.outputs = x] \in Thread /\ SameControl([r EXCEPT !.outputs = x], r)
         /\ \A x \in Nat :
              [r EXCEPT !.attempt = x] \in Thread /\ SameControl([r EXCEPT !.attempt = x], r)
         /\ \A x \in SUBSET Steps :
              [r EXCEPT !.toUndo = x] \in Thread /\ SameControl([r EXCEPT !.toUndo = x], r)
         /\ \A x \in [Steps -> Rollbacks] :
              [r EXCEPT !.undone = x] \in Thread /\ SameControl([r EXCEPT !.undone = x], r)
  BY DEF Thread, SameControl

\* What a thread relies on stays true as grants and requests accumulate.
LEMMA ThreadOKMonotone ==
  ASSUME NEW r, NEW d1, NEW d2, NEW g1, NEW g2,
         ThreadOK(r, d1, g1), g1 \subseteq g2,
         \A s \in Required : d1[s] # "none" => d2[s] # "none"
  PROVE  ThreadOK(r, d2, g2)
  BY DEF ThreadOK

\* A step of one thread.
LEMMA OneThread ==
  ASSUME ThreadTypes, ThreadsOK, Monotone,
         NEW t \in Threads, NEW r \in Thread, Becomes(t, r),
         ThreadOK(r, approvals', granted')
  PROVE  ThreadTypes' /\ ThreadsOK'
  <1>1. ThreadTypes'
    BY DEF ThreadTypes, Becomes
  <1>2. ASSUME NEW u \in Threads PROVE ThreadOK(thread'[u], approvals', granted')
    <2>1. CASE u = t
      BY <2>1 DEF ThreadTypes, Becomes
    <2>2. CASE u # t
      <3>1. thread'[u] = thread[u]
        BY <2>2 DEF ThreadTypes, Becomes
      <3>2. ThreadOK(thread[u], approvals, granted)
        BY DEF ThreadsOK
      <3>3. \A s \in Required : approvals[s] # "none" => approvals'[s] # "none"
        BY WorkflowAssumption DEF Monotone
      <3>4. QED
        BY <3>1, <3>2, <3>3, ThreadOKMonotone DEF Monotone
    <2>3. QED
      BY <2>1, <2>2
  <1>3. QED
    BY <1>1, <1>2 DEF ThreadsOK

-----------------------------------------------------------------------------
(* One lemma per action *)

\* The head and the tail of the loop in progress.
LEMMA TodoSplit ==
  ASSUME ThreadTypes, NEW t \in Threads, thread[t].todo # <<>>
  PROVE  /\ Current(t) \in Steps
         /\ Tail(thread[t].todo) \in Seq(Steps)
         /\ \A s : (\E i \in 1..Len(thread[t].todo) : thread[t].todo[i] = s) =>
                \/ s = Current(t)
                \/ \E i \in 1..Len(Tail(thread[t].todo)) : Tail(thread[t].todo)[i] = s
  <1> DEFINE q == thread[t].todo
  <1>1. q \in Seq(Steps) /\ q # <<>>
    BY DEF ThreadTypes, Thread
  <1>2. Current(t) = Head(q)
    BY DEF Current
  <1> HIDE DEF q
  <1>3. Head(q) \in Steps /\ Tail(q) \in Seq(Steps)
    BY <1>1
  <1>4. ASSUME NEW s, NEW i \in 1..Len(q), q[i] = s, s # Head(q)
        PROVE  \E j \in 1..Len(Tail(q)) : Tail(q)[j] = s
    <2>1. i # 1
      BY <1>1, <1>4
    <2>2. i - 1 \in 1..Len(Tail(q)) /\ Tail(q)[i - 1] = q[i]
      BY <1>1, <2>1
    <2>3. QED
      BY <1>4, <2>2
  <1>5. QED
    BY <1>2, <1>3, <1>4 DEF q

LEMMA BeginInv ==
  ASSUME Inv, NEW t \in Threads, NEW e \in Executions, NEW resume \in BOOLEAN,
         Begin(t, e, resume), used' \in [Bounded -> Nat]
  PROVE  Inv'
  <1> DEFINE r1 == [Idle(e) EXCEPT !.pc = "gate"]
             r2 == [r1 EXCEPT !.todo = Declared]
             r == [r2 EXCEPT !.resume = resume]
  <1>0. "gate" \in Labels /\ Declared \in Seq(Steps)
    BY WorkflowAssumption DEF Labels, IsEnumeration
  <1>1. Becomes(t, r)
    BY DEF Begin
  <1>2. r1 \in Thread /\ r1.pc = "gate"
    BY <1>0, IdleType, LocalType
  <1> HIDE DEF r1
  <1>4. r2 \in Thread /\ r2.pc = "gate"
    BY <1>0, <1>2, LocalType
  <1> HIDE DEF r2
  <1>3. r \in Thread /\ r.pc = "gate"
    BY <1>4, LocalType DEF SameControl
  <1> HIDE DEF r
  <1>5. Monotone /\ ThreadOK(r, approvals', granted')
    BY <1>3 DEF Begin, history, Monotone, ThreadOK
  <1>6. ThreadTypes' /\ ThreadsOK'
    BY <1>1, <1>3, <1>5, OneThread DEF Inv
  <1>7. StoreTypes'
    BY DEF Inv, StoreTypes, Begin, history, Statuses, StepResults
  <1>8. ApprovedWasGranted' /\ GatedEffects'
    BY DEF Inv, ApprovedWasGranted, GatedEffects, Begin, history
  <1>9. AwaitingHasRequests'
    <2>1. \A f \in Executions : record'[f] = "awaiting_approval" =>
              record[f] = "awaiting_approval"
      BY DEF Inv, StoreTypes, Begin
    <2>2. approvals' = approvals
      BY DEF Begin
    <2>3. QED
      BY <2>1, <2>2 DEF Inv, AwaitingHasRequests
  <1>10. QED
    BY <1>6, <1>7, <1>8, <1>9 DEF Inv

LEMMA StartInv ==
  ASSUME Inv, NEW t \in Threads, Start(t)
  PROVE  Inv'
  <1> DEFINE o == {Restored(t)[i] : i \in 1..Len(Restored(t))}
             r1 == [thread[t] EXCEPT !.pc = "step"]
             r2 == [r1 EXCEPT !.todo = Plan(t)]
             r3 == [r2 EXCEPT !.completed = Restored(t)]
             r == [r3 EXCEPT !.outputs = o]
  <1>1. Becomes(t, r)
    BY DEF Start
  <1>2. thread[t] \in Thread
    BY DEF Inv, ThreadTypes
  <1>3. r1 \in Thread /\ r1.pc = "step"
    <2>1. "step" \in Labels
      BY DEF Labels
    <2>2. QED
      BY <1>2, <2>1, LocalType
  <1> HIDE DEF r1
  <1>4. r2 \in Thread /\ r2.pc = "step"
    BY <1>3, LocalType, PlanType
  <1> HIDE DEF r2
  <1>5. r3 \in Thread /\ r3.pc = "step"
    BY <1>4, LocalType, PlanType DEF SameControl
  <1> HIDE DEF r3
  <1>6. r \in Thread /\ r.pc = "step"
    <2>1. o \in SUBSET Steps
      BY PlanType
    <2> HIDE DEF o
    <2>2. QED
      BY <1>5, <2>1, LocalType DEF SameControl
  <1> HIDE DEF r
  <1>7. Monotone /\ ThreadOK(r, approvals', granted')
    BY <1>6 DEF Start, history, Monotone, ThreadOK
  <1>8. ThreadTypes' /\ ThreadsOK'
    BY <1>1, <1>6, <1>7, OneThread DEF Inv
  <1>9. thread[t].exec \in Executions
    BY <1>2 DEF Thread
  <1>10. StoreTypes'
    BY <1>9 DEF Inv, StoreTypes, Start, history, Statuses
  <1>11. ApprovedWasGranted' /\ GatedEffects'
    BY DEF Inv, ApprovedWasGranted, GatedEffects, Start, history
  <1>12. AwaitingHasRequests'
    <2>1. \A f \in Executions : record'[f] = "awaiting_approval" =>
              record[f] = "awaiting_approval"
      BY DEF Inv, StoreTypes, Start
    <2>2. approvals' = approvals
      BY DEF Start
    <2>3. QED
      BY <2>1, <2>2 DEF Inv, AwaitingHasRequests
  <1>13. QED
    BY <1>8, <1>10, <1>11, <1>12 DEF Inv

\* A step that only changes local variables.
LEMMA LocalInv ==
  ASSUME Inv, NEW t \in Threads, NEW r \in Thread, Becomes(t, r),
         UNCHANGED <<stores, history, used>>,
         ThreadOK(r, approvals, granted)
  PROVE  Inv'
  <1>1. Monotone /\ ThreadOK(r, approvals', granted')
    BY DEF stores, history, Monotone
  <1>2. ThreadTypes' /\ ThreadsOK'
    BY <1>1, OneThread DEF Inv
  <1>3. /\ StoreTypes' /\ ApprovedWasGranted' /\ GatedEffects'
        /\ AwaitingHasRequests'
    BY DEF Inv, StoreTypes, ApprovedWasGranted, GatedEffects,
           AwaitingHasRequests, stores, history
  <1>4. QED
    BY <1>2, <1>3 DEF Inv

LEMMA PassGateInv ==
  ASSUME Inv, NEW t \in Threads, PassGate(t)
  PROVE  Inv'
  <1> DEFINE r == [thread[t] EXCEPT !.todo = Tail(thread[t].todo)]
  <1>1. Becomes(t, r)
    BY DEF PassGate
  <1>2. thread[t] \in Thread /\ thread[t].pc = "gate" /\ thread[t].todo # <<>>
    BY DEF Inv, ThreadTypes, PassGate, At
  <1>3. Tail(thread[t].todo) \in Seq(Steps)
    BY <1>2, TodoSplit DEF Inv
  <1>4. r \in Thread /\ r.pc = "gate"
    BY <1>2, <1>3, LocalType
  <1> HIDE DEF r
  <1>5. ThreadOK(r, approvals, granted)
    BY <1>4 DEF ThreadOK
  <1>6. QED
    BY <1>1, <1>4, <1>5, LocalInv DEF PassGate

LEMMA BlockedInv ==
  ASSUME Inv, NEW t \in Threads, Blocked(t)
  PROVE  Inv'
  <1> DEFINE r1 == [thread[t] EXCEPT !.pc = "ensure"]
             r == [r1 EXCEPT !.todo = Declared]
  <1>1. Becomes(t, r)
    BY DEF Blocked
  <1>2. "ensure" \in Labels /\ thread[t] \in Thread /\ Declared \in Seq(Steps)
    BY WorkflowAssumption DEF Labels, Inv, ThreadTypes, IsEnumeration
  <1>3. r1 \in Thread /\ r1.pc = "ensure"
    BY <1>2, LocalType
  <1> HIDE DEF r1
  <1>4. r \in Thread /\ r.pc = "ensure" /\ r.todo = Declared
    BY <1>2, <1>3, LocalType
  <1> HIDE DEF r
  <1>5. \A s \in Required : \E i \in 1..Len(Declared) : Declared[i] = s
    BY WorkflowAssumption DEF IsEnumeration
  <1>6. ThreadOK(r, approvals, granted)
    BY <1>4, <1>5 DEF ThreadOK
  <1>7. QED
    BY <1>1, <1>4, <1>6, LocalInv DEF Blocked

LEMMA EnsureRequestInv ==
  ASSUME Inv, NEW t \in Threads, EnsureRequest(t)
  PROVE  Inv'
  <1>1. thread[t] \in Thread /\ ThreadOK(thread[t], approvals, granted)
    BY DEF Inv, ThreadTypes, ThreadsOK
  <1>2. thread[t].pc = "ensure" /\ thread[t].todo # <<>>
    BY DEF EnsureRequest, At
  <1>3. CASE NeedsRequest(Current(t))
    <2> DEFINE r == [thread[t] EXCEPT !.pc = "create"]
    <2>1. Becomes(t, r)
      BY <1>3 DEF EnsureRequest, Current
    <2>2. "create" \in Labels
      BY DEF Labels
    <2>3. r \in Thread /\ r.pc = "create" /\ r.todo = thread[t].todo
      BY <1>1, <2>2, LocalType
    <2> HIDE DEF r
    <2>4. ThreadOK(r, approvals, granted)
      BY <1>1, <1>2, <2>3 DEF ThreadOK
    <2>5. QED
      BY <2>1, <2>3, <2>4, LocalInv DEF EnsureRequest
  <1>4. CASE ~NeedsRequest(Current(t))
    <2> DEFINE r == [thread[t] EXCEPT !.todo = Tail(thread[t].todo)]
    <2>1. Becomes(t, r)
      BY <1>4 DEF EnsureRequest, Current
    <2>2. Tail(thread[t].todo) \in Seq(Steps)
      BY <1>2, TodoSplit DEF Inv
    <2>3. r \in Thread /\ r.pc = "ensure" /\ r.todo = Tail(thread[t].todo)
      BY <1>1, <1>2, <2>2, LocalType
    <2> HIDE DEF r
    <2>4. Current(t) \in Required => approvals[Current(t)] # "none"
      BY <1>4 DEF NeedsRequest, IsApproved
    <2>5. ASSUME NEW s \in Required, approvals[s] = "none"
          PROVE  \E i \in 1..Len(r.todo) : r.todo[i] = s
      <3>1. \E i \in 1..Len(thread[t].todo) : thread[t].todo[i] = s
        BY <1>1, <1>2, <2>5 DEF ThreadOK
      <3>2. s # Current(t)
        BY <2>4, <2>5
      <3>3. \E i \in 1..Len(Tail(thread[t].todo)) : Tail(thread[t].todo)[i] = s
        BY <1>2, <3>1, <3>2, TodoSplit DEF Inv
      <3>4. QED
        BY <2>3, <3>3
    <2>6. ThreadOK(r, approvals, granted)
      BY <2>3, <2>5 DEF ThreadOK
    <2>7. QED
      BY <2>1, <2>3, <2>6, LocalInv DEF EnsureRequest
  <1>5. QED
    BY <1>3, <1>4

LEMMA CreateRequestInv ==
  ASSUME Inv, NEW t \in Threads, CreateRequest(t)
  PROVE  Inv'
  <1> DEFINE r1 == [thread[t] EXCEPT !.pc = "ensure"]
             r == [r1 EXCEPT !.todo = Tail(thread[t].todo)]
  <1>1. thread[t] \in Thread /\ ThreadOK(thread[t], approvals, granted)
    BY DEF Inv, ThreadTypes, ThreadsOK
  <1>2. thread[t].pc = "create" /\ thread[t].todo # <<>>
    BY <1>1 DEF CreateRequest, At, ThreadOK
  <1>3. Becomes(t, r)
    BY DEF CreateRequest
  <1>4. "ensure" \in Labels /\ Tail(thread[t].todo) \in Seq(Steps)
    BY <1>2, TodoSplit DEF Labels, Inv
  <1>5. r1 \in Thread /\ r1.pc = "ensure"
    BY <1>1, <1>4, LocalType
  <1> HIDE DEF r1
  <1>6. r \in Thread /\ r.pc = "ensure" /\ r.todo = Tail(thread[t].todo)
    BY <1>4, <1>5, LocalType
  <1> HIDE DEF r
  <1>7. Current(t) \in Steps
    BY <1>2, TodoSplit DEF Inv
  <1>8. approvals' = [approvals EXCEPT ![Current(t)] = "pending"]
    BY DEF CreateRequest, Current
  <1>9. /\ approvals' \in [Steps -> Decisions]
        /\ approvals'[Current(t)] = "pending"
        /\ \A s \in Steps : s # Current(t) => approvals'[s] = approvals[s]
    BY <1>7, <1>8 DEF Inv, StoreTypes, Decisions
  <1>10. Monotone
    BY <1>9 DEF CreateRequest, history, Monotone
  <1>11. ASSUME NEW s \in Required, approvals'[s] = "none"
         PROVE  \E i \in 1..Len(r.todo) : r.todo[i] = s
    <2>1. s \in Steps
      BY WorkflowAssumption
    <2>2. s # Current(t) /\ approvals[s] = "none"
      BY <1>9, <1>11, <2>1
    <2>3. \E i \in 1..Len(thread[t].todo) : thread[t].todo[i] = s
      BY <1>1, <1>2, <2>2 DEF ThreadOK
    <2>4. \E i \in 1..Len(Tail(thread[t].todo)) : Tail(thread[t].todo)[i] = s
      BY <1>2, <2>2, <2>3, TodoSplit DEF Inv
    <2>5. QED
      BY <1>6, <2>4
  <1>12. ThreadOK(r, approvals', granted')
    BY <1>6, <1>11 DEF ThreadOK
  <1>13. ThreadTypes' /\ ThreadsOK'
    BY <1>3, <1>6, <1>10, <1>12, OneThread DEF Inv
  <1>14. StoreTypes'
    BY <1>9 DEF Inv, StoreTypes, CreateRequest, history
  <1>15. ApprovedWasGranted' /\ GatedEffects'
    BY <1>9 DEF Inv, ApprovedWasGranted, GatedEffects, CreateRequest, history
  <1>16. AwaitingHasRequests'
    <2>1. record' = record
      BY DEF CreateRequest
    <2>2. \A s \in Required : approvals[s] # "none" => approvals'[s] # "none"
      BY <1>10, WorkflowAssumption DEF Monotone
    <2>3. QED
      BY <2>1, <2>2 DEF Inv, AwaitingHasRequests
  <1>17. QED
    BY <1>13, <1>14, <1>15, <1>16 DEF Inv

\* run returns.
LEMMA FinishInv ==
  ASSUME Inv, NEW t \in Threads, NEW status \in Statuses, Finish(t, status),
         approvals' = approvals, granted' = granted
  PROVE  /\ ThreadTypes' /\ ThreadsOK'
         /\ record' \in [Executions -> Statuses]
         /\ \A e \in Executions : record'[e] = record[e] \/ record'[e] = status
  <1>1. thread[t].exec \in Executions
    BY DEF Inv, ThreadTypes, Thread
  <1>2. Becomes(t, Idle(thread[t].exec))
    BY DEF Finish
  <1>3. Idle(thread[t].exec) \in Thread /\ Idle(thread[t].exec).pc = "idle"
    BY <1>1, IdleType
  <1>4. Monotone /\ ThreadOK(Idle(thread[t].exec), approvals', granted')
    BY <1>3 DEF Monotone, ThreadOK
  <1>5. ThreadTypes' /\ ThreadsOK'
    BY <1>2, <1>3, <1>4, OneThread DEF Inv
  <1>6. /\ record' \in [Executions -> Statuses]
        /\ \A e \in Executions : record'[e] = record[e] \/ record'[e] = status
    BY <1>1 DEF Finish, Inv, StoreTypes
  <1>7. QED
    BY <1>5, <1>6

LEMMA AwaitApprovalInv ==
  ASSUME Inv, NEW t \in Threads, AwaitApproval(t)
  PROVE  Inv'
  <1>1. "awaiting_approval" \in Statuses
    BY DEF Statuses
  <1>2. /\ ThreadTypes' /\ ThreadsOK'
        /\ record' \in [Executions -> Statuses]
    BY <1>1, FinishInv DEF AwaitApproval, BlockedStatus, history
  <1>3. StoreTypes' /\ ApprovedWasGranted' /\ GatedEffects'
    BY <1>2 DEF Inv, StoreTypes, ApprovedWasGranted, GatedEffects,
                AwaitApproval, history
  <1>4. AwaitingHasRequests'
    <2>1. ThreadOK(thread[t], approvals, granted)
      BY DEF Inv, ThreadsOK
    <2>2. thread[t].pc = "ensure" /\ thread[t].todo = <<>>
      BY DEF AwaitApproval, At
    <2>3. \A s \in Required : approvals[s] # "none"
      BY <2>1, <2>2 DEF ThreadOK
    <2>4. QED
      BY <2>3 DEF AwaitApproval, AwaitingHasRequests
  <1>5. QED
    BY <1>2, <1>3, <1>4 DEF Inv

LEMMA SkipStepInv ==
  ASSUME Inv, NEW t \in Threads, SkipStep(t)
  PROVE  Inv'
  <1> DEFINE r == [thread[t] EXCEPT !.todo = Tail(thread[t].todo)]
  <1>1. thread[t] \in Thread /\ thread[t].pc = "step" /\ thread[t].todo # <<>>
    BY DEF Inv, ThreadTypes, SkipStep, HasStep, At
  <1>2. Tail(thread[t].todo) \in Seq(Steps)
    BY <1>1, TodoSplit DEF Inv
  <1>3. Becomes(t, r)
    BY DEF SkipStep
  <1>4. r \in Thread /\ r.pc = "step"
    BY <1>1, <1>2, LocalType
  <1> HIDE DEF r
  <1>5. ThreadOK(r, approvals, granted)
    BY <1>4 DEF ThreadOK
  <1>6. QED
    BY <1>3, <1>4, <1>5, LocalInv DEF SkipStep

\* The gate is read here; ThreadOK remembers what it means.
LEMMA BeginStepInv ==
  ASSUME Inv, NEW t \in Threads, BeginStep(t)
  PROVE  Inv'
  <1> DEFINE r1 == [thread[t] EXCEPT !.pc = "attempt"]
             r == [r1 EXCEPT !.attempt = 1]
  <1>1. thread[t] \in Thread /\ thread[t].todo # <<>>
    BY DEF Inv, ThreadTypes, BeginStep, HasStep, At
  <1>2. Becomes(t, r)
    BY DEF BeginStep
  <1>3. "attempt" \in Labels
    BY DEF Labels
  <1>4. r1 \in Thread /\ r1.pc = "attempt" /\ r1.todo = thread[t].todo
    BY <1>1, <1>3, LocalType
  <1> HIDE DEF r1
  <1>5. r \in Thread /\ r.pc = "attempt" /\ r.todo = thread[t].todo
    BY <1>4, LocalType DEF SameControl
  <1> HIDE DEF r
  <1>6. Current(t) \in Required => Current(t) \in granted
    BY <1>1, TodoSplit DEF BeginStep, GateHolds, IsApproved, Inv, ApprovedWasGranted
  <1>7. ThreadOK(r, approvals, granted)
    BY <1>1, <1>5, <1>6 DEF ThreadOK, Current
  <1>8. QED
    BY <1>2, <1>5, <1>7, LocalInv DEF BeginStep

\* A failing step leaves the plan of the compensation behind.
LEMMA FailStepType ==
  ASSUME ThreadTypes, NEW t \in Threads, FailStep(t)
  PROVE  \E r \in Thread : Becomes(t, r) /\ r.pc = "compensate"
  <1> DEFINE done == {thread[t].completed[i] : i \in 1..Len(thread[t].completed)}
             plan == CompensationPlan(done, Current(t))
             r1 == [thread[t] EXCEPT !.pc = "compensate"]
             r == [r1 EXCEPT !.toUndo = plan]
  <1>1. thread[t] \in Thread /\ "compensate" \in Labels
    BY DEF ThreadTypes, Labels
  <1>2. plan \in SUBSET Steps
    <2>1. thread[t].completed \in Seq(Steps)
      BY <1>1 DEF Thread
    <2>2. done \in SUBSET Steps
      BY <2>1
    <2> HIDE DEF done
    <2>3. QED
      BY <2>2 DEF CompensationPlan
  <1>3. Becomes(t, r)
    BY DEF FailStep
  <1> HIDE DEF plan
  <1>4. r1 \in Thread /\ r1.pc = "compensate"
    BY <1>1, LocalType
  <1> HIDE DEF r1
  <1>5. r \in Thread /\ r.pc = "compensate"
    BY <1>2, <1>4, LocalType DEF SameControl
  <1> HIDE DEF r
  <1>6. QED
    BY <1>3, <1>5

LEMMA RefuseStepInv ==
  ASSUME Inv, NEW t \in Threads, RefuseStep(t)
  PROVE  Inv'
  <1>1. PICK r \in Thread : Becomes(t, r) /\ r.pc = "compensate"
    BY FailStepType DEF RefuseStep, Inv
  <1>2. ThreadOK(r, approvals, granted)
    BY <1>1 DEF ThreadOK
  <1>3. QED
    BY <1>1, <1>2, LocalInv DEF RefuseStep

\* The ways an attempt changes the stores: it may save the running record,
\* and perform the step the thread has a grant for.
LEMMA AttemptInv ==
  ASSUME Inv, NEW t \in Threads, At(t, "attempt"),
         NEW r \in Thread, Becomes(t, r), ThreadOK(r, approvals, granted),
         NEW result \in StepResults,
         RecordStep(t, result) \/ UNCHANGED <<record, results>>,
         Perform(t) \/ performed' = performed,
         UNCHANGED <<checkpoints, approvals, compensations, granted,
                     interrupted, used>>
  PROVE  Inv'
  <1>1. /\ thread[t].exec \in Executions
        /\ thread[t].todo # <<>>
        /\ Current(t) \in Required => Current(t) \in granted
    BY DEF Inv, ThreadTypes, Thread, ThreadsOK, ThreadOK, At, Current
  <1>2. Current(t) \in Steps
    BY <1>1, TodoSplit DEF Inv
  <1>3. ThreadTypes' /\ ThreadsOK'
    BY OneThread DEF Inv, Monotone
  <1>4. /\ record' \in [Executions -> Statuses]
        /\ \A e \in Executions : record'[e] \in {record[e], "running"}
    BY <1>1 DEF Inv, StoreTypes, RecordStep, Statuses
  <1>5. results' \in [Executions -> [Steps -> StepResults]]
    <2>1. CASE RecordStep(t, result)
      <3> DEFINE row == [results[thread[t].exec] EXCEPT ![Current(t)] = result]
      <3>1. row \in [Steps -> StepResults]
        BY <1>1, <1>2 DEF Inv, StoreTypes
      <3>2. results' = [results EXCEPT ![thread[t].exec] = row]
        BY <2>1 DEF RecordStep
      <3> HIDE DEF row
      <3>3. QED
        BY <1>1, <3>1, <3>2 DEF Inv, StoreTypes
    <2>2. CASE UNCHANGED <<record, results>>
      BY <2>2 DEF Inv, StoreTypes
    <2>3. QED
      BY <2>1, <2>2
  <1>6. /\ performed' \in [Executions -> SUBSET Steps]
        /\ \A e \in Executions :
               performed'[e] \subseteq performed[e] \cup {Current(t)}
    <2>1. performed \in [Executions -> SUBSET Steps]
      BY DEF Inv, StoreTypes
    <2>2. CASE Perform(t)
      <3> DEFINE x == thread[t].exec
                 done == performed[x] \cup {Current(t)}
      <3>1. performed' = [performed EXCEPT ![x] = done]
        BY <2>2 DEF Perform
      <3>2. done \in SUBSET Steps /\ x \in Executions
        BY <1>1, <1>2, <2>1
      <3>3. done = performed[x] \cup {Current(t)}
        OBVIOUS
      <3> HIDE DEF x, done
      <3>4. QED
        BY <2>1, <3>1, <3>2, <3>3
    <2>3. CASE performed' = performed
      BY <2>1, <2>3
    <2>4. QED
      BY <2>2, <2>3
  <1>7. StoreTypes'
    BY <1>4, <1>5, <1>6 DEF Inv, StoreTypes
  <1>8. GatedEffects'
    BY <1>1, <1>6 DEF Inv, GatedEffects
  <1>9. ApprovedWasGranted' /\ AwaitingHasRequests'
    BY <1>4 DEF Inv, ApprovedWasGranted, AwaitingHasRequests
  <1>10. QED
    BY <1>3, <1>7, <1>8, <1>9 DEF Inv

LEMMA HandlerReturnsInv ==
  ASSUME Inv, NEW t \in Threads, HandlerReturns(t)
  PROVE  Inv'
  <1> DEFINE r == [thread[t] EXCEPT !.pc = "checkpoint"]
  <1>1. /\ thread[t] \in Thread /\ thread[t].pc = "attempt"
        /\ ThreadOK(thread[t], approvals, granted)
    BY DEF Inv, ThreadTypes, ThreadsOK, HandlerReturns, At
  <1>2. "checkpoint" \in Labels /\ "succeeded" \in StepResults
    BY DEF Labels, StepResults
  <1>3. r \in Thread /\ r.pc = "checkpoint" /\ r.todo = thread[t].todo
    BY <1>1, <1>2, LocalType
  <1>4. Becomes(t, r)
    BY DEF HandlerReturns
  <1> HIDE DEF r
  <1>5. ThreadOK(r, approvals, granted)
    BY <1>1, <1>3 DEF ThreadOK
  <1>6. QED
    BY <1>2, <1>3, <1>4, <1>5, AttemptInv DEF HandlerReturns

\* An attempt that is not a success: another one follows, or the step fails.
LEMMA UnsuccessfulInv ==
  ASSUME Inv, NEW t \in Threads, At(t, "attempt"),
         NEW transient \in BOOLEAN, Retry(t, transient) \/ GiveUp(t, transient),
         Perform(t) \/ performed' = performed,
         UNCHANGED <<checkpoints, approvals, compensations, granted,
                     interrupted, used>>
  PROVE  Inv'
  <1>1. thread[t] \in Thread /\ ThreadOK(thread[t], approvals, granted)
    BY DEF Inv, ThreadTypes, ThreadsOK
  <1>2. "failed" \in StepResults
    BY DEF StepResults
  <1>3. CASE Retry(t, transient)
    <2> DEFINE r == [thread[t] EXCEPT !.pc = "backoff"]
    <2>1. Becomes(t, r)
      BY <1>3 DEF Retry
    <2>2. r \in Thread /\ r.pc = "backoff" /\ r.todo = thread[t].todo
      <3>1. "backoff" \in Labels
        BY DEF Labels
      <3>2. QED
        BY <1>1, <3>1, LocalType
    <2> HIDE DEF r
    <2>3. ThreadOK(r, approvals, granted)
      BY <1>1, <2>2 DEF ThreadOK, At
    <2>4. UNCHANGED <<record, results>>
      BY <1>3 DEF Retry
    <2>5. QED
      BY <1>2, <2>1, <2>2, <2>3, <2>4, AttemptInv
  <1>4. CASE GiveUp(t, transient)
    <2>1. PICK r \in Thread : Becomes(t, r) /\ r.pc = "compensate"
      BY <1>4, FailStepType DEF GiveUp, Inv
    <2>2. ThreadOK(r, approvals, granted)
      BY <2>1 DEF ThreadOK
    <2>3. RecordStep(t, "failed")
      BY <1>4 DEF GiveUp
    <2>4. QED
      BY <1>2, <2>1, <2>2, <2>3, AttemptInv
  <1>5. QED
    BY <1>3, <1>4

\* The delay keeps what the gate has told the thread.
LEMMA BackoffInv ==
  ASSUME Inv, NEW t \in Threads, Backoff(t)
  PROVE  Inv'
  <1> DEFINE r1 == [thread[t] EXCEPT !.pc = "attempt"]
             r == [r1 EXCEPT !.attempt = NextAttempt(thread[t].attempt)]
  <1>1. /\ thread[t] \in Thread /\ thread[t].pc = "backoff"
        /\ ThreadOK(thread[t], approvals, granted)
    BY DEF Inv, ThreadTypes, ThreadsOK, Backoff, At
  <1>2. "attempt" \in Labels /\ NextAttempt(thread[t].attempt) \in Nat
    BY <1>1 DEF Labels, Thread, NextAttempt
  <1>3. Becomes(t, r)
    BY DEF Backoff
  <1>4. r1 \in Thread /\ r1.pc = "attempt" /\ r1.todo = thread[t].todo
    BY <1>1, <1>2, LocalType
  <1> HIDE DEF r1
  <1>5. r \in Thread /\ r.pc = "attempt" /\ r.todo = thread[t].todo
    BY <1>2, <1>4, LocalType DEF SameControl
  <1> HIDE DEF r
  <1>6. ThreadOK(r, approvals, granted)
    BY <1>1, <1>5 DEF ThreadOK
  <1>7. QED
    BY <1>3, <1>5, <1>6, LocalInv DEF Backoff

LEMMA SaveCheckpointInv ==
  ASSUME Inv, NEW t \in Threads, SaveCheckpoint(t)
  PROVE  Inv'
  <1> DEFINE o == thread[t].outputs \cup {Current(t)}
             c == Append(thread[t].completed, Current(t))
             r1 == [thread[t] EXCEPT !.pc = "step"]
             r2 == [r1 EXCEPT !.todo = Tail(thread[t].todo)]
             r3 == [r2 EXCEPT !.completed = c]
             r == [r3 EXCEPT !.outputs = o]
  <1>1. thread[t] \in Thread /\ ThreadOK(thread[t], approvals, granted)
    BY DEF Inv, ThreadTypes, ThreadsOK
  <1>2. thread[t].todo # <<>>
    BY <1>1 DEF SaveCheckpoint, At, ThreadOK
  <1>3. Current(t) \in Steps /\ Tail(thread[t].todo) \in Seq(Steps)
    BY <1>2, TodoSplit DEF Inv
  <1>4. /\ thread[t].exec \in Executions
        /\ thread[t].completed \in Seq(Steps)
        /\ thread[t].outputs \in SUBSET Steps
    BY <1>1 DEF Thread
  <1>5. o \in SUBSET Steps /\ c \in Seq(Steps)
    BY <1>3, <1>4
  <1>6. Becomes(t, r)
    BY DEF SaveCheckpoint
  <1> HIDE DEF o, c
  <1>7. r1 \in Thread /\ r1.pc = "step"
    <2>1. "step" \in Labels
      BY DEF Labels
    <2>2. QED
      BY <1>1, <2>1, LocalType
  <1> HIDE DEF r1
  <1>8. r2 \in Thread /\ r2.pc = "step"
    BY <1>3, <1>7, LocalType
  <1> HIDE DEF r2
  <1>9. r3 \in Thread /\ r3.pc = "step"
    BY <1>5, <1>8, LocalType DEF SameControl
  <1> HIDE DEF r3
  <1>10. r \in Thread /\ r.pc = "step"
    BY <1>5, <1>9, LocalType DEF SameControl
  <1> HIDE DEF r
  <1>11. Monotone /\ ThreadOK(r, approvals', granted')
    BY <1>10 DEF SaveCheckpoint, history, Monotone, ThreadOK
  <1>12. ThreadTypes' /\ ThreadsOK'
    BY <1>6, <1>10, <1>11, OneThread DEF Inv
  <1>13. checkpoints' \in [Executions -> SUBSET Steps]
    BY <1>3, <1>4 DEF SaveCheckpoint, Inv, StoreTypes
  <1>14. /\ StoreTypes' /\ ApprovedWasGranted' /\ GatedEffects'
         /\ AwaitingHasRequests'
    BY <1>13 DEF Inv, StoreTypes, ApprovedWasGranted, GatedEffects,
                 AwaitingHasRequests, SaveCheckpoint, history
  <1>15. QED
    BY <1>12, <1>14 DEF Inv

\* run returns with a verdict: nothing but the record changes for the gates.
LEMMA VerdictInv ==
  ASSUME Inv, NEW t \in Threads, NEW status \in {"completed", "failed"},
         Finish(t, status),
         UNCHANGED <<results, checkpoints, approvals, performed, granted>>,
         compensations' \in [Executions -> [Steps -> Rollbacks]],
         interrupted' \subseteq Executions,
         used' \in [Bounded -> Nat]
  PROVE  Inv'
  <1>1. status \in Statuses
    BY DEF Statuses
  <1>2. /\ ThreadTypes' /\ ThreadsOK'
        /\ record' \in [Executions -> Statuses]
        /\ \A e \in Executions : record'[e] = record[e] \/ record'[e] = status
    BY <1>1, FinishInv
  <1>3. StoreTypes' /\ ApprovedWasGranted' /\ GatedEffects'
    BY <1>2 DEF Inv, StoreTypes, ApprovedWasGranted, GatedEffects
  <1>4. AwaitingHasRequests'
    BY <1>2 DEF Inv, AwaitingHasRequests
  <1>5. QED
    BY <1>2, <1>3, <1>4 DEF Inv

LEMMA CompleteInv ==
  ASSUME Inv, NEW t \in Threads, Complete(t)
  PROVE  Inv'
  BY VerdictInv DEF Complete, history, Inv, StoreTypes

LEMMA CompensateInv ==
  ASSUME Inv, NEW t \in Threads, NEW s \in Steps, Compensate(t, s)
  PROVE  Inv'
  <1> DEFINE u == thread[t].toUndo \ {s}
             v == [thread[t].undone EXCEPT ![s] = RollbackOutcome(s)]
             r1 == [thread[t] EXCEPT !.toUndo = u]
             r == [r1 EXCEPT !.undone = v]
  <1>1. thread[t] \in Thread /\ thread[t].pc = "compensate"
    BY DEF Inv, ThreadTypes, Compensate, At
  <1>2. /\ thread[t].toUndo \in SUBSET Steps
        /\ thread[t].undone \in [Steps -> Rollbacks]
    BY <1>1 DEF Thread
  <1>3. RollbackOutcome(s) \in Rollbacks
    BY DEF RollbackOutcome, Rollbacks
  <1>4. u \in SUBSET Steps /\ v \in [Steps -> Rollbacks]
    BY <1>2, <1>3
  <1>5. Becomes(t, r)
    <2>1. r = [thread[t] EXCEPT !.toUndo = u, !.undone[s] = RollbackOutcome(s)]
      BY <1>1 DEF Thread
    <2>2. QED
      BY <2>1 DEF Compensate
  <1> HIDE DEF u, v
  <1>6. r1 \in Thread /\ r1.pc = "compensate"
    BY <1>1, <1>4, LocalType DEF SameControl
  <1> HIDE DEF r1
  <1>7. r \in Thread /\ r.pc = "compensate"
    BY <1>4, <1>6, LocalType DEF SameControl
  <1> HIDE DEF r
  <1>8. ThreadOK(r, approvals, granted)
    BY <1>7 DEF ThreadOK
  <1>9. QED
    BY <1>5, <1>7, <1>8, LocalInv DEF Compensate

LEMMA RecordRollbackInv ==
  ASSUME Inv, NEW t \in Threads, NEW s \in Steps, RecordRollback(t, s)
  PROVE  Inv'
  <1> DEFINE x == thread[t].exec
             u == [thread[t].undone EXCEPT ![s] = "none"]
             r == [thread[t] EXCEPT !.undone = u]
  <1>1. thread[t] \in Thread /\ thread[t].pc = "compensate"
    BY DEF Inv, ThreadTypes, RecordRollback, At
  <1>2. x \in Executions /\ thread[t].undone \in [Steps -> Rollbacks]
    BY <1>1 DEF Thread
  <1>3. "none" \in Rollbacks
    BY DEF Rollbacks
  <1>4. u \in [Steps -> Rollbacks]
    BY <1>2, <1>3
  <1>5. Becomes(t, r)
    <2>1. r = [thread[t] EXCEPT !.undone[s] = "none"]
      BY <1>1 DEF Thread
    <2>2. QED
      BY <2>1 DEF RecordRollback
  <1>6. compensations' \in [Executions -> [Steps -> Rollbacks]]
    BY <1>2 DEF RecordRollback, Inv, StoreTypes
  <1> HIDE DEF u
  <1>7. r \in Thread /\ r.pc = "compensate"
    BY <1>1, <1>4, LocalType DEF SameControl
  <1> HIDE DEF r
  <1>8. Monotone /\ ThreadOK(r, approvals', granted')
    BY <1>7 DEF RecordRollback, history, Monotone, ThreadOK
  <1>9. ThreadTypes' /\ ThreadsOK'
    BY <1>5, <1>7, <1>8, OneThread DEF Inv
  <1>10. /\ StoreTypes' /\ ApprovedWasGranted' /\ GatedEffects'
         /\ AwaitingHasRequests'
    BY <1>6 DEF Inv, StoreTypes, ApprovedWasGranted, GatedEffects,
                AwaitingHasRequests, RecordRollback, history
  <1>11. QED
    BY <1>9, <1>10 DEF Inv

LEMMA FinishFailedInv ==
  ASSUME Inv, NEW t \in Threads, FinishFailed(t)
  PROVE  Inv'
  BY VerdictInv DEF FinishFailed, history, Inv, StoreTypes

LEMMA UseType ==
  ASSUME Inv, NEW b \in Bounded, Use(b)
  PROVE  used' \in [Bounded -> Nat]
  BY DEF Use, Inv, StoreTypes

LEMMA InterruptInv ==
  ASSUME Inv, NEW t \in Threads, Interrupt(t)
  PROVE  Inv'
  <1>1. thread[t].exec \in Executions
    BY DEF Inv, ThreadTypes, Thread
  <1>2. "interrupt" \in Bounded
    BY DEF Bounded
  <1>3. used' \in [Bounded -> Nat]
    BY <1>2, UseType DEF Interrupt
  <1>4. PICK status \in {"completed", "failed"} : Finish(t, status)
    BY DEF Interrupt
  <1>5. interrupted' \subseteq Executions
    BY <1>1 DEF Interrupt, Inv, StoreTypes
  <1>6. compensations' \in [Executions -> [Steps -> Rollbacks]]
    BY DEF Interrupt, Inv, StoreTypes
  <1>7. QED
    BY <1>3, <1>4, <1>5, <1>6, VerdictInv DEF Interrupt

LEMMA DecideInv ==
  ASSUME Inv, NEW s \in Steps, NEW decision \in {"approved", "rejected"},
         Decide(s, decision)
  PROVE  Inv'
  <1>1. "decide" \in Bounded
    BY DEF Bounded
  <1>2. used' \in [Bounded -> Nat]
    BY <1>1, UseType DEF Decide
  <1>3. /\ approvals' \in [Steps -> Decisions]
        /\ approvals'[s] = decision
        /\ \A d \in Steps : d # s => approvals'[d] = approvals[d]
    BY DEF Decide, Inv, StoreTypes, Decisions
  <1>4. granted \subseteq granted' /\ granted' \subseteq Steps
        /\ (decision = "approved" => s \in granted')
    BY DEF Decide, Inv, StoreTypes
  <1>5. Monotone
    BY <1>3, <1>4 DEF Monotone
  <1>6. ThreadTypes' /\ ThreadsOK'
    <2>1. thread' = thread
      BY DEF Decide
    <2>2. \A d \in Required : approvals[d] # "none" => approvals'[d] # "none"
      BY <1>5, WorkflowAssumption DEF Monotone
    <2>3. ASSUME NEW u \in Threads PROVE ThreadOK(thread[u], approvals', granted')
      <3>1. ThreadOK(thread[u], approvals, granted)
        BY DEF Inv, ThreadsOK
      <3>2. QED
        BY <1>4, <2>2, <3>1, ThreadOKMonotone
    <2>4. QED
      BY <2>1, <2>3 DEF Inv, ThreadTypes, ThreadsOK
  <1>7. StoreTypes'
    BY <1>2, <1>3, <1>4 DEF Inv, StoreTypes, Decide
  <1>8. ApprovedWasGranted'
    BY <1>3, <1>4 DEF Inv, ApprovedWasGranted
  <1>9. GatedEffects'
    BY <1>4 DEF Inv, GatedEffects, Decide
  <1>10. AwaitingHasRequests'
    <2>1. \A d \in Required : approvals[d] # "none" => approvals'[d] # "none"
      BY <1>5, WorkflowAssumption DEF Monotone
    <2>2. QED
      BY <2>1 DEF Inv, AwaitingHasRequests, Decide
  <1>11. QED
    BY <1>6, <1>7, <1>8, <1>9, <1>10 DEF Inv

LEMMA CrashInv ==
  ASSUME Inv, Crash
  PROVE  Inv'
  <1>1. "crash" \in Bounded
    BY DEF Bounded
  <1>2. used' \in [Bounded -> Nat]
    BY <1>1, UseType DEF Crash
  <1>3. ASSUME NEW u \in Threads
        PROVE  /\ thread'[u] \in Thread
               /\ ThreadOK(thread'[u], approvals', granted')
    <2>1. thread[u].exec \in Executions
      BY DEF Inv, ThreadTypes, Thread
    <2>2. thread'[u] = Idle(thread[u].exec)
      BY DEF Crash
    <2>3. thread'[u] \in Thread /\ thread'[u].pc = "idle"
      BY <2>1, <2>2, IdleType
    <2>4. QED
      BY <2>3 DEF ThreadOK
  <1>4. ThreadTypes' /\ ThreadsOK'
    BY <1>3 DEF ThreadTypes, ThreadsOK, Crash
  <1>5. /\ StoreTypes' /\ ApprovedWasGranted' /\ GatedEffects'
        /\ AwaitingHasRequests'
    BY <1>2 DEF Inv, StoreTypes, ApprovedWasGranted, GatedEffects,
                AwaitingHasRequests, Crash, stores, history
  <1>6. QED
    BY <1>4, <1>5 DEF Inv

-----------------------------------------------------------------------------
(* The invariant *)

LEMMA InvInit == Init => Inv
  <1> SUFFICES ASSUME Init PROVE Inv
    OBVIOUS
  <1> DEFINE e0 == CHOOSE e \in Executions : TRUE
  <1>1. e0 \in Executions
    BY EnvironmentAssumption
  <1>2. thread = [t \in Threads |-> Idle(e0)]
    BY DEF Init
  <1> HIDE DEF e0
  <1>3. \A t \in Threads : thread[t] \in Thread /\ thread[t].pc = "idle"
    BY <1>1, <1>2, IdleType
  <1>4. ThreadTypes /\ ThreadsOK
    BY <1>2, <1>3 DEF ThreadTypes, ThreadsOK, ThreadOK
  <1>5. StoreTypes
    BY DEF Init, StoreTypes, Statuses, StepResults, Decisions, Rollbacks, Bounded
  <1>6. ApprovedWasGranted /\ GatedEffects /\ AwaitingHasRequests
    BY DEF Init, ApprovedWasGranted, GatedEffects, AwaitingHasRequests
  <1>7. QED
    BY <1>4, <1>5, <1>6 DEF Inv

LEMMA ProceedInv ==
  ASSUME Inv, NEW t \in Threads, Proceed(t)
  PROVE  Inv'
  <1>1. CASE PassGate(t) \/ Start(t) \/ Blocked(t) \/ EnsureRequest(t)
             \/ CreateRequest(t) \/ AwaitApproval(t)
    BY <1>1, PassGateInv, StartInv, BlockedInv, EnsureRequestInv, CreateRequestInv,
       AwaitApprovalInv
  <1>2. CASE SkipStep(t) \/ BeginStep(t) \/ RefuseStep(t) \/ HandlerReturns(t)
             \/ Backoff(t) \/ SaveCheckpoint(t) \/ Complete(t)
             \/ FinishFailed(t)
    BY <1>2, SkipStepInv, BeginStepInv, RefuseStepInv, HandlerReturnsInv,
       BackoffInv, SaveCheckpointInv, CompleteInv, FinishFailedInv
  <1>3. CASE HandlerTimesOut(t)
    <2>1. TRUE \in BOOLEAN /\ (Retry(t, TRUE) \/ GiveUp(t, TRUE))
      BY <1>3 DEF HandlerTimesOut
    <2>2. QED
      BY <1>3, <2>1, UnsuccessfulInv DEF HandlerTimesOut
  <1>4. ASSUME NEW transient \in BOOLEAN, HandlerRaises(t, transient)
        PROVE  Inv'
    BY <1>4, UnsuccessfulInv DEF HandlerRaises, history
  <1>5. ASSUME NEW s \in Steps, Compensate(t, s) \/ RecordRollback(t, s)
        PROVE  Inv'
    BY <1>5, CompensateInv, RecordRollbackInv
  <1>6. QED
    BY <1>1, <1>2, <1>3, <1>4, <1>5 DEF Proceed

LEMMA InvNext == Inv /\ [Next]_vars => Inv'
  <1> SUFFICES ASSUME Inv, [Next]_vars PROVE Inv'
    OBVIOUS
  <1>1. ASSUME NEW t \in Threads, NEW e \in Executions, RunFresh(t, e)
        PROVE  Inv'
    <2>1. used' \in [Bounded -> Nat] /\ FALSE \in BOOLEAN
      BY <1>1 DEF RunFresh, Inv, StoreTypes
    <2>2. QED
      BY <1>1, <2>1, BeginInv DEF RunFresh
  <1>2. ASSUME NEW t \in Threads, NEW e \in Executions, RunResume(t, e)
        PROVE  Inv'
    <2>1. "resume" \in Bounded /\ TRUE \in BOOLEAN
      BY DEF Bounded
    <2>2. used' \in [Bounded -> Nat]
      BY <1>2, <2>1, UseType DEF RunResume
    <2>3. QED
      BY <1>2, <2>1, <2>2, BeginInv DEF RunResume
  <1>3. ASSUME NEW t \in Threads, Proceed(t) \/ Interrupt(t) PROVE Inv'
    BY <1>3, ProceedInv, InterruptInv
  <1>4. ASSUME NEW s \in Steps, NEW decision \in {"approved", "rejected"},
               Decide(s, decision)
        PROVE  Inv'
    BY <1>4, DecideInv
  <1>5. CASE Crash
    BY <1>5, CrashInv
  <1>6. CASE UNCHANGED vars
    <2>1. UNCHANGED <<stores, thread, history, used>>
      BY <1>6 DEF vars
    <2>2. QED
      BY <2>1 DEF stores, history, Inv, StoreTypes, ThreadTypes, ThreadsOK,
                  ApprovedWasGranted, GatedEffects, AwaitingHasRequests
  <1>7. QED
    BY <1>1, <1>2, <1>3, <1>4, <1>5, <1>6 DEF Next

LEMMA InvAlways == Spec => []Inv
  BY InvInit, InvNext, PTL DEF Spec

-----------------------------------------------------------------------------
(* The properties *)

\* The stores and the local variables of every call of run keep their types:
\* in particular record only ever holds the statuses its readers know.
THEOREM TypeCorrect == Spec => []TypeOK
  <1>1. Inv => TypeOK
    BY DEF Inv, StoreTypes, ThreadTypes, TypeOK
  <1>2. QED
    BY InvAlways, <1>1, PTL

\* No handler of a gated step ever runs without a grant, for every workflow
\* and any number of concurrent runs, decisions, resumes and crashes
\* (_run_step, _ensure_requests, ApprovalStore).
THEOREM EffectsAreGated == Spec => []GatedEffects
  <1>1. Inv => GatedEffects
    BY DEF Inv
  <1>2. QED
    BY InvAlways, <1>1, PTL

\* A run that reports awaiting_approval leaves a request for every gating
\* step behind (_ensure_requests).
THEOREM AwaitingIsActionable == Spec => []AwaitingHasRequests
  <1>1. Inv => AwaitingHasRequests
    BY DEF Inv
  <1>2. QED
    BY InvAlways, <1>1, PTL
=============================================================================
