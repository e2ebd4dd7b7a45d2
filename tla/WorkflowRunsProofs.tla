--------------------------- MODULE WorkflowRunsProofs ---------------------------
(***************************************************************************)
(* Safety of WorkflowRuns for any definitions, steps, requests, expired    *)
(* leases and restarts.                                                    *)
(*                                                                         *)
(* Argument. What a session has completed determines what it has flushed:  *)
(* a step enters a batch only after its dependencies were completed, and   *)
(* an approval is never completed. A status COMPLETED that a session will  *)
(* write is the one it ended with, when it had completed every step.       *)
(*                                                                         *)
(* Three more invariants follow, each over what a step does to the parts   *)
(* of a session: who holds the lease of the recoveries at work, what a     *)
(* WAITING run waits for, and what the row lock protects between the plan  *)
(* of a compensation and its commit.                                       *)
(***************************************************************************)
EXTENDS WorkflowRuns, FiniteSetTheorems, TLAPS

-----------------------------------------------------------------------------
(* Types *)

\* The requests of a session are one PENDING approval for each step it asks for.
LEMMA RequestsForm ==
  ASSUME NEW r \in Request, session[r].asks \subseteq Step
  PROVE  \E n \in Nat :
            /\ Requests(r) \in [1 .. n -> [step : Step, status : {"PENDING"}]]
            /\ n = 0 <=> session[r].asks = {}
<1> DEFINE S == {[step |-> x, status |-> "PENDING"] : x \in session[r].asks}
<1>1. S \subseteq [step : Step, status : {"PENDING"}]
  OBVIOUS
<1>0. S = {} <=> session[r].asks = {}
  BY Zenon
<1>2. IsFiniteSet(session[r].asks)
  BY FS_Subset, WorkflowAssumption
<1>3. IsFiniteSet(S)
  <2> DEFINE f == [x \in session[r].asks |-> [step |-> x, status |-> "PENDING"]]
  <2>1. f \in Surjection(session[r].asks, S)
    BY DEF Surjection
  <2> QED BY <1>2, <2>1, FS_Surjection
<1>4. /\ Cardinality(S) \in Nat /\ ExistsBijection(1 .. Cardinality(S), S)
      /\ Cardinality(S) = 0 <=> S = {}
  BY <1>3, FS_CardinalityType, FS_EmptySet
<1>5. PICK f \in [1 .. Cardinality(S) -> S] : IsInjective(f)
  BY <1>4 DEF ExistsBijection, Bijection, Injection, IsInjective
<1>6. SetToSeq(S) \in [1 .. Cardinality(S) -> S]
  BY <1>5, Zenon DEF SetToSeq
<1> HIDE DEF S
<1>7. SetToSeq(S) \in [1 .. Cardinality(S) -> [step : Step, status : {"PENDING"}]]
  BY <1>1, <1>4, <1>6
<1>8. Requests(r) = SetToSeq(S)
  BY DEF Requests, S
<1> QED BY <1>0, <1>4, <1>7, <1>8

\* The approvals a session asks for form a sequence.
LEMMA RequestsTyped ==
  ASSUME NEW r \in Request, session[r].asks \subseteq Step
  PROVE  Requests(r) \in Seq(Approval)
<1>1. PICK n \in Nat : Requests(r) \in [1 .. n -> [step : Step, status : {"PENDING"}]]
  BY RequestsForm
<1>2. [step : Step, status : {"PENDING"}] \subseteq Approval
  BY DEF Approval, Answers, Decisions
<1>3. Requests(r) \in [1 .. n -> Approval]
  BY <1>1, <1>2
<1> QED BY <1>3

LEMMA FreshTyped == \A n \in Nat : Fresh \in Sessions(n)
<1> Zero \in Count /\ "NONE" \in Status
  BY DEF Zero, Count, Status, Terminal
<1> QED BY DEF Fresh, Sessions, Answers

\* What is known of the approvals only grows.
LEMMA SessionsGrow ==
  ASSUME NEW m \in Nat, NEW n \in Nat, m <= n PROVE Sessions(m) \subseteq Sessions(n)
<1>1. 0 .. m \subseteq 0 .. n
  OBVIOUS
<1> QED BY <1>1 DEF Sessions

LEMMA TypeInit == Init => TypeOK
<1> SUFFICES ASSUME Init PROVE TypeOK
  OBVIOUS
<1>1. Zero \in Count /\ "NONE" \in Status
  BY DEF Zero, Count, Status, Terminal
<1>2. approvals \in Seq(Approval) /\ Len(approvals) = 0
  BY DEF Init
<1>3. session \in [Request -> Sessions(Len(approvals))]
  BY <1>2, FreshTyped DEF Init
<1>4. lease \in Lease
  <2>1. FALSE \in BOOLEAN /\ None \in {WorkerOf[r] : r \in Request} \cup {None}
    OBVIOUS
  <2> QED BY <2>1 DEF Init, Lease, NoLease
<1>5. op \in [Request -> Operations] /\ pc \in [Request -> Stages]
  BY DEF Init, Operations, Stages
<1>6. expiries \in 0 .. MaxExpiries /\ crashes \in 0 .. MaxCrashes /\ locker \in Request \cup {None}
  BY WorkflowAssumption DEF Init
<1> QED BY <1>1, <1>2, <1>3, <1>4, <1>5, <1>6 DEF Init, TypeOK, Approval, Answers, Decisions

\* The forms of a step: a request begins, goes on, or rolls back.
LEMMA BeginTyped ==
  ASSUME TypeOK, NEW r \in Request, NEW k \in Operations, NEW l \in Stages,
         NEW s \in Sessions(Len(approvals)), Begin(r, k, l, s), lease' \in Lease
  PROVE  TypeOK'
  BY DEF Begin, db, TypeOK
LEMMA GotoTyped ==
  ASSUME TypeOK, NEW r \in Request, NEW l \in Stages, NEW s \in Sessions(Len(approvals)),
         Goto(r, l, s), UNCHANGED db, locker' \in Request \cup {None}
  PROVE  TypeOK'
  BY DEF Goto, db, TypeOK
LEMMA RollBackTyped == ASSUME TypeOK, NEW r \in Request, RollBack(r) PROVE TypeOK'
<1>1. session' \in [Request -> Sessions(Len(approvals))] /\ Len(approvals) \in Nat
  <2>1. Len(approvals) \in Nat
    BY DEF TypeOK
  <2> QED BY <2>1, FreshTyped DEF RollBack, TypeOK
<1>2. lease' \in Lease
  <2>1. NoLease \in Lease
    <3>1. FALSE \in BOOLEAN
      OBVIOUS
    <3> QED BY <3>1 DEF NoLease, Lease
  <2> QED BY <2>1 DEF RollBack, LeaseAfter, TypeOK
<1>3. pc' \in [Request -> Stages] /\ locker' \in Request \cup {None}
  BY DEF RollBack, Unlocked, Stages, TypeOK
<1> QED BY <1>1, <1>2, <1>3 DEF RollBack, db, TypeOK

-----------------------------------------------------------------------------
(* What a session has completed *)

\* No dependency of x asks for an approval.
Free(x) == \A d \in definition.deps[x] : Kind(d) # "APPROVAL"

\* A session that has completed x has flushed what x does.
Has(s, x) ==
    /\ Kind(x) = "TASK" /\ OnFailure(x) # "skip" => x \in s.mine
    /\ Kind(x) = "CHILD" => x \in s.child \cup children
    /\ Kind(x) = "WAIT" => s.waits
    /\ Kind(x) \notin {"APPROVAL", "BROKEN", "NOCHILD", "UNTRIED"}

\* A session at stage l, in parts: what it completed, what it may take, how it ends.
Work(s) ==
    /\ \A x \in s.completed : Has(s, x)
    /\ \A x \in s.todo : Free(x) /\ Kind(x) \notin {"APPROVAL", "BROKEN"}
    /\ \A x \in s.mine : Free(x)
Ending(l, s) ==
    /\ s.final = "COMPLETED" => s.completed = Step /\ ~s.waits
    /\ l \in {"idle", "loaded", "marking", "running"} => s.final = "NONE"
    /\ l \in {"idle", "loaded", "marking"} => ~s.wrote
    /\ l = "running" /\ s.wrote => s.status = "RUNNING"
    /\ l = "flushed" /\ s.wrote /\ s.status = "COMPLETED" => s.final = "COMPLETED"
Good(l, s) == Work(s) /\ Ending(l, s)

Inv ==
    /\ TypeOK
    /\ \A r \in Request : Good(pc[r], session[r])
    /\ \A x \in Step : done[x] > 0 => Free(x)
    /\ CompletedMeansDone

LEMMA FreshGood == \A l \in Stages : Good(l, Fresh)
  BY DEF Fresh, Good, Work, Ending

\* A session that stays good while children are added stays good.
LEMMA Others ==
  ASSUME Inv, definition' = definition, children \subseteq children', NEW l, NEW s, Good(l, s)
  PROVE  Good(l, s)'
  BY DEF Good, Work, Ending, Has, Free, Kind, OnFailure

\* A step of r that changes nothing in the database, to a good session.
Moves(r) ==
    /\ UNCHANGED db /\ locker' \in Request \cup {None}
    /\ \E l \in Stages, s \in Sessions(Len(approvals)) : Goto(r, l, s) /\ Good(l, s)
Begins(r) ==
    /\ lease' \in Lease
    /\ \E k \in Operations, l \in Stages, s \in Sessions(Len(approvals)) :
         Begin(r, k, l, s) /\ Good(l, s)

\* The committed part of the invariant is kept by a step that leaves the database alone.
LEMMA SameRows ==
  ASSUME Inv, UNCHANGED db, TypeOK', \A r \in Request : Good(pc'[r], session'[r])
  PROVE  Inv'
<1>1. \A r \in Request : Good(pc[r], session[r])'
  BY Others DEF db
<1>2. (\A x \in Step : done[x] > 0 => Free(x))' /\ CompletedMeansDone'
  BY DEF Inv, db, Free, Kind, CompletedMeansDone
<1> QED BY <1>1, <1>2 DEF Inv

LEMMA MovesInv == ASSUME Inv, NEW r \in Request, Moves(r) PROVE Inv'
<1>1. PICK l \in Stages, s \in Sessions(Len(approvals)) : Goto(r, l, s) /\ Good(l, s)
  BY DEF Moves
<1>2. TypeOK'
  BY <1>1, GotoTyped DEF Moves, Inv
<1>3. \A q \in Request : Good(pc'[q], session'[q])
  BY <1>1 DEF Goto, Inv, TypeOK
<1> QED BY <1>2, <1>3, SameRows DEF Moves

LEMMA BeginsInv == ASSUME Inv, NEW r \in Request, Begins(r) PROVE Inv'
<1>1. PICK k \in Operations, l \in Stages, s \in Sessions(Len(approvals)) :
         Begin(r, k, l, s) /\ Good(l, s)
  BY DEF Begins
<1>2. TypeOK'
  BY <1>1, BeginTyped DEF Begins, Inv
<1>3. \A q \in Request : Good(pc'[q], session'[q])
  BY <1>1 DEF Begin, Inv, TypeOK
<1>4. UNCHANGED db
  BY <1>1 DEF Begin
<1> QED BY <1>2, <1>3, <1>4, SameRows

LEMMA RollBackInv == ASSUME Inv, NEW r \in Request, RollBack(r) PROVE Inv'
<1>1. TypeOK'
  BY RollBackTyped DEF Inv
<1>2. \A q \in Request : Good(pc'[q], session'[q])
  BY FreshGood DEF RollBack, Inv, TypeOK, Stages
<1>3. UNCHANGED db
  BY DEF RollBack
<1> QED BY <1>1, <1>2, <1>3, SameRows

-----------------------------------------------------------------------------
(* The actions *)

\* A session that has only read is good at every stage it may start in.
LEMMA ReadingGood ==
  ASSUME TypeOK
  PROVE  Reading \in Sessions(Len(approvals)) /\ \A l \in Stages : Good(l, Reading)
<1>1. Fresh \in Sessions(Len(approvals)) /\ row \in Status
  BY FreshTyped DEF TypeOK
<1>2. Reading \in Sessions(Len(approvals))
  BY <1>1 DEF Reading, Sessions
<1> QED BY <1>2 DEF Reading, Fresh, Good, Work, Ending
LEMMA CancelGood ==
  ASSUME TypeOK, NEW m \in SUBSET Step, \A x \in m : Free(x)
  PROVE  /\ [Reading EXCEPT !.mine = m] \in Sessions(Len(approvals))
         /\ Good("loaded", [Reading EXCEPT !.mine = m])
<1>1. [Reading EXCEPT !.mine = m] \in Sessions(Len(approvals))
  BY ReadingGood DEF Sessions
<1> QED BY <1>1 DEF Reading, Fresh, Good, Work, Ending
LEMMA DecisionGood ==
  ASSUME TypeOK, NEW a \in 0 .. Len(approvals), NEW d \in Answers
  PROVE  /\ [Fresh EXCEPT !.answers = a, !.decision = d] \in Sessions(Len(approvals))
         /\ Good("loaded", [Fresh EXCEPT !.answers = a, !.decision = d])
<1>1. Fresh \in Sessions(Len(approvals))
  BY FreshTyped DEF TypeOK
<1>2. [Fresh EXCEPT !.answers = a, !.decision = d] \in Sessions(Len(approvals))
  BY <1>1 DEF Sessions, Answers, Decisions
<1> QED BY <1>2 DEF Fresh, Good, Work, Ending

LEMMA StartInv == ASSUME Inv, NEW r \in Request, Start(r) PROVE Inv'
<1>0. TypeOK /\ Len(approvals) \in Nat /\ lease \in Lease
  BY DEF Inv, TypeOK
<1>1. CASE Trigger(r)
  <2>1. PICK l \in {"loaded", "running"} : Begin(r, "trigger", l, Reading)
    BY <1>1, Zenon DEF Trigger
  <2>2. Reading \in Sessions(Len(approvals)) /\ Good(l, Reading)
    BY <1>0, ReadingGood DEF Stages
  <2> QED BY <1>0, <1>1, <2>1, <2>2, BeginsInv DEF Trigger, Begins, Operations, Stages
<1>2. CASE PauseLoad(r)
  <2>1. Reading \in Sessions(Len(approvals)) /\ Good("loaded", Reading)
    BY <1>0, ReadingGood DEF Stages
  <2> QED BY <1>0, <1>2, <2>1, BeginsInv DEF PauseLoad, Begins, Operations, Stages
<1>3. CASE CancelLoad(r)
  <2> DEFINE m == {s \in Step : done[s] > 0}
  <2>1. \A x \in m : Free(x)
    BY DEF Inv
  <2>2. /\ [Reading EXCEPT !.mine = m] \in Sessions(Len(approvals))
        /\ Good("loaded", [Reading EXCEPT !.mine = m])
    BY <1>0, <2>1, CancelGood
  <2> QED BY <1>0, <1>3, <2>2, BeginsInv DEF CancelLoad, Begins, Operations, Stages
<1>4. CASE Resume(r)
  <2>1. Reading \in Sessions(Len(approvals)) /\ Good("marking", Reading)
    BY <1>0, ReadingGood DEF Stages
  <2> QED BY <1>0, <1>4, <2>1, BeginsInv DEF Resume, Begins, Operations, Stages
<1>5. CASE Recover(r)
  <2>1. Reading \in Sessions(Len(approvals)) /\ Good("marking", Reading)
    BY <1>0, ReadingGood DEF Stages
  <2>2. lease' \in Lease
    <3>1. TRUE \in BOOLEAN
      OBVIOUS
    <3> QED BY <1>5, <3>1 DEF Recover, Lease
  <2> QED BY <1>5, <2>1, <2>2, BeginsInv DEF Recover, Begins, Operations, Stages
<1>6. ASSUME NEW i \in DOMAIN approvals, NEW d \in Decisions, DecideLoad(r, i, d)
      PROVE  Inv'
  <2> DEFINE s == [Fresh EXCEPT !.answers = i, !.decision = d]
  <2>1. i \in 0 .. Len(approvals)
    BY DEF Inv, TypeOK
  <2>2. s \in Sessions(Len(approvals)) /\ Good("loaded", s)
    BY <1>0, <2>1, DecisionGood DEF Answers, Decisions
  <2> HIDE DEF s
  <2>3. Begin(r, "decide", "loaded", s) /\ lease' = lease
    BY <1>6 DEF DecideLoad, s
  <2> QED BY <1>0, <2>2, <2>3, BeginsInv DEF Begins, Operations, Stages
<1> QED BY <1>1, <1>2, <1>3, <1>4, <1>5, <1>6 DEF Start

LEMMA DecideInv == ASSUME Inv, NEW r \in Request, Decide(r) PROVE Inv'
<1> DEFINE s == [session[r] EXCEPT !.status = row]
<1>1. /\ session[r] \in Sessions(Len(approvals)) /\ Good("loaded", session[r])
      /\ row \in Status /\ locker \in Request \cup {None}
  BY DEF Decide, Inv, TypeOK
<1>2. s \in Sessions(Len(approvals))
  BY <1>1 DEF Sessions
<1>3. Good("flushed", s) /\ Good("marking", s)
  BY <1>1 DEF Good, Work, Ending, Has, Sessions
<1> HIDE DEF s
<1>4. PICK l \in {"flushed", "marking"} : Goto(r, l, s)
  BY Zenon DEF Decide, s
<1>5. UNCHANGED <<db, locker>>
  BY DEF Decide
<1> QED BY <1>1, <1>2, <1>3, <1>4, <1>5, MovesInv DEF Moves, Stages

LEMMA MarkInv == ASSUME Inv, NEW r \in Request, Mark(r) PROVE Inv'
<1> DEFINE w == session[r].wrote \/ session[r].status # "RUNNING"
           s == [session[r] EXCEPT !.wrote = w, !.status = "RUNNING"]
<1>1. session[r] \in Sessions(Len(approvals)) /\ Good("marking", session[r])
  BY DEF Mark, Inv, TypeOK
<1>2. w \in BOOLEAN /\ "RUNNING" \in Status
  BY Zenon DEF Status
<1>3. Goto(r, "running", s) /\ UNCHANGED db /\ locker' \in Request \cup {None}
  BY DEF Mark, Inv, TypeOK
<1> HIDE DEF w
<1>4. s \in Sessions(Len(approvals)) /\ Good("running", s)
  BY <1>1, <1>2 DEF Sessions, Good, Work, Ending, Has
<1> HIDE DEF s
<1> QED BY <1>3, <1>4, MovesInv DEF Moves, Stages

\* A runner's turn: it has completed everything, or asks, or takes ready steps.
LEMMA PickInv == ASSUME Inv, NEW r \in Request, Pick(r) PROVE Inv'
<1> DEFINE s == session[r]
           asks == {x \in Ready(r) : Kind(x) = "APPROVAL"}
<1>0. /\ s \in Sessions(Len(approvals)) /\ Good("running", s) /\ pc[r] = "running" /\ s.todo = {}
      /\ UNCHANGED <<db, locker>> /\ locker \in Request \cup {None}
  BY DEF Pick, Inv, TypeOK
<1>1. \A f \in Status : [s EXCEPT !.final = f] \in Sessions(Len(approvals))
  BY <1>0 DEF Sessions
<1>2. {"WAITING", "COMPLETED", "FAILED"} \subseteq Status
  BY DEF Status, Terminal
<1>3. CASE /\ s.completed = Step
           /\ Goto(r, "ending", [s EXCEPT !.final = IF s.waits THEN "WAITING" ELSE "COMPLETED"])
  <2> DEFINE f == IF s.waits THEN "WAITING" ELSE "COMPLETED"
  <2>1. f \in Status /\ (f = "COMPLETED" => ~s.waits)
    BY <1>2, Zenon
  <2> HIDE DEF f
  <2>2. Good("ending", [s EXCEPT !.final = f]) /\ [s EXCEPT !.final = f] \in Sessions(Len(approvals))
    BY <1>0, <1>1, <1>3, <2>1 DEF Good, Work, Ending, Has, Sessions
  <2>3. Goto(r, "ending", [s EXCEPT !.final = f])
    BY <1>3 DEF f
  <2> QED BY <1>0, <2>2, <2>3, MovesInv DEF Moves, Stages
<1>4. CASE Goto(r, "ending", [s EXCEPT !.final = "WAITING", !.asks = asks])
  <2> DEFINE t == [s EXCEPT !.final = "WAITING", !.asks = asks]
  <2>1. asks \subseteq Step
    BY DEF Ready
  <2> HIDE DEF asks
  <2>2. t \in Sessions(Len(approvals)) /\ Good("ending", t)
    BY <1>0, <1>2, <2>1 DEF Good, Work, Ending, Has, Sessions
  <2> HIDE DEF t
  <2>3. Goto(r, "ending", t)
    BY <1>4 DEF t
  <2> QED BY <1>0, <2>2, <2>3, MovesInv DEF Moves, Stages
<1>5. ASSUME asks = {}, NEW b \in Batch(r), \E x \in b : Kind(x) = "BROKEN",
             Goto(r, "ending", [s EXCEPT !.final = "FAILED"])
      PROVE  Inv'
  <2>1. Good("ending", [s EXCEPT !.final = "FAILED"])
    BY <1>0 DEF Good, Work, Ending, Has, Sessions
  <2> QED BY <1>0, <1>1, <1>2, <1>5, <2>1, MovesInv DEF Moves, Stages
<1>6. ASSUME asks = {}, NEW b \in Batch(r), ~ \E x \in b : Kind(x) = "BROKEN",
             NEW skipped, skipped = {x \in b : Kind(x) = "SKIPPED"},
             Goto(r, "running", [s EXCEPT !.completed = s.completed \cup skipped, !.todo = b \ skipped])
      PROVE  Inv'
  <2> DEFINE t == [s EXCEPT !.completed = s.completed \cup skipped, !.todo = b \ skipped]
  <2>1. b \subseteq Ready(r) /\ b \subseteq Step /\ skipped \subseteq Step
    BY <1>6 DEF Batch, Ready
  <2>2. t \in Sessions(Len(approvals))
    BY <1>0, <2>1 DEF Sessions
  <2>3. /\ t.completed = s.completed \cup skipped /\ t.todo = b \ skipped /\ t.mine = s.mine
        /\ t.child = s.child /\ t.waits = s.waits /\ t.final = s.final /\ t.wrote = s.wrote
        /\ t.status = s.status
    BY <1>0 DEF Sessions
  <2>4. ASSUME NEW x \in b PROVE Free(x) /\ Kind(x) \notin {"APPROVAL", "BROKEN"}
    <3>1. x \in Ready(r) /\ definition.deps[x] \subseteq s.completed
      BY <2>1, <2>4 DEF Ready
    <3>2. \A d \in s.completed : Kind(d) # "APPROVAL"
      BY <1>0 DEF Good, Work, Has
    <3> QED BY <1>6, <2>4, <3>1, <3>2 DEF Free
  <2>5. \A x \in skipped : Has(t, x)
    BY <1>6 DEF Has
  <2>6. \A x \in s.completed : Has(t, x)
    BY <1>0, <2>3 DEF Good, Work, Has
  <2>7. Work(t)
    BY <1>0, <2>3, <2>4, <2>5, <2>6 DEF Good, Work
  <2>8. Ending("running", t)
    BY <1>0, <2>3 DEF Good, Ending
  <2> HIDE DEF t
  <2>9. Goto(r, "running", t)
    BY <1>6 DEF t
  <2> QED BY <1>0, <2>2, <2>7, <2>8, <2>9, MovesInv DEF Moves, Stages, Good
<1> QED BY <1>3, <1>4, <1>5, <1>6 DEF Pick

\* x leaves the batch as completed.
LEMMA CompletedEffect ==
  ASSUME NEW s \in Sessions(Len(approvals)), NEW x \in Step
  PROVE  /\ Completed(s, x) \in Sessions(Len(approvals))
         /\ Completed(s, x).completed = s.completed \cup {x}
         /\ Completed(s, x).todo = s.todo \ {x}
         /\ \A f \in {"mine", "child", "waits", "final", "wrote", "status"} : Completed(s, x)[f] = s[f]
  BY DEF Completed, Sessions

\* What one finished step adds to the session keeps it good.
LEMMA StepDone ==
  ASSUME NEW s \in Sessions(Len(approvals)), Good("running", s), NEW x \in s.todo,
         NEW t, t.completed = s.completed \cup {x}, t.todo \subseteq s.todo,
         s.mine \subseteq t.mine, t.mine \subseteq s.mine \cup {x}, s.child \subseteq t.child,
         s.waits => t.waits, t.final = s.final, t.wrote = s.wrote, t.status = s.status, Has(t, x)
  PROVE  Good("running", t)
<1>1. ASSUME NEW y \in s.completed PROVE Has(t, y)
  BY <1>1 DEF Good, Work, Has
<1> QED BY <1>1 DEF Good, Work, Ending

LEMMA StepInv ==
  ASSUME Inv, NEW r \in Request, NEW x \in Step,
         \/ Succeed(r, x) \/ NotTried(r, x) \/ Wait(r, x)
         \/ StartChild(r, x) \/ NoChild(r, x)
  PROVE  Inv'
<1> DEFINE s == session[r]
           c == Completed(s, x)
<1>0. /\ s \in Sessions(Len(approvals)) /\ Good("running", s) /\ x \in s.todo
      /\ locker \in Request \cup {None} /\ children \subseteq Step
  BY DEF Succeed, NotTried, Wait, StartChild, NoChild, Inv, TypeOK
<1>1. /\ c \in Sessions(Len(approvals)) /\ c.completed = s.completed \cup {x} /\ c.todo = s.todo \ {x}
      /\ \A f \in {"mine", "child", "waits", "final", "wrote", "status"} : c[f] = s[f]
  BY <1>0, CompletedEffect
<1> HIDE DEF c
<1>2. CASE Succeed(r, x)
  <2> DEFINE t == [c EXCEPT !.mine = c.mine \cup {x}]
  <2>1. t \in Sessions(Len(approvals))
    BY <1>1 DEF Sessions
  <2>2. Kind(x) = "TASK" /\ Goto(r, "running", t) /\ UNCHANGED <<db, locker>>
    BY <1>2 DEF Succeed, c
  <2>3. /\ t.mine = s.mine \cup {x} /\ t.completed = s.completed \cup {x} /\ t.todo = s.todo \ {x}
        /\ \A f \in {"child", "waits", "final", "wrote", "status"} : t[f] = s[f]
    BY <1>1 DEF Sessions
  <2> HIDE DEF t
  <2>4. Good("running", t)
    BY <1>0, <2>2, <2>3, StepDone DEF Has
  <2> QED BY <1>0, <2>1, <2>2, <2>4, MovesInv DEF Moves, Stages
<1>3. CASE Wait(r, x)
  <2> DEFINE t == [c EXCEPT !.waits = TRUE]
  <2>1. t \in Sessions(Len(approvals))
    BY <1>1 DEF Sessions
  <2>2. Kind(x) = "WAIT" /\ Goto(r, "running", t) /\ UNCHANGED <<db, locker>>
    BY <1>3 DEF Wait, c
  <2>3. /\ t.waits /\ t.completed = s.completed \cup {x} /\ t.todo = s.todo \ {x}
        /\ \A f \in {"mine", "child", "final", "wrote", "status"} : t[f] = s[f]
    BY <1>1 DEF Sessions
  <2> HIDE DEF t
  <2>4. Good("running", t)
    BY <1>0, <2>2, <2>3, StepDone DEF Has
  <2> QED BY <1>0, <2>1, <2>2, <2>4, MovesInv DEF Moves, Stages
<1>4. CASE StartChild(r, x)
  <2> DEFINE t == [c EXCEPT !.child = c.child \cup ({x} \ children)]
  <2>1. t \in Sessions(Len(approvals))
    BY <1>1 DEF Sessions
  <2>2. CASE Goto(r, "running", t) /\ UNCHANGED <<db, locker>>
    <3>1. Kind(x) = "CHILD"
      BY <1>4 DEF StartChild
    <3>2. /\ t.child = s.child \cup ({x} \ children)
          /\ t.completed = s.completed \cup {x} /\ t.todo = s.todo \ {x}
          /\ \A f \in {"mine", "waits", "final", "wrote", "status"} : t[f] = s[f]
      BY <1>1 DEF Sessions
    <3> HIDE DEF t
    <3>3. Good("running", t)
      BY <1>0, <3>1, <3>2, StepDone DEF Has
    <3> QED BY <1>0, <2>1, <2>2, <3>3, MovesInv DEF Moves, Stages
  <2>3. CASE RollBack(r)
    BY <2>3, RollBackInv
  <2> QED BY <1>4, <2>2, <2>3 DEF StartChild, c
<1>5. CASE NoChild(r, x)
  <2> DEFINE t == [s EXCEPT !.todo = {}]
  <2>1. t \in Sessions(Len(approvals)) /\ Good("flushed", t)
    BY <1>0 DEF Sessions, Good, Work, Ending, Has
  <2>2. CASE Goto(r, "flushed", t) /\ UNCHANGED <<db, locker>>
    <3> HIDE DEF t
    <3> QED BY <1>0, <2>1, <2>2, MovesInv DEF Moves, Stages
  <2>3. CASE RollBack(r)
    BY <2>3, RollBackInv
  <2> QED BY <1>5, <2>2, <2>3 DEF NoChild
<1>6. CASE NotTried(r, x)
  <2> DEFINE t == [s EXCEPT !.todo = s.todo \ {x}]
  <2>1. t \in Sessions(Len(approvals)) /\ Good("running", t)
    BY <1>0 DEF Sessions, Good, Work, Ending, Has
  <2>2. Goto(r, "running", t) /\ UNCHANGED <<db, locker>>
    BY <1>6 DEF NotTried
  <2> HIDE DEF t
  <2> QED BY <1>0, <2>1, <2>2, MovesInv DEF Moves, Stages
<1> QED BY <1>2, <1>3, <1>4, <1>5, <1>6

LEMMA FailInv == ASSUME Inv, NEW r \in Request, NEW x \in Step, Fail(r, x) PROVE Inv'
<1> DEFINE s == session[r]
           c == Completed(s, x)
<1>0. /\ s \in Sessions(Len(approvals)) /\ Good("running", s) /\ x \in s.todo /\ Kind(x) = "TASK"
      /\ locker \in Request \cup {None} /\ UNCHANGED db
      /\ done \in Count
  BY DEF Fail, Inv, TypeOK
<1>1. "FAILED" \in Status
  BY DEF Status, Terminal
<1>2. CASE OnFailure(x) = "skip" /\ Goto(r, "running", c) /\ locker' = locker
  <2>1. /\ c \in Sessions(Len(approvals)) /\ c.completed = s.completed \cup {x}
        /\ c.todo = s.todo \ {x}
        /\ \A f \in {"mine", "child", "waits", "final", "wrote", "status"} : c[f] = s[f]
    BY <1>0, CompletedEffect
  <2> HIDE DEF c
  <2>2. Good("running", c)
    BY <1>0, <1>2, <2>1, StepDone DEF Has
  <2> QED BY <1>0, <1>2, <2>1, <2>2, MovesInv DEF Moves, Stages
<1>3. CASE Goto(r, "ending", [s EXCEPT !.final = "FAILED", !.todo = {}]) /\ locker' = locker
  <2> DEFINE t == [s EXCEPT !.final = "FAILED", !.todo = {}]
  <2>1. t \in Sessions(Len(approvals)) /\ Good("ending", t)
    BY <1>0, <1>1 DEF Sessions, Good, Work, Ending, Has
  <2>2. Goto(r, "ending", t)
    BY <1>3
  <2> HIDE DEF t
  <2> QED BY <1>0, <1>3, <2>1, <2>2, MovesInv DEF Moves, Stages
<1>4. CASE /\ Goto(r, "ending", [s EXCEPT !.final = "FAILED", !.wrote = TRUE, !.todo = {},
                                          !.undo = Plan(r)])
           /\ locker' = r
  <2>1. Plan(r) \in Count
    BY <1>0 DEF Plan, Count
  <2> DEFINE t == [s EXCEPT !.final = "FAILED", !.wrote = TRUE, !.todo = {}, !.undo = Plan(r)]
  <2>2. t \in Sessions(Len(approvals)) /\ Good("ending", t)
    BY <1>0, <1>1, <2>1 DEF Sessions, Good, Work, Ending, Has
  <2>3. Goto(r, "ending", t)
    BY <1>4
  <2> HIDE DEF t
  <2> QED BY <1>0, <1>4, <2>2, <2>3, MovesInv DEF Moves, Stages
<1> QED BY <1>2, <1>3, <1>4 DEF Fail

LEMMA FlushInv == ASSUME Inv, NEW r \in Request, Flush(r) PROVE Inv'
<1> DEFINE s == session[r]
           w == s.wrote \/ s.final # s.status
           t == [s EXCEPT !.status = s.final, !.wrote = w]
<1>0. s \in Sessions(Len(approvals)) /\ Good("ending", s) /\ UNCHANGED db
  BY DEF Flush, Inv, TypeOK
<1>1. /\ pc' = [pc EXCEPT ![r] = "flushed"] /\ session' = [session EXCEPT ![r] = t]
      /\ UNCHANGED <<expired, op, expiries, crashes>> /\ locker' \in Request \cup {None}
  BY DEF Flush, Inv, TypeOK
<1>2. w \in BOOLEAN
  BY Zenon
<1> HIDE DEF w
<1>3. t \in Sessions(Len(approvals)) /\ Good("flushed", t)
  BY <1>0, <1>2 DEF Sessions, Good, Work, Ending, Has
<1> HIDE DEF t
<1>4. lease' \in Lease
  <2>1. NoLease \in Lease
    <3>1. FALSE \in BOOLEAN
      OBVIOUS
    <3> QED BY <3>1 DEF NoLease, Lease
  <2> QED BY <2>1 DEF Flush, LeaseAfter, Inv, TypeOK
<1>5. TypeOK'
  BY <1>0, <1>1, <1>3, <1>4 DEF Inv, TypeOK, db, Stages
<1>6. \A q \in Request : Good(pc'[q], session'[q])
  BY <1>1, <1>3 DEF Inv, TypeOK
<1> QED BY <1>0, <1>5, <1>6, SameRows

LEMMA CreateInv == ASSUME Inv, NEW r \in Request, Create(r) PROVE Inv'
<1>1. CASE RollBack(r)
  BY <1>1, RollBackInv
<1>2. CASE /\ row' = "RUNNING" /\ Goto(r, "running", [Fresh EXCEPT !.status = "RUNNING"])
           /\ UNCHANGED <<definition, done, undone, children, approvals, locker>>
  <2> DEFINE s == [Fresh EXCEPT !.status = "RUNNING"]
  <2>1. "RUNNING" \in Status /\ Fresh \in Sessions(Len(approvals))
    BY FreshTyped DEF Status, Inv, TypeOK
  <2>2. s \in Sessions(Len(approvals)) /\ Good("running", s)
    BY <2>1 DEF Fresh, Sessions, Good, Work, Ending
  <2>3. Goto(r, "running", s)
    BY <1>2
  <2> HIDE DEF s
  <2>4. TypeOK'
    BY <1>2, <2>1, <2>2, <2>3 DEF Goto, Inv, TypeOK, Stages
  <2>5. \A q \in Request : Good(pc'[q], session'[q])
    BY <2>2, <2>3 DEF Goto, Inv, TypeOK
  <2>6. \A q \in Request : Good(pc[q], session[q])'
    BY <1>2, <2>5, Others
  <2>7. (\A x \in Step : done[x] > 0 => Free(x))' /\ CompletedMeansDone'
    BY <1>2 DEF Inv, Free, Kind, CompletedMeansDone
  <2> QED BY <2>4, <2>6, <2>7 DEF Inv
<1> QED BY <1>1, <1>2 DEF Create

LEMMA OverwriteInv == ASSUME Inv, NEW r \in Request, Overwrite(r) PROVE Inv'
<1>1. /\ row' \in {"PAUSED", "CANCELLED"} /\ Goto(r, "ended", Fresh)
      /\ UNCHANGED <<definition, done, children, approvals, locker>>
  BY DEF Overwrite, Outcome
<1>2. undone' \in Count
  <2>1. [s \in Step |-> undone[s] + done[s]] \in Count /\ undone \in Count
    BY DEF Inv, TypeOK, Count
  <2> QED BY <2>1, Zenon DEF Overwrite
<1>3. Fresh \in Sessions(Len(approvals)) /\ {"PAUSED", "CANCELLED"} \subseteq Status
  BY FreshTyped DEF Inv, TypeOK, Status, Terminal
<1>4. TypeOK'
  BY <1>1, <1>2, <1>3 DEF Goto, Inv, TypeOK, Stages
<1>5. \A q \in Request : Good(pc'[q], session'[q])
  BY <1>1, FreshGood DEF Goto, Inv, TypeOK, Stages
<1>6. \A q \in Request : Good(pc[q], session[q])'
  BY <1>1, <1>5, Others
<1>7. (\A x \in Step : done[x] > 0 => Free(x))' /\ CompletedMeansDone'
  BY <1>1 DEF Inv, Free, Kind, CompletedMeansDone
<1> QED BY <1>4, <1>6, <1>7 DEF Inv

\* A commit brings the steps of the session; COMPLETED comes from a session that
\* had completed them all.
LEMMA CommitInv == ASSUME Inv, NEW r \in Request, Commit(r) PROVE Inv'
<1> DEFINE s == session[r]
           decided == [i \in DOMAIN approvals |->
                          IF i = s.answers THEN [approvals[i] EXCEPT !.status = s.decision]
                          ELSE approvals[i]]
<1>0. /\ s \in Sessions(Len(approvals)) /\ Good("flushed", s) /\ definition' = definition
      /\ row' = (IF s.wrote THEN s.status ELSE row)
      /\ done' = [x \in Step |-> done[x] + IF x \in s.mine THEN 1 ELSE 0]
      /\ undone' = [x \in Step |-> undone[x] + s.undo[x]]
      /\ children' = children \cup s.child /\ Goto(r, "ended", Fresh)
      /\ approvals' = decided \o Requests(r) /\ locker' = Unlocked(r)
  BY DEF Commit, Inv, TypeOK
<1>1. /\ approvals \in Seq(Approval) /\ row \in Status /\ done \in Count /\ undone \in Count
      /\ children \subseteq Step
  BY DEF Inv, TypeOK, Approval, Answers, Decisions
<1>2. decided \in Seq(Approval) /\ Len(decided) = Len(approvals)
  <2>1. \A i \in DOMAIN approvals : decided[i] \in Approval
    <3>1. s.decision \in Answers
      BY <1>0 DEF Sessions, Answers, Decisions
    <3>2. \A i \in DOMAIN approvals : approvals[i] \in Approval
      BY <1>1
    <3>3. \A a \in Approval : [a EXCEPT !.status = s.decision] \in Approval
      BY <3>1 DEF Approval
    <3> QED BY <3>2, <3>3
  <2>2. DOMAIN approvals = 1 .. Len(approvals) /\ Len(approvals) \in Nat
    BY <1>1
  <2>3. decided \in [1 .. Len(approvals) -> Approval]
    BY <2>1, <2>2
  <2> HIDE DEF decided
  <2> QED BY <2>2, <2>3
<1>3. Requests(r) \in Seq(Approval)
  BY <1>0, RequestsTyped DEF Sessions
<1> HIDE DEF decided
<1>4. approvals' \in Seq(Approval) /\ Len(approvals) <= Len(approvals')
      /\ Len(approvals) \in Nat /\ Len(approvals') \in Nat
  BY <1>0, <1>1, <1>2, <1>3
<1>5. TypeOK'
  <2>1. \A q \in Request : session[q] \in Sessions(Len(approvals'))
    BY <1>4, SessionsGrow DEF Inv, TypeOK
  <2>2. session' \in [Request -> Sessions(Len(approvals'))]
    BY <1>0, <1>4, <2>1, FreshTyped DEF Goto, Inv, TypeOK
  <2>3. row' \in Status
    BY <1>0, <1>1, Zenon DEF Sessions
  <2>4. done' \in Count /\ undone' \in Count
    BY <1>0, <1>1 DEF Count, Sessions
  <2>5. children' \subseteq Step
    BY <1>0, <1>1 DEF Sessions
  <2>6. /\ pc' \in [Request -> Stages] /\ locker' \in Request \cup {None}
        /\ UNCHANGED <<op, lease, expiries, crashes>>
    BY <1>0 DEF Goto, Unlocked, Inv, TypeOK, Stages
  <2>7. expired' \subseteq DOMAIN approvals'
    <3>1. expired' = expired /\ expired \subseteq DOMAIN approvals
      BY <1>0 DEF Goto, Inv, TypeOK
    <3>2. DOMAIN approvals \subseteq DOMAIN approvals'
      BY <1>1, <1>4
    <3> QED BY <3>1, <3>2
  <2> QED BY <1>0, <1>4, <2>2, <2>3, <2>4, <2>5, <2>6, <2>7 DEF Inv, TypeOK
<1>6. \A q \in Request : Good(pc[q], session[q])'
  <2>1. \A q \in Request : Good(pc'[q], session'[q])
    BY <1>0, FreshGood DEF Goto, Inv, TypeOK, Stages
  <2> QED BY <1>0, <2>1, Others
<1>7. \A x \in Step : done'[x] \in Nat /\ done'[x] >= done[x] /\ (x \in s.mine => done'[x] > 0)
                      /\ (done'[x] > 0 => done[x] > 0 \/ x \in s.mine)
  BY <1>0, <1>1 DEF Count
<1>8. \A x \in Step : done'[x] > 0 => Free(x)'
  <2>1. \A x \in Step : done'[x] > 0 => Free(x)
    BY <1>0, <1>7 DEF Inv, Good, Work
  <2> QED BY <1>0, <2>1 DEF Free, Kind
<1>9. CompletedMeansDone'
  <2> SUFFICES ASSUME row' = "COMPLETED", NEW x \in Step
               PROVE  /\ Kind(x) = "TASK" /\ definition.onFailure[x] # "skip" => done'[x] > 0
                      /\ Kind(x) = "CHILD" => x \in children'
                      /\ Kind(x) \notin {"WAIT", "APPROVAL", "BROKEN", "NOCHILD", "UNTRIED"}
    BY <1>0 DEF CompletedMeansDone, Kind
  <2>1. CASE s.wrote
    <3>1. s.status = "COMPLETED" /\ s.completed = Step /\ ~s.waits
      BY <1>0, <2>1 DEF Good, Ending
    <3>2. Has(s, x)
      BY <1>0, <3>1 DEF Good, Work
    <3> QED BY <1>0, <1>7, <3>1, <3>2 DEF Has, OnFailure
  <2>2. CASE ~s.wrote
    <3>1. row = "COMPLETED"
      BY <1>0, <2>2
    <3> QED BY <1>0, <1>1, <1>7, <3>1 DEF Inv, CompletedMeansDone, Count
  <2> QED BY <2>1, <2>2
<1> QED BY <1>5, <1>6, <1>8, <1>9 DEF Inv

LEMMA ExpiryInv == ASSUME Inv, LeaseExpires PROVE Inv'
<1>1. lease' \in Lease
  <2>1. FALSE \in BOOLEAN
    OBVIOUS
  <2>2. [lease EXCEPT !.live = FALSE] \in Lease
    BY <2>1 DEF Inv, TypeOK, Lease
  <2> QED BY <2>2 DEF LeaseExpires
<1>2. expiries' \in 0 .. MaxExpiries
  BY WorkflowAssumption DEF LeaseExpires, Inv, TypeOK
<1>3. UNCHANGED <<db, expired, op, pc, session, locker, crashes>>
  BY DEF LeaseExpires
<1>4. TypeOK'
  BY <1>1, <1>2, <1>3 DEF Inv, TypeOK, db
<1> QED BY <1>3, <1>4, SameRows DEF Inv

LEMMA CrashInv == ASSUME Inv, Crash PROVE Inv'
<1>1. UNCHANGED <<db, expired, op, expiries>> /\ locker' = None /\ session' = [r \in Request |-> Fresh]
  BY DEF Crash
<1>2. pc' \in [Request -> Stages] /\ crashes' \in 0 .. MaxCrashes
  BY WorkflowAssumption DEF Crash, Inv, TypeOK, Stages
<1>3. lease' \in Lease
  <2>1. FALSE \in BOOLEAN
    OBVIOUS
  <2> QED BY <2>1 DEF Crash, NoLease, Lease
<1>4. Fresh \in Sessions(Len(approvals))
  BY FreshTyped DEF Inv, TypeOK
<1>5. TypeOK'
  BY <1>1, <1>2, <1>3, <1>4 DEF Inv, TypeOK, db
<1>6. \A q \in Request : Good(pc'[q], session'[q])
  BY <1>1, <1>2, FreshGood
<1> QED BY <1>1, <1>5, <1>6, SameRows

LEMMA InvInit == Init => Inv
<1> SUFFICES ASSUME Init PROVE Inv
  OBVIOUS
<1>1. TypeOK
  BY TypeInit
<1>2. \A r \in Request : Good(pc[r], session[r])
  BY FreshGood DEF Init, Stages
<1>3. (\A x \in Step : done[x] > 0 => Free(x)) /\ CompletedMeansDone
  BY DEF Init, Zero, CompletedMeansDone
<1> QED BY <1>1, <1>2, <1>3 DEF Inv

LEMMA LapseInv == ASSUME Inv, NEW i \in DOMAIN approvals, ApprovalExpires(i) PROVE Inv'
<1>1. expired' \subseteq DOMAIN approvals /\ UNCHANGED <<db, op, pc, session, locker, lease, expiries, crashes>>
  BY DEF ApprovalExpires, Inv, TypeOK
<1>2. TypeOK'
  BY <1>1 DEF Inv, TypeOK, db
<1> QED BY <1>1, <1>2, SameRows DEF Inv

\* Every step preserves the invariant.
LEMMA InvStep == Inv /\ [Next]_vars => Inv'
<1> SUFFICES ASSUME Inv, [Next]_vars PROVE Inv'
  OBVIOUS
<1>1. ASSUME NEW r \in Request, Start(r) PROVE Inv'
  BY <1>1, StartInv
<1>2. ASSUME NEW r \in Request, Advance(r) PROVE Inv'
  BY <1>2, CreateInv, OverwriteInv, DecideInv, MarkInv, PickInv, FlushInv, CommitInv, StepInv,
     FailInv DEF Advance
<1>3. CASE UNCHANGED vars
  <2>1. TypeOK'
    BY <1>3 DEF Inv, TypeOK, vars, db
  <2> QED BY <1>3, <2>1, SameRows DEF vars, Inv
<1> QED BY <1>1, <1>2, <1>3, ExpiryInv, LapseInv, CrashInv DEF Next

LEMMA Safe == Spec => []Inv
  BY InvInit, InvStep, PTL DEF Spec

\* Every state of every behaviour has the types declared for it.
THEOREM TypeCorrect == Spec => []TypeOK
<1>1. Inv => TypeOK
  BY DEF Inv
<1> QED BY <1>1, Safe, PTL

\* COMPLETED is committed with the SUCCESS step runs and children of a runner that had
\* completed every step, however triggers, pauses, cancels, approvals and recoveries overlap.
THEOREM CompletedHasWork == Spec => []CompletedMeansDone
<1>1. Inv => CompletedMeansDone
  BY DEF Inv
<1> QED BY <1>1, Safe, PTL

LEMMA SameDefinition == ASSUME [Next]_vars PROVE definition' = definition
<1>1. ASSUME NEW r \in Request, Start(r) PROVE definition' = definition
  BY <1>1 DEF Start, Trigger, PauseLoad, CancelLoad, Resume, Recover, DecideLoad, Begin, db
<1>2. ASSUME NEW r \in Request, RollBack(r) PROVE definition' = definition
  BY <1>2 DEF RollBack, db
<1>3. ASSUME NEW r \in Request, Advance(r) PROVE definition' = definition
  <2>1. CASE Create(r) \/ Overwrite(r) \/ Decide(r) \/ Mark(r) \/ Pick(r) \/ Flush(r) \/ Commit(r)
    BY <1>2, <2>1 DEF Create, Overwrite, Decide, Mark, Pick, Flush, Commit, db
  <2>2. ASSUME NEW x \in Step, \/ Succeed(r, x) \/ Fail(r, x) \/ NotTried(r, x)
                                \/ Wait(r, x) \/ StartChild(r, x) \/ NoChild(r, x)
        PROVE  definition' = definition
    BY <1>2, <2>2 DEF Succeed, Fail, NotTried, Wait, StartChild, NoChild, db
  <2> QED BY <1>3, <2>1, <2>2 DEF Advance
<1> QED BY <1>1, <1>3 DEF Next, ApprovalExpires, LeaseExpires, Crash, vars, db

\* A step enters the batch of a runner only when every approval its dependencies ask
\* for has been given: in every state, what is in a batch is free of such dependencies,
\* because a runner never completes an approval step.
THEOREM GateHolds == Spec => GatedStepWaits
<1>1. Inv /\ Inv' /\ [Next]_vars =>
        [\A r \in Request : \A s \in session'[r].todo \ session[r].todo :
           \A d \in definition.deps[s] : Kind(d) = "APPROVAL" => Given(r, d)]_vars
  <2> SUFFICES ASSUME Inv', [Next]_vars, NEW r \in Request, NEW s \in session'[r].todo,
                      NEW d \in definition.deps[s]
               PROVE  Kind(d) # "APPROVAL"
    BY Zenon
  <2>1. Free(s)'
    BY DEF Inv, Good, Work
  <2> QED BY <2>1, SameDefinition DEF Free, Kind
<1> QED BY <1>1, Safe, PTL DEF Spec, GatedStepWaits

-----------------------------------------------------------------------------
(* What the steps do to the parts of a session *)

SomeWait == \E x \in Step : Kind(x) = "WAIT"
PlanOf(s) == [y \in Step |-> done[y] + IF y \in s.mine THEN 1 ELSE 0]

Elsewhere(r) == \A q \in Request \ {r} : pc'[q] = pc[q] /\ session'[q] = session[q]
Keeps(r, F) == \A f \in F : session'[r][f] = session[r][f]

\* A request starts as k.
Begun(r, k) ==
    /\ pc[r] = "idle" /\ op' = [op EXCEPT ![r] = k] /\ Elsewhere(r)
    /\ UNCHANGED <<db, locker, expiries>>
    /\ session'[r].final = "NONE" /\ ~session'[r].wrote /\ ~session'[r].waits
    /\ session'[r].asks = {}
    /\ k # "decide" => session'[r].answers = 0
    /\ k # "recover" => lease' = lease
    /\ \/ k = "trigger" /\ pc'[r] = IF row = "NONE" THEN "loaded" ELSE "running"
       \/ k \in {"pause", "cancel"} /\ row # "NONE" /\ pc'[r] = "loaded"
       \/ k \in {"resume", "recover"} /\ row # "NONE" /\ pc'[r] = "marking"
       \/ k = "decide" /\ approvals # <<>> /\ pc'[r] = "loaded"

\* Only the session of r, its stage and perhaps the row lock change.
Alone(r) == Elsewhere(r) /\ UNCHANGED <<db, op, lease, expiries>>

\* A turn after which the run goes on.
Turn(r) ==
    /\ pc[r] = "running" /\ pc'[r] = "running" /\ Alone(r) /\ locker' = locker
    /\ Keeps(r, {"final", "wrote", "status", "asks", "undo", "answers", "decision"})
    /\ session'[r].waits => session[r].waits \/ SomeWait

\* The last turn decides how the run ends.
LastTurn(r) ==
    LET s == session[r]
        t == session'[r]
    IN /\ pc[r] = "running" /\ pc'[r] = "ending" /\ Alone(r)
       /\ Keeps(r, {"status", "waits", "mine", "answers", "decision"})
       /\ \/ t.final = "COMPLETED" /\ locker' = locker /\ Keeps(r, {"wrote", "asks"})
          \/ t.final = "WAITING" /\ s.waits /\ locker' = locker /\ Keeps(r, {"wrote", "asks"})
          \/ /\ t.final = "WAITING" /\ t.asks # {} /\ locker' = locker /\ Keeps(r, {"wrote"})
             /\ \E x \in Step : Kind(x) = "APPROVAL"
          \/ /\ t.final = "FAILED" /\ locker' = locker /\ Keeps(r, {"wrote", "asks"})
             /\ \E x \in Step : Kind(x) = "BROKEN" \/ OnFailure(x) = "fail_workflow"
          \/ /\ t.final = "FAILED" /\ LockFree(r) /\ locker' = r
             /\ t.wrote /\ Keeps(r, {"asks"}) /\ t.undo = PlanOf(s)

LEMMA MoveTo ==
  ASSUME TypeOK, NEW r \in Request, NEW l, NEW t, Goto(r, l, t)
  PROVE  /\ pc'[r] = l /\ session'[r] = t /\ Elsewhere(r) /\ UNCHANGED <<op, lease, expiries>>
  BY DEF Goto, TypeOK, Elsewhere

LEMMA BeginTo ==
  ASSUME TypeOK, NEW r \in Request, NEW k, NEW l, NEW t, Begin(r, k, l, t)
  PROVE  /\ pc[r] = "idle" /\ pc'[r] = l /\ session'[r] = t /\ Elsewhere(r)
         /\ op' = [op EXCEPT ![r] = k] /\ UNCHANGED <<db, locker, expiries>>
  BY DEF Begin, TypeOK, Elsewhere

LEMMA StartEffect ==
  ASSUME TypeOK, NEW r \in Request, Start(r)
  PROVE  \E k \in Operations : Begun(r, k) /\ (k = "recover" => Recover(r))
<1>1. CASE Trigger(r)
  <2> DEFINE l == IF row = "NONE" THEN "loaded" ELSE "running"
  <2>1. Begin(r, "trigger", l, Reading) /\ lease' = lease
    BY <1>1 DEF Trigger
  <2> HIDE DEF l
  <2>2. Begun(r, "trigger")
    <3>1. /\ Reading.final = "NONE" /\ ~Reading.wrote /\ ~Reading.waits
          /\ Reading.asks = {} /\ Reading.answers = 0
      BY DEF Reading, Fresh
    <3> QED BY <2>1, <3>1, BeginTo DEF Begun, l
  <2> QED BY <2>2 DEF Operations
<1>2. CASE PauseLoad(r)
  <2>1. Begin(r, "pause", "loaded", Reading) /\ lease' = lease /\ row # "NONE"
    BY <1>2 DEF PauseLoad
  <2>2. Begun(r, "pause")
    BY <2>1, BeginTo DEF Begun, Reading, Fresh
  <2> QED BY <2>2 DEF Operations
<1>3. CASE CancelLoad(r)
  <2> DEFINE t == [Reading EXCEPT !.mine = {s \in Step : done[s] > 0}]
  <2>1. Begin(r, "cancel", "loaded", t) /\ lease' = lease /\ row # "NONE"
    BY <1>3 DEF CancelLoad
  <2>2. t.final = "NONE" /\ ~t.wrote /\ ~t.waits /\ t.asks = {} /\ t.answers = 0
    BY DEF Reading, Fresh
  <2> HIDE DEF t
  <2>3. Begun(r, "cancel")
    BY <2>1, <2>2, BeginTo DEF Begun
  <2> QED BY <2>3 DEF Operations
<1>4. CASE Resume(r)
  <2>1. Begin(r, "resume", "marking", Reading) /\ lease' = lease /\ row # "NONE"
    BY <1>4 DEF Resume
  <2>2. Begun(r, "resume")
    BY <2>1, BeginTo DEF Begun, Reading, Fresh
  <2> QED BY <2>2 DEF Operations
<1>5. CASE Recover(r)
  <2>1. Begin(r, "recover", "marking", Reading) /\ row # "NONE"
    BY <1>5 DEF Recover
  <2>2. Begun(r, "recover")
    BY <2>1, BeginTo DEF Begun, Reading, Fresh
  <2> QED BY <1>5, <2>2 DEF Operations
<1>6. ASSUME NEW i \in DOMAIN approvals, NEW d \in Decisions, DecideLoad(r, i, d)
      PROVE  Begun(r, "decide")
  <2> DEFINE t == [Fresh EXCEPT !.answers = i, !.decision = d]
  <2>1. Begin(r, "decide", "loaded", t) /\ lease' = lease
    BY <1>6 DEF DecideLoad
  <2>2. t.final = "NONE" /\ ~t.wrote /\ ~t.waits /\ t.asks = {}
    BY DEF Fresh
  <2>3. approvals # <<>>
    BY <1>6 DEF TypeOK
  <2> HIDE DEF t
  <2> QED BY <2>1, <2>2, <2>3, BeginTo DEF Begun
<1> QED BY <1>1, <1>2, <1>3, <1>4, <1>5, <1>6 DEF Start, Operations

\* A turn: what the session has completed, taken or flushed may differ.
LEMMA StepTurn ==
  ASSUME TypeOK, NEW r \in Request, pc[r] = "running", NEW t, Goto(r, "running", t),
         UNCHANGED <<db, locker>>,
         \A f \in {"final", "wrote", "status", "asks", "undo", "answers", "decision"} :
            t[f] = session[r][f],
         t.waits => session[r].waits \/ SomeWait
  PROVE  Turn(r)
  BY MoveTo DEF Turn, Alone, Keeps

LEMMA PickEffect ==
  ASSUME TypeOK, NEW r \in Request, Pick(r) PROVE Turn(r) \/ LastTurn(r)
<1> DEFINE s == session[r]
           asks == {x \in Ready(r) : Kind(x) = "APPROVAL"}
<1>0. /\ s \in Sessions(Len(approvals)) /\ pc[r] = "running" /\ UNCHANGED <<db, locker>>
  BY DEF Pick, TypeOK
<1>1. CASE Goto(r, "ending", [s EXCEPT !.final = IF s.waits THEN "WAITING" ELSE "COMPLETED"])
  <2> DEFINE f == IF s.waits THEN "WAITING" ELSE "COMPLETED"
  <2>1. (f = "WAITING" /\ s.waits) \/ f = "COMPLETED"
    OBVIOUS
  <2>2. Goto(r, "ending", [s EXCEPT !.final = f])
    BY <1>1
  <2> HIDE DEF f
  <2>3. /\ session'[r].final = f
        /\ Keeps(r, {"status", "waits", "mine", "answers", "decision", "wrote", "asks"})
    BY <1>0, <2>2, MoveTo DEF Keeps, Sessions
  <2>4. LastTurn(r)
    BY <1>0, <2>1, <2>2, <2>3, MoveTo DEF LastTurn, Alone, Keeps
  <2> QED BY <2>4
<1>2. CASE asks # {} /\ Goto(r, "ending", [s EXCEPT !.final = "WAITING", !.asks = asks])
  <2>1. \E x \in Step : Kind(x) = "APPROVAL"
    BY <1>2 DEF Ready
  <2> HIDE DEF asks
  <2> DEFINE t == [s EXCEPT !.final = "WAITING", !.asks = asks]
  <2>2. /\ t.final = "WAITING" /\ t.asks = asks
        /\ \A f \in {"status", "waits", "mine", "answers", "decision", "wrote"} : t[f] = s[f]
    BY <1>0 DEF Sessions
  <2> HIDE DEF t
  <2>3. Goto(r, "ending", t)
    BY <1>2 DEF t
  <2>4. /\ session'[r].final = "WAITING" /\ session'[r].asks = asks
        /\ Keeps(r, {"status", "waits", "mine", "answers", "decision", "wrote"})
    BY <2>3, <2>2, MoveTo DEF Keeps
  <2>5. LastTurn(r)
    BY <1>0, <1>2, <2>1, <2>4, MoveTo DEF LastTurn, Alone, Keeps
  <2> QED BY <2>5
<1>3. ASSUME NEW b \in Batch(r), \E x \in b : Kind(x) = "BROKEN",
             Goto(r, "ending", [s EXCEPT !.final = "FAILED"])
      PROVE  LastTurn(r)
  <2>1. \E x \in Step : Kind(x) = "BROKEN"
    BY <1>3 DEF Batch, Ready
  <2>2. /\ session'[r].final = "FAILED"
        /\ Keeps(r, {"status", "waits", "mine", "answers", "decision", "wrote", "asks"})
    BY <1>0, <1>3, MoveTo DEF Keeps, Sessions
  <2> QED BY <1>0, <1>3, <2>1, <2>2, MoveTo DEF LastTurn, Alone, Keeps
<1>4. ASSUME NEW b \in Batch(r), NEW skipped,
             Goto(r, "running", [s EXCEPT !.completed = s.completed \cup skipped, !.todo = b \ skipped])
      PROVE  Turn(r)
  <2> DEFINE t == [s EXCEPT !.completed = s.completed \cup skipped, !.todo = b \ skipped]
  <2>1. \A f \in {"final", "wrote", "status", "asks", "undo", "answers", "decision", "waits"} :
           t[f] = s[f]
    BY <1>0 DEF Sessions
  <2> HIDE DEF t
  <2>2. Goto(r, "running", t)
    BY <1>4 DEF t
  <2> QED BY <1>0, <2>1, <2>2, StepTurn
<1> QED BY <1>1, <1>2, <1>3, <1>4 DEF Pick

LEMMA SucceedEffect ==
  ASSUME TypeOK, NEW r \in Request, NEW x \in Step, Succeed(r, x) PROVE Turn(r)
<1> DEFINE s == session[r]
           t == [Completed(s, x) EXCEPT !.mine = @ \cup {x}]
<1>1. s \in Sessions(Len(approvals)) /\ pc[r] = "running" /\ UNCHANGED <<db, locker>>
      /\ Goto(r, "running", t)
  BY DEF Succeed, TypeOK
<1>2. \A f \in {"final", "wrote", "status", "asks", "undo", "answers", "decision", "waits"} : t[f] = s[f]
  BY <1>1 DEF Completed, Sessions
<1> HIDE DEF t
<1> QED BY <1>1, <1>2, StepTurn

LEMMA UntriedEffect ==
  ASSUME TypeOK, NEW r \in Request, NEW x \in Step, NotTried(r, x) PROVE Turn(r)
<1> DEFINE s == session[r]
           t == [s EXCEPT !.todo = @ \ {x}]
<1>1. s \in Sessions(Len(approvals)) /\ pc[r] = "running" /\ UNCHANGED <<db, locker>>
      /\ Goto(r, "running", t)
  BY DEF NotTried, TypeOK
<1>2. \A f \in {"final", "wrote", "status", "asks", "undo", "answers", "decision", "waits"} : t[f] = s[f]
  BY <1>1 DEF Sessions
<1> HIDE DEF t
<1> QED BY <1>1, <1>2, StepTurn

LEMMA WaitEffect ==
  ASSUME TypeOK, NEW r \in Request, NEW x \in Step, Wait(r, x) PROVE Turn(r)
<1> DEFINE s == session[r]
           t == [Completed(s, x) EXCEPT !.waits = TRUE]
<1>1. s \in Sessions(Len(approvals)) /\ pc[r] = "running" /\ UNCHANGED <<db, locker>>
      /\ Goto(r, "running", t) /\ SomeWait
  BY DEF Wait, TypeOK, SomeWait
<1>2. \A f \in {"final", "wrote", "status", "asks", "undo", "answers", "decision"} : t[f] = s[f]
  BY <1>1 DEF Completed, Sessions
<1> HIDE DEF t
<1> QED BY <1>1, <1>2, StepTurn

LEMMA ChildEffect ==
  ASSUME TypeOK, NEW r \in Request, NEW x \in Step, StartChild(r, x)
  PROVE  Turn(r) \/ (RollBack(r) /\ pc[r] = "running")
<1> DEFINE s == session[r]
           t == [Completed(s, x) EXCEPT !.child = @ \cup ({x} \ children)]
<1>1. s \in Sessions(Len(approvals)) /\ pc[r] = "running"
  BY DEF StartChild, TypeOK
<1>2. CASE Goto(r, "running", t) /\ UNCHANGED <<db, locker>>
  <2>1. \A f \in {"final", "wrote", "status", "asks", "undo", "answers", "decision", "waits"} : t[f] = s[f]
    BY <1>1 DEF Completed, Sessions
  <2> HIDE DEF t
  <2> QED BY <1>1, <1>2, <2>1, StepTurn
<1> QED BY <1>1, <1>2 DEF StartChild

LEMMA FailEffect ==
  ASSUME TypeOK, NEW r \in Request, NEW x \in Step, Fail(r, x)
  PROVE  Turn(r) \/ LastTurn(r)
<1> DEFINE s == session[r]
<1>1. s \in Sessions(Len(approvals)) /\ pc[r] = "running" /\ UNCHANGED db
  BY DEF Fail, TypeOK
<1>2. CASE Goto(r, "running", Completed(s, x)) /\ locker' = locker
  <2>1. \A f \in {"final", "wrote", "status", "asks", "undo", "answers", "decision", "waits"} :
           Completed(s, x)[f] = s[f]
    BY <1>1 DEF Completed, Sessions
  <2> QED BY <1>1, <1>2, <2>1, StepTurn
<1>3. CASE /\ OnFailure(x) = "fail_workflow" /\ locker' = locker
           /\ Goto(r, "ending", [s EXCEPT !.final = "FAILED", !.todo = {}])
  <2> DEFINE t == [s EXCEPT !.final = "FAILED", !.todo = {}]
  <2>1. /\ t.final = "FAILED"
        /\ \A f \in {"status", "waits", "mine", "answers", "decision", "wrote", "asks"} : t[f] = s[f]
    BY <1>1 DEF Sessions
  <2> HIDE DEF t
  <2>2. Goto(r, "ending", t)
    BY <1>3 DEF t
  <2>3. /\ session'[r].final = "FAILED"
        /\ Keeps(r, {"status", "waits", "mine", "answers", "decision", "wrote", "asks"})
    BY <2>2, <2>1, MoveTo DEF Keeps
  <2>4. LastTurn(r)
    BY <1>1, <1>3, <2>3, MoveTo DEF LastTurn, Alone, Keeps
  <2> QED BY <2>4
<1>4. CASE /\ LockFree(r) /\ locker' = r
           /\ Goto(r, "ending", [s EXCEPT !.final = "FAILED", !.wrote = TRUE, !.todo = {},
                                          !.undo = Plan(r)])
  <2>1. Plan(r) = PlanOf(s)
    BY DEF Plan, PlanOf
  <2> DEFINE t == [s EXCEPT !.final = "FAILED", !.wrote = TRUE, !.todo = {}, !.undo = Plan(r)]
  <2>2. /\ t.final = "FAILED" /\ t.wrote = TRUE /\ t.undo = Plan(r)
        /\ \A f \in {"status", "waits", "mine", "answers", "decision", "asks"} : t[f] = s[f]
    BY <1>1 DEF Sessions
  <2> HIDE DEF t
  <2>3. Goto(r, "ending", t)
    BY <1>4 DEF t
  <2>4. /\ session'[r].final = "FAILED" /\ session'[r].wrote /\ session'[r].undo = PlanOf(s)
        /\ Keeps(r, {"status", "waits", "mine", "answers", "decision", "asks"})
    BY <2>3, <2>2, <2>1, MoveTo DEF Keeps
  <2>5. LastTurn(r)
    BY <1>1, <1>4, <2>4, MoveTo DEF LastTurn, Alone, Keeps
  <2> QED BY <2>5
<1> QED BY <1>2, <1>3, <1>4 DEF Fail

-----------------------------------------------------------------------------
(* Recoveries and the lease *)

Live == IF lease.live THEN 1 ELSE 0
OwnWorkers == \A r, q \in Request : r # q => WorkerOf[r] # WorkerOf[q]

\* A live lease is held by a recovery at work. When every recovery has a worker of
\* its own, all but the holder of a live lease are paid for by an expired one.
LeaseInv ==
    /\ IsFiniteSet(Recovering)
    /\ lease.live => \E r \in Recovering : WorkerOf[r] = lease.worker
    /\ OwnWorkers => Cardinality(Recovering) <= expiries + Live

AtWork == {"marking", "running", "ending"}

LEMMA LeaseKept ==
  ASSUME LeaseInv, Recovering' = Recovering, lease' = lease, expiries' = expiries
  PROVE  LeaseInv'
  BY DEF LeaseInv, OwnWorkers, Live

\* A step that moves r within the recovery or outside of it.
LEMMA WithinRecovery ==
  ASSUME TypeOK, LeaseInv, NEW r \in Request, Elsewhere(r), UNCHANGED <<op, lease, expiries>>,
         op[r] = "recover" => (pc[r] \in AtWork <=> pc'[r] \in AtWork)
  PROVE  LeaseInv'
<1>1. \A q \in Request : q \in Recovering' <=> q \in Recovering
  BY DEF Recovering, AtWork, Elsewhere
<1>2. Recovering' = Recovering
  BY <1>1 DEF Recovering
<1> QED BY <1>2, LeaseKept

\* A recovery leaves and gives up the lease if it is its own.
LEMMA LeavesRecovery ==
  ASSUME TypeOK, LeaseInv, NEW r \in Request, Elsewhere(r), UNCHANGED <<op, expiries>>,
         op[r] = "recover" => pc[r] \in AtWork, pc'[r] \notin AtWork, lease' = LeaseAfter(r)
  PROVE  LeaseInv'
<1>1. CASE op[r] # "recover"
  <2>1. lease' = lease
    BY <1>1 DEF LeaseAfter
  <2> QED BY <1>1, <2>1, WithinRecovery
<1>2. CASE op[r] = "recover"
  <2>1. Recovering' = Recovering \ {r} /\ r \in Recovering
    <3>1. \A q \in Request : q \in Recovering' <=> q \in Recovering /\ q # r
      BY <1>2 DEF Recovering, AtWork, Elsewhere
    <3>2. r \in Recovering
      BY <1>2 DEF Recovering, AtWork
    <3> QED BY <3>1, <3>2 DEF Recovering
  <2>2. IsFiniteSet(Recovering') /\ Cardinality(Recovering') = Cardinality(Recovering) - 1
        /\ Cardinality(Recovering) \in Nat
    BY <2>1, FS_RemoveElement, FS_CardinalityType DEF LeaseInv
  <2>3. expiries \in Nat
    BY WorkflowAssumption DEF TypeOK
  <2>4. CASE lease.worker = WorkerOf[r]
    <3>1. lease' = NoLease
      BY <1>2, <2>4 DEF LeaseAfter
    <3>2. ~lease'.live
      BY <3>1 DEF NoLease
    <3>3. OwnWorkers => Cardinality(Recovering') <= expiries
      BY <2>2, <2>3 DEF LeaseInv, Live
    <3> QED BY <2>2, <2>3, <3>2, <3>3 DEF LeaseInv, Live, OwnWorkers
  <2>5. CASE lease.worker # WorkerOf[r]
    <3>1. lease' = lease
      BY <2>5 DEF LeaseAfter
    <3>2. lease.live => \E q \in Recovering' : WorkerOf[q] = lease.worker
      BY <2>1, <2>5 DEF LeaseInv
    <3>3. OwnWorkers => Cardinality(Recovering') <= expiries + Live
      BY <2>2, <2>3 DEF LeaseInv, Live
    <3> QED BY <2>2, <3>1, <3>2, <3>3 DEF LeaseInv, Live, OwnWorkers
  <2> QED BY <2>4, <2>5
<1> QED BY <1>1, <1>2

\* A recovery starts only beside recoveries whose lease expired.
LEMMA RecoverLease ==
  ASSUME TypeOK, LeaseInv, NEW r \in Request, Recover(r), Begun(r, "recover")
  PROVE  LeaseInv'
<1>1. Recovering' = Recovering \cup {r} /\ r \notin Recovering
  <2>1. \A q \in Request : q \in Recovering' <=> q \in Recovering \/ q = r
    BY DEF Recovering, Begun, Elsewhere, TypeOK
  <2>2. r \notin Recovering
    BY DEF Recovering, Begun
  <2> QED BY <2>1, <2>2 DEF Recovering
<1>2. /\ IsFiniteSet(Recovering') /\ Cardinality(Recovering') = Cardinality(Recovering) + 1
      /\ Cardinality(Recovering) \in Nat
  BY <1>1, FS_AddElement, FS_CardinalityType DEF LeaseInv
<1>3. lease'.worker = WorkerOf[r] /\ lease'.live /\ expiries' = expiries
  BY DEF Recover, Begun
<1>4. ASSUME OwnWorkers PROVE ~lease.live
  <2> SUFFICES ASSUME lease.live PROVE FALSE
    OBVIOUS
  <2>1. PICK q \in Recovering : WorkerOf[q] = lease.worker
    BY DEF LeaseInv
  <2>2. q \in Request /\ q # r
    BY <1>1 DEF Recovering
  <2>3. lease.worker \in {None, WorkerOf[r]}
    BY DEF Recover, LeaseFree
  <2>4. lease.worker # None
    BY <2>1, <2>2, WorkflowAssumption
  <2> QED BY <1>4, <2>1, <2>2, <2>3, <2>4 DEF OwnWorkers
<1>5. expiries \in Nat
  BY WorkflowAssumption DEF TypeOK
<1>6. OwnWorkers => Cardinality(Recovering') <= expiries + 1
  BY <1>2, <1>4, <1>5 DEF LeaseInv, Live
<1> QED BY <1>1, <1>2, <1>3, <1>6 DEF LeaseInv, Live, OwnWorkers

LEMMA StartLease == ASSUME TypeOK, LeaseInv, NEW r \in Request, Start(r) PROVE LeaseInv'
<1>1. PICK k \in Operations : Begun(r, k) /\ (k = "recover" => Recover(r))
  BY StartEffect
<1>2. CASE k = "recover"
  BY <1>1, <1>2, RecoverLease
<1>3. CASE k # "recover"
  <2>1. \A q \in Request : q \in Recovering' <=> q \in Recovering
    BY <1>1, <1>3 DEF Recovering, Begun, Elsewhere, TypeOK
  <2>2. Recovering' = Recovering
    BY <2>1 DEF Recovering
  <2> QED BY <1>1, <1>3, <2>2, LeaseKept DEF Begun
<1> QED BY <1>2, <1>3

LEMMA RollBackEffect ==
  ASSUME TypeOK, NEW r \in Request, RollBack(r)
  PROVE  /\ pc'[r] = "ended" /\ session'[r] = Fresh /\ Elsewhere(r)
         /\ locker' = Unlocked(r) /\ lease' = LeaseAfter(r) /\ UNCHANGED <<db, op, expiries>>
  BY DEF RollBack, TypeOK, Elsewhere

LEMMA AdvanceLease == ASSUME TypeOK, LeaseInv, NEW r \in Request, Advance(r) PROVE LeaseInv'
<1>1. CASE Turn(r)
  BY <1>1, WithinRecovery DEF Turn, Alone, AtWork
<1>2. CASE LastTurn(r)
  BY <1>2, WithinRecovery DEF LastTurn, Alone, AtWork
<1>3. ASSUME RollBack(r), op[r] = "recover" => pc[r] \in AtWork PROVE LeaseInv'
  BY <1>3, RollBackEffect, LeavesRecovery DEF AtWork
<1>4. CASE Create(r)
  <2>1. CASE RollBack(r)
    BY <1>3, <1>4, <2>1 DEF Create
  <2>2. CASE Goto(r, "running", [Fresh EXCEPT !.status = "RUNNING"])
    BY <1>4, <2>2, MoveTo, WithinRecovery DEF Create
  <2> QED BY <1>4, <2>1, <2>2 DEF Create
<1>5. CASE Overwrite(r)
  BY <1>5, MoveTo, WithinRecovery DEF Overwrite
<1>6. CASE Decide(r)
  <2>1. PICK l : Goto(r, l, [session[r] EXCEPT !.status = row])
    BY <1>6, Zenon DEF Decide
  <2> QED BY <1>6, <2>1, MoveTo, WithinRecovery DEF Decide
<1>7. CASE Mark(r)
  <2>1. PICK t : Goto(r, "running", t)
    BY <1>7, Zenon DEF Mark
  <2> QED BY <1>7, <2>1, MoveTo, WithinRecovery DEF Mark, AtWork
<1>8. CASE Flush(r)
  <2>1. pc[r] = "ending" /\ pc'[r] = "flushed" /\ Elsewhere(r) /\ lease' = LeaseAfter(r)
        /\ UNCHANGED <<op, expiries>>
    BY <1>8 DEF Flush, TypeOK, Elsewhere
  <2> QED BY <2>1, LeavesRecovery DEF AtWork
<1>9. CASE Commit(r)
  BY <1>9, MoveTo, WithinRecovery DEF Commit, AtWork
<1>10. ASSUME NEW x \in Step, NoChild(r, x) PROVE LeaseInv'
  <2>1. CASE op[r] \in {"trigger", "decide"}
    <3>1. Goto(r, "flushed", [session[r] EXCEPT !.todo = {}])
      BY <1>10, <2>1 DEF NoChild
    <3> QED BY <2>1, <3>1, MoveTo, WithinRecovery
  <2>2. CASE op[r] \notin {"trigger", "decide"}
    BY <1>3, <1>10, <2>2 DEF NoChild, AtWork
  <2> QED BY <2>1, <2>2
<1>11. ASSUME NEW x \in Step, StartChild(r, x) PROVE LeaseInv'
  BY <1>1, <1>3, <1>11, ChildEffect DEF AtWork
<1> QED BY <1>1, <1>2, <1>4, <1>5, <1>6, <1>7, <1>8, <1>9, <1>10, <1>11, PickEffect,
           SucceedEffect, UntriedEffect, WaitEffect, FailEffect DEF Advance

LEMMA LeaseInit == Init => LeaseInv
<1> SUFFICES ASSUME Init PROVE LeaseInv
  OBVIOUS
<1>1. Recovering = {}
  BY DEF Init, Recovering
<1>2. IsFiniteSet(Recovering) /\ Cardinality(Recovering) = 0
  BY <1>1, FS_EmptySet
<1> QED BY <1>2 DEF Init, LeaseInv, NoLease, Live

LEMMA LeaseStep == Inv /\ LeaseInv /\ [Next]_vars => LeaseInv'
<1> SUFFICES ASSUME Inv, LeaseInv, [Next]_vars PROVE LeaseInv'
  OBVIOUS
<1>0. TypeOK
  BY DEF Inv
<1>1. CASE LeaseExpires
  <2>1. Recovering' = Recovering
    BY <1>1 DEF LeaseExpires, Recovering
  <2>2. lease.live /\ ~lease'.live /\ expiries' = expiries + 1
    BY <1>0, <1>1 DEF LeaseExpires, TypeOK, Lease
  <2> QED BY <1>0, <2>1, <2>2 DEF LeaseInv, OwnWorkers, Live
<1>2. CASE Crash
  <2>1. Recovering' = {}
    BY <1>0, <1>2 DEF Crash, Recovering
  <2>2. IsFiniteSet(Recovering') /\ Cardinality(Recovering') = 0
    BY <2>1, FS_EmptySet
  <2>3. ~lease'.live /\ expiries' = expiries /\ expiries \in Nat
    BY <1>0, <1>2, WorkflowAssumption DEF Crash, NoLease, TypeOK
  <2> QED BY <2>2, <2>3 DEF LeaseInv, Live
<1>3. CASE (\E i \in DOMAIN approvals : ApprovalExpires(i)) \/ UNCHANGED vars
  <2>1. UNCHANGED <<op, pc, lease, expiries>>
    BY <1>3 DEF ApprovalExpires, vars
  <2>2. Recovering' = Recovering
    BY <2>1 DEF Recovering
  <2> QED BY <2>1, <2>2, LeaseKept
<1> QED BY <1>0, <1>1, <1>2, <1>3, StartLease, AdvanceLease DEF Next

\* Recoveries of different workers are at work together only as often as leases expired.
THEOREM RecoveriesAreFenced == Spec => []RecoveryFenced
<1>1. Inv /\ LeaseInv => RecoveryFenced
  <2> SUFFICES ASSUME Inv, LeaseInv, OwnWorkers PROVE Cardinality(Recovering) <= 1 + expiries
    BY DEF RecoveryFenced, OwnWorkers
  <2>1. expiries \in Nat /\ Cardinality(Recovering) \in Nat
    BY FS_CardinalityType, WorkflowAssumption DEF Inv, TypeOK, LeaseInv
  <2> QED BY <2>1 DEF LeaseInv, Live
<1> QED BY <1>1, LeaseInit, LeaseStep, Safe, PTL DEF Spec

-----------------------------------------------------------------------------
(* A waiting run *)

\* A session at stage l that will make the run wait brings a request, or the run has a
\* WAIT step; one that approves a request has found the run waiting and then writes
\* its status, or writes nothing.
Waits(l, s) ==
    /\ s.waits => SomeWait
    /\ s.final = "WAITING" => s.asks # {} \/ s.waits
    /\ l \in {"idle", "loaded", "marking", "running"} => s.final = "NONE"
    /\ l = "running" /\ s.wrote => s.status = "RUNNING"
    /\ l = "flushed" /\ s.wrote /\ s.status = "WAITING" => s.final = "WAITING"
    /\ s.answers # 0 /\ s.decision = "APPROVED" =>
           /\ l = "marking" => s.status = "WAITING"
           /\ l \in {"running", "ending"} => s.wrote

\* The commit of r will approve request i and leave the run's status alone.
Approves(r, i) ==
    /\ pc[r] = "flushed" /\ ~session[r].wrote
    /\ session[r].answers = i /\ session[r].decision = "APPROVED"

Unapproved ==
    row = "WAITING" =>
        \/ SomeWait
        \/ \E i \in DOMAIN approvals :
               /\ approvals[i].status # "APPROVED"
               /\ \A r \in Request : ~Approves(r, i)

WaitInv == (\A r \in Request : Waits(pc[r], session[r])) /\ Unapproved

\* A step that commits nothing that makes the run wait, and no approver that found it waiting.
LEMMA WaitKept ==
  ASSUME WaitInv, NEW r \in Request, Elsewhere(r), UNCHANGED <<definition, approvals>>,
         row' = row \/ row' # "WAITING", Waits(pc'[r], session'[r]),
         \A i \in DOMAIN approvals : Approves(r, i)' => row # "WAITING"
  PROVE  WaitInv'
<1>1. SomeWait' = SomeWait
  BY DEF SomeWait, Kind
<1>2. \A q \in Request : Waits(pc'[q], session'[q])
  BY DEF WaitInv, Elsewhere
<1>3. \A q \in Request : Waits(pc[q], session[q])'
  BY <1>1, <1>2 DEF Waits
<1>4. ASSUME row' = "WAITING", ~SomeWait
      PROVE  \E i \in DOMAIN approvals :
                 /\ approvals[i].status # "APPROVED"
                 /\ \A q \in Request : ~Approves(q, i)'
  <2>1. PICK i \in DOMAIN approvals : /\ approvals[i].status # "APPROVED"
                                      /\ \A q \in Request : ~Approves(q, i)
    BY <1>4 DEF WaitInv, Unapproved
  <2>2. \A q \in Request : ~Approves(q, i)'
    BY <1>4, <2>1 DEF Approves, Elsewhere
  <2> QED BY <2>1, <2>2
<1>5. Unapproved'
  BY <1>1, <1>4 DEF Unapproved
<1> QED BY <1>3, <1>5 DEF WaitInv

LEMMA FreshWaits == \A l \in Stages : Waits(l, Fresh)
  BY DEF Fresh, Waits

LEMMA BegunWait == ASSUME WaitInv, NEW r \in Request, NEW k, Begun(r, k) PROVE WaitInv'
<1>1. Waits(pc'[r], session'[r])
  BY DEF Begun, Waits
<1>2. UNCHANGED <<definition, approvals, row>>
  BY DEF Begun, db
<1>3. pc'[r] # "flushed"
  BY DEF Begun
<1> QED BY <1>1, <1>2, <1>3, WaitKept DEF Begun, Approves

LEMMA TurnWait == ASSUME WaitInv, NEW r \in Request, Turn(r) PROVE WaitInv'
<1>0. Waits("running", session[r])
  BY DEF WaitInv, Turn
<1>1. Waits(pc'[r], session'[r])
  BY <1>0 DEF Turn, Keeps, Waits
<1>2. UNCHANGED <<definition, approvals, row>>
  BY DEF Turn, Alone, db
<1> QED BY <1>1, <1>2, WaitKept DEF Turn, Alone, Approves

LEMMA LastTurnWait == ASSUME WaitInv, NEW r \in Request, LastTurn(r) PROVE WaitInv'
<1>0. Waits("running", session[r])
  BY DEF WaitInv, LastTurn
<1>1. Waits(pc'[r], session'[r])
  BY <1>0 DEF LastTurn, Keeps, Waits
<1>2. UNCHANGED <<definition, approvals, row>>
  BY DEF LastTurn, Alone, db
<1> QED BY <1>1, <1>2, WaitKept DEF LastTurn, Alone, Approves

LEMMA RollBackWait == ASSUME TypeOK, WaitInv, NEW r \in Request, RollBack(r) PROVE WaitInv'
<1>1. Waits(pc'[r], session'[r]) /\ pc'[r] = "ended"
  BY RollBackEffect, FreshWaits DEF Stages
<1>2. UNCHANGED <<definition, approvals, row>> /\ Elsewhere(r)
  BY RollBackEffect DEF db
<1> QED BY <1>1, <1>2, WaitKept DEF Approves

LEMMA CreateWait == ASSUME TypeOK, WaitInv, NEW r \in Request, Create(r) PROVE WaitInv'
<1>1. CASE /\ row' = "RUNNING" /\ Goto(r, "running", [Fresh EXCEPT !.status = "RUNNING"])
           /\ UNCHANGED <<definition, approvals>>
  <2>1. Waits(pc'[r], session'[r]) /\ pc'[r] = "running" /\ Elsewhere(r)
    BY <1>1, MoveTo DEF Fresh, Waits
  <2> QED BY <1>1, <2>1, WaitKept DEF Approves
<1> QED BY <1>1, RollBackWait DEF Create

LEMMA OverwriteWait == ASSUME TypeOK, WaitInv, NEW r \in Request, Overwrite(r) PROVE WaitInv'
<1>1. /\ row' # "WAITING" /\ Goto(r, "ended", Fresh) /\ UNCHANGED <<definition, approvals>>
  BY DEF Overwrite, Outcome
<1>2. Waits(pc'[r], session'[r]) /\ pc'[r] = "ended" /\ Elsewhere(r)
  BY <1>1, MoveTo, FreshWaits DEF Stages
<1> QED BY <1>1, <1>2, WaitKept DEF Approves

\* A decision is committed alone only when the run was not waiting.
LEMMA DecideWait == ASSUME Inv, WaitInv, NEW r \in Request, Decide(r) PROVE WaitInv'
<1> DEFINE s == session[r]
           t == [s EXCEPT !.status = row]
           l == IF s.decision = "APPROVED" /\ row = "WAITING" THEN "marking" ELSE "flushed"
<1>0. /\ Waits("loaded", s) /\ s \in Sessions(Len(approvals)) /\ UNCHANGED <<db, locker>>
      /\ Goto(r, l, t) /\ ~s.wrote
  BY DEF Decide, WaitInv, Inv, TypeOK, Good, Ending
<1>1. /\ t.status = row
      /\ \A f \in {"waits", "final", "asks", "wrote", "answers", "decision"} : t[f] = s[f]
  BY <1>0 DEF Sessions
<1>2. \/ l = "marking" /\ row = "WAITING"
      \/ l = "flushed" /\ (row # "WAITING" \/ s.decision # "APPROVED")
  OBVIOUS
<1> HIDE DEF t, l
<1>3. Waits(l, t)
  BY <1>0, <1>1, <1>2 DEF Waits
<1>4. pc'[r] = l /\ session'[r] = t /\ Elsewhere(r)
  BY <1>0, MoveTo DEF Inv
<1> QED BY <1>0, <1>1, <1>2, <1>3, <1>4, WaitKept DEF Approves, db

LEMMA MarkWait == ASSUME TypeOK, WaitInv, NEW r \in Request, Mark(r) PROVE WaitInv'
<1> DEFINE s == session[r]
           w == s.wrote \/ s.status # "RUNNING"
           t == [s EXCEPT !.wrote = w, !.status = "RUNNING"]
<1>0. /\ Waits("marking", s) /\ s \in Sessions(Len(approvals)) /\ UNCHANGED db
      /\ Goto(r, "running", t)
  BY DEF Mark, WaitInv, TypeOK
<1> HIDE DEF w
<1>1. /\ t.status = "RUNNING" /\ t.wrote = w
      /\ \A f \in {"waits", "final", "asks", "answers", "decision"} : t[f] = s[f]
  BY <1>0 DEF Sessions
<1> HIDE DEF t
<1>2. Waits("running", t)
  BY <1>0, <1>1 DEF Waits, w
<1>3. pc'[r] = "running" /\ session'[r] = t /\ Elsewhere(r)
  BY <1>0, MoveTo
<1> QED BY <1>0, <1>2, <1>3, WaitKept DEF Approves, db

\* What Flush leaves in the session.
LEMMA FlushEffect ==
  ASSUME TypeOK, NEW r \in Request, Flush(r)
  PROVE  /\ pc[r] = "ending" /\ pc'[r] = "flushed" /\ Elsewhere(r)
         /\ session'[r].status = session[r].final
         /\ session'[r].wrote <=> session[r].wrote \/ session[r].final # session[r].status
         /\ Keeps(r, {"waits", "final", "asks", "answers", "decision", "undo", "mine"})
         /\ UNCHANGED <<db, op, expiries>>
<1> DEFINE s == session[r]
           w == s.wrote \/ s.final # s.status
           t == [s EXCEPT !.status = s.final, !.wrote = w]
<1>1. /\ s \in Sessions(Len(approvals)) /\ session' = [session EXCEPT ![r] = t]
      /\ pc[r] = "ending" /\ pc' = [pc EXCEPT ![r] = "flushed"] /\ UNCHANGED <<db, op, expiries>>
  BY DEF Flush, TypeOK
<1> HIDE DEF w
<1>2. /\ t.status = s.final /\ t.wrote = w
      /\ \A f \in {"waits", "final", "asks", "answers", "decision", "undo", "mine"} : t[f] = s[f]
  BY <1>1 DEF Sessions
<1> HIDE DEF t
<1>3. session'[r] = t /\ pc'[r] = "flushed" /\ Elsewhere(r)
  BY <1>1 DEF TypeOK, Elsewhere
<1> QED BY <1>1, <1>2, <1>3 DEF Keeps, w

LEMMA FlushWait == ASSUME TypeOK, WaitInv, NEW r \in Request, Flush(r) PROVE WaitInv'
<1>0. Waits("ending", session[r])
  BY FlushEffect DEF WaitInv
<1>1. Waits(pc'[r], session'[r])
  BY <1>0, FlushEffect DEF Keeps, Waits
<1>2. \A i \in DOMAIN approvals : ~Approves(r, i)'
  <2>1. DOMAIN approvals \subseteq Nat \ {0}
    BY DEF TypeOK
  <2> QED BY <1>0, <2>1, FlushEffect DEF Keeps, Waits, Approves
<1> QED BY <1>1, <1>2, FlushEffect, WaitKept DEF db

LEMMA CutWait ==
  ASSUME TypeOK, WaitInv, NEW r \in Request, NEW x \in Step, NoChild(r, x) PROVE WaitInv'
<1> DEFINE s == session[r]
           t == [s EXCEPT !.todo = {}]
<1>0. Waits("running", s) /\ s \in Sessions(Len(approvals))
  BY DEF NoChild, WaitInv, TypeOK
<1>1. \A f \in {"waits", "final", "asks", "wrote", "status", "answers", "decision"} : t[f] = s[f]
  BY <1>0 DEF Sessions
<1>2. CASE Goto(r, "flushed", t) /\ UNCHANGED <<db, locker>>
  <2> HIDE DEF t
  <2>1. pc'[r] = "flushed" /\ session'[r] = t /\ Elsewhere(r)
    BY <1>2, MoveTo
  <2>2. Waits("flushed", t)
    BY <1>0, <1>1 DEF Waits
  <2>3. \A i \in DOMAIN approvals : ~Approves(r, i)'
    <3>1. DOMAIN approvals \subseteq Nat \ {0}
      BY DEF TypeOK
    <3> QED BY <1>0, <1>1, <2>1, <3>1 DEF Waits, Approves
  <2> QED BY <1>2, <2>1, <2>2, <2>3, WaitKept DEF db
<1> QED BY <1>2, RollBackWait DEF NoChild

\* What a commit makes of the approvals.
LEMMA CommitApprovals ==
  ASSUME TypeOK, NEW r \in Request, Commit(r)
  PROVE  /\ Len(approvals) \in Nat /\ DOMAIN approvals = 1 .. Len(approvals)
         /\ DOMAIN approvals \subseteq DOMAIN approvals'
         /\ \A i \in DOMAIN approvals :
               approvals'[i].status = IF i = session[r].answers THEN session[r].decision
                                      ELSE approvals[i].status
         /\ session[r].asks # {} =>
               /\ Len(approvals) + 1 \in DOMAIN approvals'
               /\ approvals'[Len(approvals) + 1].status = "PENDING"
         /\ session[r].asks = {} /\ approvals = <<>> => approvals' = <<>>
<1> DEFINE s == session[r]
           m == Len(approvals)
           decided == [i \in DOMAIN approvals |->
                          IF i = s.answers THEN [approvals[i] EXCEPT !.status = s.decision]
                          ELSE approvals[i]]
           q == Requests(r)
<1>0. s \in Sessions(m) /\ approvals' = decided \o q
  BY DEF Commit, TypeOK
<1>1. approvals \in Seq(Approval) /\ m \in Nat /\ DOMAIN approvals = 1 .. m
  BY DEF TypeOK, Approval, Answers, Decisions
<1>2. PICK n \in Nat : /\ q \in [1 .. n -> [step : Step, status : {"PENDING"}]]
                       /\ n = 0 <=> s.asks = {}
  BY <1>0, RequestsForm DEF Sessions
<1>3. \A i \in 1 .. m : /\ decided[i] \in Approval
                        /\ decided[i].status = IF i = s.answers THEN s.decision
                                               ELSE approvals[i].status
  <2>1. s.decision \in Answers
    BY <1>0 DEF Sessions, Answers, Decisions
  <2>2. \A a \in Approval : /\ [a EXCEPT !.status = s.decision] \in Approval
                            /\ [a EXCEPT !.status = s.decision].status = s.decision
    BY <2>1 DEF Approval
  <2>3. \A i \in 1 .. m : approvals[i] \in Approval
    BY <1>1
  <2> QED BY <1>1, <2>2, <2>3
<1>4. decided \in Seq(Approval) /\ Len(decided) = m
  <2>1. decided \in [1 .. m -> Approval]
    BY <1>1, <1>3
  <2> HIDE DEF decided
  <2> QED BY <1>1, <2>1
<1> HIDE DEF decided, q, m
<1>5. q \in Seq(Approval) /\ Len(q) = n
  <2>1. [step : Step, status : {"PENDING"}] \subseteq Approval
    BY DEF Approval, Answers, Decisions
  <2>2. q \in [1 .. n -> Approval]
    BY <1>2, <2>1
  <2> QED BY <2>2
<1>9. \A a, b \in Seq(Approval) :
         /\ a \o b \in Seq(Approval) /\ Len(a \o b) = Len(a) + Len(b)
         /\ DOMAIN (a \o b) = 1 .. (Len(a) + Len(b))
         /\ \A i \in 1 .. Len(a) : (a \o b)[i] = a[i]
         /\ \A i \in 1 .. Len(b) : (a \o b)[Len(a) + i] = b[i]
  OBVIOUS
<1>6. /\ DOMAIN approvals' = 1 .. (m + n)
      /\ \A i \in 1 .. m : approvals'[i] = decided[i]
      /\ \A i \in 1 .. n : approvals'[m + i] = q[i]
      /\ approvals' \in Seq(Approval) /\ Len(approvals') = m + n
  BY <1>0, <1>4, <1>5, <1>9
<1>7. s.asks # {} => m + 1 \in DOMAIN approvals' /\ approvals'[m + 1].status = "PENDING"
  <2> SUFFICES ASSUME s.asks # {} PROVE m + 1 \in 1 .. (m + n) /\ approvals'[m + 1].status = "PENDING"
    BY <1>6
  <2>1. n # 0 /\ 1 \in 1 .. n
    BY <1>2
  <2>2. q[1].status = "PENDING"
    BY <1>2, <2>1
  <2> QED BY <1>1, <1>6, <2>1, <2>2
<1>8. s.asks = {} /\ approvals = <<>> => approvals' = <<>>
  <2> SUFFICES ASSUME s.asks = {}, approvals = <<>> PROVE approvals' = <<>>
    OBVIOUS
  <2>1. n = 0 /\ m = 0
    BY <1>2 DEF m
  <2> QED BY <1>6, <2>1
<1> QED BY <1>1, <1>3, <1>6, <1>7, <1>8 DEF m

LEMMA CommitWait == ASSUME TypeOK, WaitInv, NEW r \in Request, Commit(r) PROVE WaitInv'
<1> DEFINE s == session[r]
<1>1. /\ pc[r] = "flushed" /\ row' = (IF s.wrote THEN s.status ELSE row)
      /\ definition' = definition /\ Goto(r, "ended", Fresh)
  BY DEF Commit
<1>2. pc'[r] = "ended" /\ session'[r] = Fresh /\ Elsewhere(r)
  BY <1>1, MoveTo
<1>3. SomeWait' = SomeWait
  BY <1>1 DEF SomeWait, Kind
<1>4. \A q \in Request : Waits(pc'[q], session'[q])
  BY <1>2, FreshWaits DEF WaitInv, Elsewhere, Stages
<1>5. \A q \in Request : Waits(pc[q], session[q])'
  BY <1>3, <1>4 DEF Waits
<1>6. \A q \in Request : \A i : Approves(q, i)' => q # r /\ Approves(q, i)
  BY <1>2 DEF Approves, Elsewhere
<1>7. ASSUME row' = "WAITING", ~SomeWait
      PROVE  \E i \in DOMAIN approvals' :
                 /\ approvals'[i].status # "APPROVED"
                 /\ \A q \in Request : ~Approves(q, i)'
  <2>0. Waits("flushed", s)
    BY <1>1 DEF WaitInv
  <2>1. CASE s.wrote
    <3>1. s.asks # {}
      BY <1>1, <1>7, <2>0, <2>1 DEF Waits
    <3>5. PICK i : i = Len(approvals) + 1
      OBVIOUS
    <3>2. \A q \in Request : session[q].answers # i
      <4>1. \A q \in Request : session[q].answers \in 0 .. Len(approvals)
        BY DEF TypeOK, Sessions
      <4> QED BY <3>5, <4>1, CommitApprovals
    <3>3. \A q \in Request : ~Approves(q, i)'
      BY <1>6, <3>2 DEF Approves
    <3>4. i \in DOMAIN approvals' /\ approvals'[i].status = "PENDING"
      BY <3>1, <3>5, CommitApprovals
    <3> QED BY <3>3, <3>4
  <2>2. CASE ~s.wrote
    <3>1. PICK i \in DOMAIN approvals : /\ approvals[i].status # "APPROVED"
                                        /\ \A q \in Request : ~Approves(q, i)
      BY <1>1, <1>7, <2>2 DEF WaitInv, Unapproved
    <3>2. i = s.answers => s.decision # "APPROVED"
      BY <1>1, <2>2, <3>1 DEF Approves
    <3>4. i \in DOMAIN approvals' /\ approvals'[i].status # "APPROVED"
      BY <3>1, <3>2, CommitApprovals
    <3> QED BY <1>6, <3>1, <3>4
  <2> QED BY <2>1, <2>2
<1>8. Unapproved'
  BY <1>3, <1>7 DEF Unapproved
<1> QED BY <1>5, <1>8 DEF WaitInv

LEMMA WaitInit == Init => WaitInv
<1> SUFFICES ASSUME Init PROVE WaitInv
  OBVIOUS
<1>1. \A r \in Request : Waits(pc[r], session[r])
  BY FreshWaits DEF Init, Stages
<1> QED BY <1>1 DEF Init, WaitInv, Unapproved

LEMMA WaitStep == Inv /\ WaitInv /\ [Next]_vars => WaitInv'
<1> SUFFICES ASSUME Inv, WaitInv, [Next]_vars PROVE WaitInv'
  OBVIOUS
<1>0. TypeOK
  BY DEF Inv
<1>1. ASSUME NEW r \in Request, Start(r) PROVE WaitInv'
  BY <1>0, <1>1, StartEffect, BegunWait
<1>2. ASSUME NEW r \in Request, Advance(r) PROVE WaitInv'
  <2>1. ASSUME NEW x \in Step, \/ Succeed(r, x) \/ Fail(r, x) \/ NotTried(r, x)
                                \/ Wait(r, x) \/ StartChild(r, x)
        PROVE  WaitInv'
    BY <1>0, <2>1, SucceedEffect, FailEffect, UntriedEffect, WaitEffect, ChildEffect,
       TurnWait, LastTurnWait,
       RollBackWait
  <2>2. ASSUME Pick(r) PROVE WaitInv'
    BY <1>0, <2>2, PickEffect, TurnWait, LastTurnWait
  <2> QED BY <1>0, <1>2, <2>1, <2>2, CreateWait, OverwriteWait, DecideWait, MarkWait, FlushWait,
             CommitWait, CutWait DEF Advance
<1>3. CASE (\E i \in DOMAIN approvals : ApprovalExpires(i)) \/ LeaseExpires \/ UNCHANGED vars
  <2>1. UNCHANGED <<definition, row, approvals, pc, session>>
    BY <1>3 DEF ApprovalExpires, LeaseExpires, vars, db
  <2> QED BY <2>1 DEF WaitInv, Waits, Unapproved, Approves, SomeWait, Kind
<1>4. CASE Crash
  <2>1. UNCHANGED <<definition, row, approvals>> /\ session' = [r \in Request |-> Fresh]
    BY <1>4 DEF Crash, db
  <2>2. \A r \in Request : pc'[r] \in {"idle", "ended"}
    BY <1>0, <1>4 DEF Crash, TypeOK
  <2>3. \A r \in Request : Waits(pc[r], session[r])'
    BY <2>1, <2>2 DEF Waits, Fresh
  <2>4. \A r \in Request : \A i : ~Approves(r, i)'
    BY <2>2 DEF Approves
  <2>5. SomeWait' = SomeWait
    BY <2>1 DEF SomeWait, Kind
  <2>6. Unapproved'
    BY <2>1, <2>4, <2>5 DEF WaitInv, Unapproved
  <2> QED BY <2>3, <2>6 DEF WaitInv
<1> QED BY <1>1, <1>2, <1>3, <1>4 DEF Next

\* However decisions, runners and restarts overlap, a run is WAITING for a WAIT step or
\* for a request that was not approved: no approval leaves it without the next request.
THEOREM WaitingIsExplained == Spec => []WaitingLacksApproval
<1>1. Inv /\ WaitInv => WaitingLacksApproval
  BY DEF WaitInv, Unapproved, WaitingLacksApproval, SomeWait
<1> QED BY <1>1, WaitInit, WaitStep, Safe, PTL DEF Spec

-----------------------------------------------------------------------------
(* Failures that compensate *)

AllCompensate ==
    \A s \in Step : Kind(s) = "TASK" /\ definition.onFailure[s] = "compensate"

Triggers == {r \in Request : op[r] = "trigger"}

\* Where r stands in a run of one trigger whose steps all compensate: nothing asks or
\* waits, so no runner finds the run WAITING; every status a runner ends with is
\* one it did not read, so it is written, and under the row lock. A runner that failed holds
\* the lock since it made its plan: the plan still covers what is committed.
Undoing(r) ==
    LET s == session[r] IN
    /\ op[r] # "decide" /\ s.asks = {} /\ ~s.waits
    /\ pc[r] \in {"running", "ending"} => s.status = "RUNNING"
    /\ pc[r] = "ending" => s.final \in {"COMPLETED", "FAILED"}
    /\ pc[r] = "flushed" => /\ locker = r /\ s.wrote /\ s.status = s.final
                            /\ s.final \in {"COMPLETED", "FAILED"}
    /\ pc[r] \in {"ending", "flushed"} /\ s.final = "FAILED" => locker = r /\ s.undo = PlanOf(s)

Covered == row = "FAILED" => \A s \in Step : undone[s] >= done[s]

Undone ==
    AllCompensate /\ Cardinality(Triggers) <= 1 =>
        approvals = <<>> /\ Covered /\ \A r \in Request : Undoing(r)

UndoInv ==
    /\ IsFiniteSet(Triggers)
    /\ \A r \in Request : pc[r] = "idle" <=> op[r] = "none"
    /\ row # "NONE" \/ approvals # <<>> \/ (\E r \in Request : op[r] # "none") => Triggers # {}
    /\ Undone

\* A step of r that keeps the triggers: the others stand as they did when r leaves what
\* they hold, and are undone when r is.
LEMMA UndoKept ==
  ASSUME TypeOK, UndoInv, NEW r \in Request, Elsewhere(r), UNCHANGED <<definition, op>>,
         pc[r] # "idle", pc'[r] # "idle",
         ASSUME AllCompensate, approvals = <<>>, Covered, \A q \in Request : Undoing(q)
         PROVE  /\ approvals' = <<>> /\ Covered' /\ Undoing(r)'
                /\ \A q \in Request \ {r} : locker = q => locker' = q /\ done' = done
  PROVE  UndoInv'
<1>1. Triggers' = Triggers
  BY DEF Triggers
<1>2. AllCompensate' = AllCompensate
  BY DEF AllCompensate, Kind
<1>3. \A q \in Request : pc'[q] = "idle" <=> op'[q] = "none"
  BY DEF UndoInv, Elsewhere
<1>4. Triggers' # {}
  BY <1>1 DEF UndoInv
<1>5. Undone'
  <2> SUFFICES ASSUME AllCompensate, Cardinality(Triggers) <= 1
               PROVE  approvals' = <<>> /\ Covered' /\ \A q \in Request : Undoing(q)'
    BY <1>1, <1>2 DEF Undone
  <2>1. approvals = <<>> /\ Covered /\ \A q \in Request : Undoing(q)
    BY DEF UndoInv, Undone
  <2>2. /\ approvals' = <<>> /\ Covered' /\ Undoing(r)'
        /\ \A q \in Request \ {r} : locker = q => locker' = q /\ done' = done
    BY <2>1
  <2>3. ASSUME NEW q \in Request \ {r} PROVE Undoing(q)'
    <3>1. Undoing(q) /\ pc'[q] = pc[q] /\ session'[q] = session[q] /\ op'[q] = op[q]
      BY <2>1 DEF Elsewhere
    <3>2. CASE locker = q
      <4>1. locker' = q /\ PlanOf(session[q])' = PlanOf(session[q])
        BY <2>2, <3>1, <3>2 DEF PlanOf
      <4> QED BY <3>1, <3>2, <4>1 DEF Undoing
    <3>3. CASE locker # q
      BY <3>1, <3>3 DEF Undoing
    <3> QED BY <3>2, <3>3
  <2> QED BY <2>2, <2>3
<1> QED BY <1>1, <1>3, <1>4, <1>5 DEF UndoInv

LEMMA BegunUndo == ASSUME TypeOK, UndoInv, NEW r \in Request, NEW k \in Operations, Begun(r, k)
                   PROVE  UndoInv'
<1>1. /\ op[r] = "none" /\ op'[r] = k /\ \A q \in Request \ {r} : op'[q] = op[q]
      /\ UNCHANGED <<db, locker>> /\ pc'[r] # "idle"
  BY DEF Begun, UndoInv, TypeOK
<1>2. Triggers' = (IF k = "trigger" THEN Triggers \cup {r} ELSE Triggers) /\ r \notin Triggers
  <2>1. \A q \in Request : q \in Triggers' <=> q \in Triggers \/ (k = "trigger" /\ q = r)
    BY <1>1 DEF Triggers
  <2>2. r \notin Triggers
    BY <1>1 DEF Triggers
  <2> QED BY <2>1, <2>2 DEF Triggers
<1>3. /\ IsFiniteSet(Triggers') /\ Cardinality(Triggers) \in Nat
      /\ Cardinality(Triggers') = Cardinality(Triggers) + IF k = "trigger" THEN 1 ELSE 0
  BY <1>2, FS_AddElement, FS_CardinalityType DEF UndoInv
<1>4. \A q \in Request : pc'[q] = "idle" <=> op'[q] = "none"
  <2>1. k # "none"
    BY DEF Begun
  <2> QED BY <1>1, <2>1 DEF UndoInv, Begun, Elsewhere
<1>5. Triggers' # {}
  <2>1. k = "trigger" \/ row # "NONE" \/ approvals # <<>>
    BY DEF Begun
  <2> QED BY <1>2, <2>1 DEF UndoInv
<1>6. Undone'
  <2>0. AllCompensate' = AllCompensate /\ UNCHANGED <<row, done, undone, approvals>>
    BY <1>1 DEF AllCompensate, Kind, db
  <2> SUFFICES ASSUME AllCompensate, Cardinality(Triggers') <= 1
               PROVE  approvals' = <<>> /\ Covered' /\ \A q \in Request : Undoing(q)'
    BY <2>0 DEF Undone
  <2>1. approvals = <<>> /\ Covered /\ \A q \in Request : Undoing(q)
    BY <1>3 DEF UndoInv, Undone
  <2>2. approvals' = <<>> /\ Covered'
    BY <2>0, <2>1 DEF Covered
  <2>3. ASSUME k = "trigger" PROVE row = "NONE"
    <3>1. Cardinality(Triggers) = 0
      BY <1>3, <2>3
    <3>2. Triggers = {}
      BY <3>1, FS_EmptySet DEF UndoInv
    <3> QED BY <3>2 DEF UndoInv
  <2>4. Undoing(r)'
    BY <1>1, <2>1, <2>3 DEF Undoing, Begun
  <2>5. ASSUME NEW q \in Request \ {r} PROVE Undoing(q)'
    BY <1>1, <2>0, <2>1 DEF Undoing, PlanOf, Begun, Elsewhere
  <2> QED BY <2>2, <2>4, <2>5
<1> QED BY <1>3, <1>4, <1>5, <1>6 DEF UndoInv

LEMMA TurnUndo == ASSUME TypeOK, UndoInv, NEW r \in Request, Turn(r) PROVE UndoInv'
<1>1. pc[r] = "running" /\ pc'[r] = "running" /\ Elsewhere(r) /\ UNCHANGED <<db, op, locker>>
  BY DEF Turn, Alone
<1>2. ASSUME AllCompensate, approvals = <<>>, Covered, \A q \in Request : Undoing(q)
      PROVE  /\ approvals' = <<>> /\ Covered' /\ Undoing(r)'
             /\ \A q \in Request \ {r} : locker = q => locker' = q /\ done' = done
  <2>1. ~SomeWait
    BY <1>2 DEF SomeWait, AllCompensate
  <2>2. Undoing(r)'
    BY <1>1, <1>2, <2>1 DEF Turn, Keeps, Undoing
  <2> QED BY <1>1, <1>2, <2>2 DEF Covered, db
<1> QED BY <1>1, <1>2, UndoKept DEF db

LEMMA LastTurnUndo == ASSUME TypeOK, UndoInv, NEW r \in Request, LastTurn(r) PROVE UndoInv'
<1>1. pc[r] = "running" /\ pc'[r] = "ending" /\ Elsewhere(r) /\ UNCHANGED <<db, op>>
  BY DEF LastTurn, Alone
<1>2. ASSUME AllCompensate, approvals = <<>>, Covered, \A q \in Request : Undoing(q)
      PROVE  /\ approvals' = <<>> /\ Covered' /\ Undoing(r)'
             /\ \A q \in Request \ {r} : locker = q => locker' = q /\ done' = done
  <2>1. \A x \in Step : Kind(x) = "TASK" /\ OnFailure(x) = "compensate"
    BY <1>2 DEF AllCompensate, OnFailure
  <2>2. Undoing(r)
    BY <1>2
  <2>3. \/ session'[r].final = "COMPLETED" /\ locker' = locker /\ session'[r].asks = {}
        \/ /\ session'[r].final = "FAILED" /\ session'[r].asks = {} /\ LockFree(r) /\ locker' = r
           /\ session'[r].undo = PlanOf(session[r])
    BY <2>1, <2>2 DEF LastTurn, Keeps, Undoing
  <2>4. PlanOf(session[r])' = PlanOf(session[r])
    BY <1>1 DEF PlanOf, LastTurn, Keeps, db
  <2>5. /\ session'[r].status = "RUNNING" /\ ~session'[r].waits /\ op'[r] # "decide"
    BY <1>1, <2>2 DEF LastTurn, Keeps, Undoing
  <2>6. Undoing(r)'
    BY <1>1, <2>3, <2>4, <2>5 DEF Undoing
  <2>7. \A q \in Request \ {r} : locker = q => locker' = q
    BY <2>3, WorkflowAssumption DEF LockFree
  <2> QED BY <1>1, <1>2, <2>6, <2>7 DEF Covered, db
<1> QED BY <1>1, <1>2, UndoKept DEF db

\* Nobody else can release or take a lock that is held.
LEMMA RollBackUndo ==
  ASSUME TypeOK, UndoInv, NEW r \in Request, RollBack(r), pc[r] # "idle" PROVE UndoInv'
<1>1. /\ pc'[r] = "ended" /\ session'[r] = Fresh /\ Elsewhere(r)
      /\ locker' = Unlocked(r) /\ UNCHANGED <<db, op>>
  BY RollBackEffect
<1>2. ASSUME AllCompensate, approvals = <<>>, Covered, \A q \in Request : Undoing(q)
      PROVE  /\ approvals' = <<>> /\ Covered' /\ Undoing(r)'
             /\ \A q \in Request \ {r} : locker = q => locker' = q /\ done' = done
  <2>1. Undoing(r)'
    BY <1>1, <1>2 DEF Fresh, Undoing
  <2> QED BY <1>1, <1>2, <2>1 DEF Covered, Unlocked, db
<1> QED BY <1>1, <1>2, UndoKept DEF db

LEMMA CreateUndo == ASSUME TypeOK, UndoInv, NEW r \in Request, Create(r) PROVE UndoInv'
<1>1. CASE /\ row' = "RUNNING" /\ Goto(r, "running", [Fresh EXCEPT !.status = "RUNNING"])
           /\ UNCHANGED <<definition, done, undone, children, approvals, locker>>
  <2>1. /\ pc'[r] = "running" /\ session'[r] = [Fresh EXCEPT !.status = "RUNNING"] /\ Elsewhere(r)
        /\ op' = op /\ op[r] = "trigger" /\ pc[r] = "loaded"
    BY <1>1, MoveTo DEF Create
  <2>2. ASSUME approvals = <<>>
        PROVE  /\ approvals' = <<>> /\ Covered' /\ Undoing(r)'
               /\ \A q \in Request \ {r} : locker = q => locker' = q /\ done' = done
    BY <1>1, <2>1, <2>2 DEF Fresh, Undoing, Covered
  <2> QED BY <1>1, <2>1, <2>2, UndoKept
<1>2. pc[r] # "idle"
  BY DEF Create
<1> QED BY <1>1, <1>2, RollBackUndo DEF Create

LEMMA OverwriteUndo == ASSUME TypeOK, UndoInv, NEW r \in Request, Overwrite(r) PROVE UndoInv'
<1>1. /\ row' \notin {"FAILED", "NONE"} /\ Goto(r, "ended", Fresh)
      /\ UNCHANGED <<definition, done, approvals, locker>> /\ locker = None
      /\ op[r] \in {"pause", "cancel"} /\ pc[r] = "loaded"
  BY DEF Overwrite, Outcome
<1>2. pc'[r] = "ended" /\ session'[r] = Fresh /\ Elsewhere(r) /\ op' = op
  BY <1>1, MoveTo
<1>3. ASSUME approvals = <<>>
      PROVE  /\ approvals' = <<>> /\ Covered' /\ Undoing(r)'
             /\ \A q \in Request \ {r} : locker = q => locker' = q /\ done' = done
  BY <1>1, <1>2, <1>3 DEF Fresh, Undoing, Covered
<1> QED BY <1>1, <1>2, <1>3, UndoKept

LEMMA DecideUndo == ASSUME TypeOK, UndoInv, NEW r \in Request, Decide(r) PROVE UndoInv'
<1>1. PICK l \in {"marking", "flushed"} : Goto(r, l, [session[r] EXCEPT !.status = row])
  BY Zenon DEF Decide
<1>2. /\ pc[r] = "loaded" /\ op[r] = "decide" /\ UNCHANGED <<db, locker>>
      /\ pc'[r] # "idle" /\ Elsewhere(r) /\ op' = op
  BY <1>1, MoveTo DEF Decide
<1>3. ASSUME \A q \in Request : Undoing(q) PROVE FALSE
  BY <1>2, <1>3 DEF Undoing
<1> QED BY <1>2, <1>3, UndoKept DEF db

LEMMA MarkUndo == ASSUME TypeOK, UndoInv, NEW r \in Request, Mark(r) PROVE UndoInv'
<1> DEFINE s == session[r]
           w == s.wrote \/ s.status # "RUNNING"
           t == [s EXCEPT !.wrote = w, !.status = "RUNNING"]
<1>1. /\ s \in Sessions(Len(approvals)) /\ Goto(r, "running", t) /\ UNCHANGED db
      /\ pc[r] = "marking" /\ \A q \in Request \ {r} : locker = q => locker' = q
  BY WorkflowAssumption DEF Mark, LockFree, TypeOK
<1> HIDE DEF w
<1>2. t.status = "RUNNING" /\ t.asks = s.asks /\ t.waits = s.waits
  BY <1>1 DEF Sessions
<1> HIDE DEF t
<1>3. pc'[r] = "running" /\ session'[r] = t /\ Elsewhere(r) /\ op' = op
  BY <1>1, MoveTo
<1>4. ASSUME approvals = <<>>, Covered, \A q \in Request : Undoing(q)
      PROVE  /\ approvals' = <<>> /\ Covered' /\ Undoing(r)'
             /\ \A q \in Request \ {r} : locker = q => locker' = q /\ done' = done
  <2>1. Undoing(r)'
    BY <1>2, <1>3, <1>4 DEF Undoing
  <2> QED BY <1>1, <1>4, <2>1 DEF Covered, db
<1> QED BY <1>1, <1>3, <1>4, UndoKept DEF db

\* The last write changes the status, so it takes the lock.
LEMMA FlushUndo == ASSUME TypeOK, UndoInv, NEW r \in Request, Flush(r) PROVE UndoInv'
<1> DEFINE s == session[r]
<1>1. ASSUME approvals = <<>>, Covered, \A q \in Request : Undoing(q)
      PROVE  /\ approvals' = <<>> /\ Covered' /\ Undoing(r)'
             /\ \A q \in Request \ {r} : locker = q => locker' = q /\ done' = done
  <2>1. Undoing(r) /\ pc[r] = "ending"
    BY <1>1, FlushEffect
  <2>2. s.status = "RUNNING" /\ s.final \in {"COMPLETED", "FAILED"}
    BY <2>1 DEF Undoing
  <2>3. LockFree(r) /\ locker' = r
    BY <2>2 DEF Flush, Terminal
  <2>4. UNCHANGED <<done, undone, row, approvals, op>>
    BY FlushEffect DEF db
  <2>5. PlanOf(session[r])' = PlanOf(session[r])
    BY <2>4, FlushEffect DEF PlanOf, Keeps
  <2>6. /\ session'[r].status = s.final /\ session'[r].wrote /\ session'[r].final = s.final
        /\ session'[r].asks = s.asks /\ session'[r].waits = s.waits /\ session'[r].undo = s.undo
        /\ pc'[r] = "flushed"
    BY <2>2, FlushEffect DEF Keeps
  <2>7. Undoing(r)'
    BY <2>1, <2>2, <2>3, <2>4, <2>5, <2>6 DEF Undoing
  <2>8. \A q \in Request \ {r} : locker = q => locker' = q
    BY <2>3, WorkflowAssumption DEF LockFree
  <2> QED BY <1>1, <2>4, <2>7, <2>8 DEF Covered
<1> QED BY <1>1, FlushEffect, UndoKept DEF db

\* No step starts a child.
LEMMA CutUndo ==
  ASSUME TypeOK, UndoInv, NEW r \in Request, NEW x \in Step, NoChild(r, x) PROVE UndoInv'
<1>0. pc[r] = "running" /\ Kind(x) = "NOCHILD"
  BY DEF NoChild
<1>1. CASE Goto(r, "flushed", [session[r] EXCEPT !.todo = {}]) /\ UNCHANGED <<db, locker>>
  <2>1. pc'[r] = "flushed" /\ Elsewhere(r) /\ op' = op
    BY <1>1, MoveTo
  <2>2. ~AllCompensate
    BY <1>0 DEF AllCompensate
  <2> QED BY <1>0, <1>1, <2>1, <2>2, UndoKept DEF db
<1> QED BY <1>0, <1>1, RollBackUndo DEF NoChild

\* A failure is committed with its plan, and nothing was committed since the plan was made.
LEMMA CommitUndo == ASSUME TypeOK, UndoInv, NEW r \in Request, Commit(r) PROVE UndoInv'
<1> DEFINE s == session[r]
<1>1. /\ pc[r] = "flushed" /\ row' = (IF s.wrote THEN s.status ELSE row)
      /\ definition' = definition /\ Goto(r, "ended", Fresh) /\ locker' = Unlocked(r)
      /\ done' = [x \in Step |-> done[x] + IF x \in s.mine THEN 1 ELSE 0]
      /\ undone' = [x \in Step |-> undone[x] + s.undo[x]]
  BY DEF Commit
<1>2. pc'[r] = "ended" /\ session'[r] = Fresh /\ Elsewhere(r) /\ op' = op
  BY <1>1, MoveTo
<1>3. ASSUME approvals = <<>>, Covered, \A q \in Request : Undoing(q)
      PROVE  /\ approvals' = <<>> /\ Covered' /\ Undoing(r)'
             /\ \A q \in Request \ {r} : locker = q => locker' = q /\ done' = done
  <2>1. Undoing(r) /\ locker = r /\ s.wrote /\ s.status = s.final
    BY <1>1, <1>3 DEF Undoing
  <2>2. approvals' = <<>>
    BY <1>3, <2>1, CommitApprovals DEF Undoing
  <2>3. Covered'
    <3> SUFFICES ASSUME row' = "FAILED", NEW x \in Step PROVE undone'[x] >= done'[x]
      BY DEF Covered
    <3>1. s.undo = PlanOf(s)
      BY <1>1, <2>1 DEF Undoing
    <3>2. s.undo[x] = done[x] + IF x \in s.mine THEN 1 ELSE 0
      BY <3>1 DEF PlanOf
    <3>3. done[x] \in Nat /\ undone[x] \in Nat
      BY DEF TypeOK, Count
    <3>4. done'[x] = s.undo[x] /\ undone'[x] = undone[x] + s.undo[x] /\ s.undo[x] \in Nat
      BY <1>1, <3>2, <3>3
    <3> QED BY <3>3, <3>4
  <2>4. Undoing(r)'
    BY <1>2, <2>1 DEF Fresh, Undoing
  <2>5. \A q \in Request \ {r} : locker # q
    BY <2>1
  <2> QED BY <2>2, <2>3, <2>4, <2>5
<1> QED BY <1>1, <1>2, <1>3, UndoKept

LEMMA UndoInit == Init => UndoInv
<1> SUFFICES ASSUME Init PROVE UndoInv
  OBVIOUS
<1>1. Triggers = {}
  BY DEF Init, Triggers
<1>2. IsFiniteSet(Triggers)
  BY <1>1, FS_EmptySet
<1>3. \A r \in Request : Undoing(r)
  BY DEF Init, Undoing, Fresh
<1> QED BY <1>2, <1>3 DEF Init, UndoInv, Undone, Covered

LEMMA UndoStep == Inv /\ UndoInv /\ [Next]_vars => UndoInv'
<1> SUFFICES ASSUME Inv, UndoInv, [Next]_vars PROVE UndoInv'
  OBVIOUS
<1>0. TypeOK
  BY DEF Inv
<1>1. ASSUME NEW r \in Request, Start(r) PROVE UndoInv'
  BY <1>0, <1>1, StartEffect, BegunUndo
<1>2. ASSUME NEW r \in Request, Advance(r) PROVE UndoInv'
  <2>1. ASSUME NEW x \in Step, \/ Succeed(r, x) \/ Fail(r, x) \/ NotTried(r, x)
                                \/ Wait(r, x) \/ StartChild(r, x)
        PROVE  UndoInv'
    BY <1>0, <2>1, SucceedEffect, FailEffect, UntriedEffect, WaitEffect, ChildEffect,
       TurnUndo, LastTurnUndo,
       RollBackUndo
  <2>2. ASSUME Pick(r) PROVE UndoInv'
    BY <1>0, <2>2, PickEffect, TurnUndo, LastTurnUndo
  <2> QED BY <1>0, <1>2, <2>1, <2>2, CreateUndo, OverwriteUndo, DecideUndo, MarkUndo, FlushUndo,
             CommitUndo, CutUndo DEF Advance
<1>3. CASE (\E i \in DOMAIN approvals : ApprovalExpires(i)) \/ LeaseExpires \/ UNCHANGED vars
  <2>1. UNCHANGED <<definition, row, done, undone, approvals, op, pc, session, locker>>
    BY <1>3 DEF ApprovalExpires, LeaseExpires, vars, db
  <2>2. Triggers' = Triggers /\ AllCompensate' = AllCompensate /\ Covered' = Covered
    BY <2>1 DEF Triggers, AllCompensate, Kind, Covered
  <2>3. \A r \in Request : Undoing(r) => Undoing(r)'
    BY <2>1 DEF Undoing, PlanOf
  <2>4. Undone'
    BY <2>1, <2>2, <2>3 DEF UndoInv, Undone
  <2> QED BY <2>1, <2>2, <2>4 DEF UndoInv
<1>4. CASE Crash
  <2>1. /\ UNCHANGED <<definition, row, done, undone, approvals, op>>
        /\ \A r \in Request : /\ session'[r] = Fresh /\ pc'[r] \in {"idle", "ended"}
                              /\ pc'[r] = "idle" <=> pc[r] = "idle"
    BY <1>0, <1>4 DEF Crash, db, TypeOK
  <2>2. Triggers' = Triggers /\ AllCompensate' = AllCompensate /\ Covered' = Covered
    BY <2>1 DEF Triggers, AllCompensate, Kind, Covered
  <2>3. \A r \in Request : Undoing(r) => Undoing(r)'
    BY <2>1 DEF Undoing, Fresh
  <2>4. Undone'
    BY <2>1, <2>2, <2>3 DEF UndoInv, Undone
  <2> QED BY <2>1, <2>2, <2>4 DEF UndoInv
<1> QED BY <1>1, <1>2, <1>3, <1>4 DEF Next

\* When every failure compensates and the run was triggered once, a FAILED run has a
\* compensation for every SUCCESS step run, although several runners worked on it.
THEOREM FailuresAreUndone == Spec => []FailedIsCompensated
<1>1. Inv /\ UndoInv => FailedIsCompensated
  <2> SUFFICES ASSUME Inv, UndoInv, row = "FAILED", AllCompensate, Cardinality(Triggers) = 1,
                      NEW x \in Step
               PROVE  undone[x] >= done[x]
    BY DEF FailedIsCompensated, AllCompensate, Triggers
  <2> QED BY DEF UndoInv, Undone, Covered
<1> QED BY <1>1, UndoInit, UndoStep, Safe, PTL DEF Spec
=============================================================================
