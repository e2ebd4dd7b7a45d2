------------------------- MODULE MCAutomationEngine -------------------------
(* Small workflows of three steps.                                         *)
(*                                                                         *)
(* Dag: b waits for a, c is independent and runs only if a's output        *)
(* satisfies its condition; b is declared first, so declaration order and  *)
(* execution order differ.  b needs an approval.                           *)
(*                                                                         *)
(* Fork: the same dependencies declared in the natural order a, b, c,      *)
(* without the condition.  Kahn's algorithm still takes c before b.        *)
(*                                                                         *)
(* Chain: a, b, c, each waiting for the one before; declared in that       *)
(* order, so both orders agree.                                            *)
EXTENDS AutomationEngine, TLC

CONSTANTS a, b, c, e1, e2, e3, t1, t2

MCSteps == {a, b, c}
MCRetries == (a :> 1) @@ (b :> 0) @@ (c :> 0)
MCNoConditions == [s \in MCSteps |-> {}]

DagDeclared == <<b, a, c>>
DagOrder == <<a, c, b>>
DagDependsOn == (a :> {}) @@ (b :> {a}) @@ (c :> {})
DagReads == (a :> {}) @@ (b :> {}) @@ (c :> {a})

ForkDeclared == <<a, b, c>>
ForkOrder == <<a, c, b>>

ChainDeclared == <<a, b, c>>
ChainDependsOn == (a :> {}) @@ (b :> {a}) @@ (c :> {b})
=============================================================================
