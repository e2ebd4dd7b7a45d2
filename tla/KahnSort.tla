------------------------------ MODULE KahnSort ------------------------------
(***************************************************************************)
(* validate_dag and topological_order (backend/app/automation/dag.py) on   *)
(* one workflow: the check WorkflowEngine.run makes before anything else,  *)
(* and the order it then executes the steps in.  One action is one         *)
(* iteration of the while loop of topological_order.                       *)
(*                                                                         *)
(* Step types, tool actions and duplicate ids, which validate_dag also     *)
(* checks, are left out: the ids of `Declared` are distinct.               *)
(***************************************************************************)
EXTENDS Naturals, Sequences, FiniteSets

CONSTANTS Declared,  \* ids of spec.flat_steps(), in order
          Graphs     \* the depends_on functions considered

Nodes == {Declared[i] : i \in 1..Len(Declared)}

ASSUME GraphAssumption ==
    /\ Declared \in Seq(Nodes)
    /\ \A i, j \in 1..Len(Declared) : Declared[i] = Declared[j] => i = j
    /\ \A g \in Graphs : DOMAIN g = Nodes /\ \A n \in Nodes : IsFiniteSet(g[n])

VARIABLES deps,       \* adjacency(spec): node -> its dependencies
          remaining,  \* node -> number of dependencies not yet in order
          ready,      \* the sequence of nodes to take next
          order,      \* the result, a sequence of nodes
          outcome     \* where validate_dag stands, one of Outcomes

vars == <<deps, remaining, ready, order, outcome>>

\* How many of the first i declared nodes are in S.
CountUpTo(S, i) == Cardinality({j \in 1..i : Declared[j] \in S})

\* The nodes of S as they come in the declaration: the dicts of
\* topological_order keep the order of adjacency(spec).
InDeclaredOrder(S) ==
    [k \in 1..CountUpTo(S, Len(Declared)) |->
        Declared[CHOOSE i \in 1..Len(Declared) :
                     Declared[i] \in S /\ CountUpTo(S, i) = k]]

Outcomes == {"new", "sorting", "sorted", "invalid", "cycle"}

Init ==
    /\ deps \in Graphs
    /\ remaining = [n \in Nodes |-> 0]
    /\ ready = <<>>
    /\ order = <<>>
    /\ outcome = "new"

-----------------------------------------------------------------------------

\* The errors validate_dag collects before it sorts: unknown dependencies
\* and self dependencies.
Malformed == \E n \in Nodes : n \in deps[n] \/ ~(deps[n] \subseteq Nodes)

RejectSpec ==
    /\ outcome = "new"
    /\ Malformed
    /\ outcome' = "invalid"
    /\ UNCHANGED <<deps, remaining, ready, order>>

\* The set-up of topological_order: counts, and the nodes that wait for
\* nobody, in declaration order.
BeginSort ==
    /\ outcome = "new"
    /\ ~Malformed
    /\ outcome' = "sorting"
    /\ remaining' = [n \in Nodes |-> Cardinality(deps[n])]
    /\ ready' = InDeclaredOrder({n \in Nodes : Cardinality(deps[n]) = 0})
    /\ UNCHANGED <<deps, order>>

\* A dependent becomes ready when its first dependency is done.
FreedBug(node) == {n \in Nodes : node \in deps[n]
                                 /\ remaining[n] = Cardinality(deps[n])}

\* The dependents of node whose count drops to 0.
Freed(node) == {n \in Nodes : node \in deps[n] /\ remaining[n] = 1}

\* One iteration: take a node, discharge it from its dependents.
TakeNode ==
    /\ outcome = "sorting"
    /\ ready # <<>>
    /\ order' = Append(order, Head(ready))
    /\ remaining' = [n \in Nodes |-> IF Head(ready) \in deps[n]
                                     THEN remaining[n] - 1 ELSE remaining[n]]
    /\ ready' = Tail(ready) \o InDeclaredOrder(Freed(Head(ready)))
    /\ UNCHANGED <<deps, outcome>>

\* The cycle is not noticed.
VerdictBug == "sorted"

\* `if len(order) != len(adj): raise DagError`.
Verdict == IF Len(order) # Len(Declared) THEN "cycle" ELSE "sorted"

EndSort ==
    /\ outcome = "sorting"
    /\ ready = <<>>
    /\ outcome' = Verdict
    /\ UNCHANGED <<deps, remaining, ready, order>>

Next == RejectSpec \/ BeginSort \/ TakeNode \/ EndSort

Spec == Init /\ [][Next]_vars

-----------------------------------------------------------------------------
(* Properties *)

\* Every node comes after all its dependencies, at every iteration of
\* topological_order.
OrderRespectsDeps ==
    \A i \in 1..Len(order) : \A d \in deps[order[i]] :
        \E j \in 1..(i - 1) : order[j] = d

\* Reference: nodes that wait for each other in a circle, as a set each of
\* whose members waits for a member.
Circular(S) == S # {} /\ \A n \in S : deps[n] \cap S # {}

\* topological_order reports a cycle exactly when there is one: "sorted" is
\* never answered for a graph with a circle, "cycle" never for one without.
VerdictIsExact ==
    /\ outcome = "sorted" => \A S \in SUBSET Nodes : ~Circular(S)
    /\ outcome = "cycle"  => \E S \in SUBSET Nodes : Circular(S)
=============================================================================
