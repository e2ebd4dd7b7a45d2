--------------------------- MODULE AutomationGateway ---------------------------
(***************************************************************************)
(* The gateway of automation/gateway.py in several processes (API workers, *)
(* one-shot CLI) over the JSON files of common/storage.py. A process reads *)
(* a file when it starts; afterwards it serves from memory and rewrites    *)
(* the whole file at each change: open() truncates it, then the content is *)
(* written. Handlers of a process do not interleave: they never await.     *)
(***************************************************************************)
EXTENDS Naturals, FiniteSets

CONSTANTS Process, Workflow,
          Steps,        \* how many steps a workflow has: what it is said to cost
          Budget,       \* of the organization, in steps
          MaxRuns, MaxRules, MaxBoots  \* bounds: executions, rules, process starts

ASSUME GatewayAssumption ==
    /\ IsFiniteSet(Workflow)
    /\ Steps \in [Workflow -> Nat] /\ Budget \in Nat
    /\ MaxRuns \in Nat /\ MaxRules \in Nat /\ MaxBoots \in Nat

VARIABLES up,        \* processes that run
          mem,       \* what each holds in memory: specs' status, cost entries
          rules,     \* trigger rules each has registered for a workflow
          saving,    \* the file each has truncated and not yet written
          overlaid,  \* savers whose file another has written since
          file,      \* the two files: content, and can it be decoded
          runs,      \* history: executions gateway.run has started
          fired,     \* history: workflows triggers have started
          boots, together, torn  \* history: starts; two at once; a crash in a save

mine == <<mem, rules>>
disk == <<saving, overlaid, file>>
hist == <<boots, together, torn>>
vars == <<up, mine, disk, runs, fired, hist>>

Files   == {"workflows", "costs"}
Content == [workflows : [Workflow -> {"none", "draft", "published"}],
            costs : SUBSET ((1 .. MaxRuns) \X Workflow)]
Empty   == [workflows |-> [w \in Workflow |-> "none"], costs |-> {}]
NoRules == [w \in Workflow |-> 0]

TypeOK ==
    /\ up \subseteq Process /\ overlaid \subseteq Process
    /\ mem \in [Process -> Content]
    /\ rules \in [Process -> [Workflow -> 0 .. MaxRules]]
    /\ saving \in [Process -> Files \cup {"none"}]
    /\ file \in [data : Content, good : [Files -> BOOLEAN]]
    /\ runs \in SUBSET ((1 .. MaxRuns) \X Workflow) /\ fired \subseteq Workflow
    /\ boots \in 0 .. MaxBoots /\ together \in BOOLEAN /\ torn \in BOOLEAN

Init ==
    /\ up = {} /\ overlaid = {}
    /\ mem = [p \in Process |-> Empty] /\ rules = [p \in Process |-> NoRules]
    /\ saving = [p \in Process |-> "none"]
    /\ file = [data |-> Empty, good |-> [f \in Files |-> TRUE]]
    /\ runs = {} /\ fired = {}
    /\ boots = 0 /\ together = FALSE /\ torn = FALSE

-----------------------------------------------------------------------------
\* The cost entries are not read back.
LoadedBug == [file.data EXCEPT !.costs = {}]
\* _load: what cannot be decoded is taken for an empty file.
Loaded == [f \in Files |-> IF file.good[f] THEN file.data[f] ELSE Empty[f]]

\* A process starts. The rules of earlier processes are not registered again.
Boot(p) ==
    /\ p \notin up /\ boots < MaxBoots
    /\ up' = up \cup {p}
    /\ mem' = [mem EXCEPT ![p] = Loaded]
    /\ rules' = [rules EXCEPT ![p] = NoRules]
    /\ boots' = boots + 1 /\ together' = (together \/ up # {})
    /\ UNCHANGED <<disk, runs, fired, torn>>

\* set(): p changes its dictionary and opens the file for writing.
Save(p, f, value) ==
    /\ mem' = [mem EXCEPT ![p][f] = value]
    /\ file' = [file EXCEPT !.good[f] = FALSE]
    /\ saving' = [saving EXCEPT ![p] = f]
    /\ UNCHANGED overlaid

\* The content is written over what another saver wrote in between: a shorter
\* text leaves the end of the longer one behind.
Write(p) ==
    LET f == saving[p] IN
    /\ f # "none"
    /\ \E good \in {TRUE, p \notin overlaid} :
         file' = [data |-> [file.data EXCEPT ![f] = mem[p][f]],
                  good |-> [file.good EXCEPT ![f] = good]]
    /\ overlaid' = (overlaid \cup {q \in Process : saving[q] = f}) \ {p}
    /\ saving' = [saving EXCEPT ![p] = "none"]
    /\ UNCHANGED <<up, mine, runs, fired, hist>>

\* The process ends, in a save or between two requests.
Stop(p) ==
    /\ p \in up
    /\ up' = up \ {p}
    /\ saving' = [saving EXCEPT ![p] = "none"] /\ overlaid' = overlaid \ {p}
    /\ torn' = (torn \/ saving[p] # "none")
    /\ mem' = [mem EXCEPT ![p] = Empty] /\ rules' = [rules EXCEPT ![p] = NoRules]
    /\ UNCHANGED <<file, runs, fired, boots, together>>

Serves(p) == p \in up /\ saving[p] = "none"

AddRule(p, w) ==
    /\ rules[p][w] < MaxRules
    /\ rules' = [rules EXCEPT ![p][w] = @ + 1]

\* define stores a draft and registers its trigger at once.
Define(p, w) ==
    /\ Serves(p) /\ AddRule(p, w)
    /\ Save(p, "workflows", [mem[p].workflows EXCEPT ![w] = "draft"])
    /\ UNCHANGED <<up, runs, fired, hist>>

\* The file is not written: the change stays in memory.
SavedBug(p, f, value) ==
    /\ mem' = [mem EXCEPT ![p][f] = value] /\ UNCHANGED disk

Saved(p, f, value) == Save(p, f, value)

\* publish registers it once more.
Publish(p, w) ==
    /\ Serves(p) /\ mem[p].workflows[w] # "none" /\ AddRule(p, w)
    /\ Saved(p, "workflows", [mem[p].workflows EXCEPT ![w] = "published"])
    /\ UNCHANGED <<up, runs, fired, hist>>

\* Every step costs the same: what the entries sum up to is how many steps they have.
Total(entries) == Cardinality(UNION {{e} \X (1 .. Steps[e[2]]) : e \in entries})

\* within_budget, from the cost entries this process knows. The cost of the run
\* itself is left out.
WithinBudgetBug(p, projected) == Total(mem[p].costs) <= Budget
WithinBudget(p, projected) == projected <= Budget - Total(mem[p].costs)

\* gateway.run: gate, new execution, its cost, the engine.
Run(p, w) ==
    LET x == Cardinality(runs) + 1 IN
    /\ Serves(p) /\ mem[p].workflows[w] = "published" /\ x <= MaxRuns
    /\ WithinBudget(p, Steps[w])
    /\ runs' = runs \cup {<<x, w>>}
    /\ Save(p, "costs", mem[p].costs \cup {<<x, w>>})
    /\ UNCHANGED <<up, rules, fired, hist>>

\* handle_event and tick: every rule runs its spec, whatever its status, when a
\* projected cost of zero is within the budget; no cost is recorded.
Fire(p, w) ==
    /\ Serves(p) /\ rules[p][w] > 0
    /\ WithinBudget(p, 0)
    /\ fired' = fired \cup {w}
    /\ UNCHANGED <<up, mine, disk, runs, hist>>

Next ==
    \E p \in Process :
        \/ Boot(p) \/ Write(p) \/ Stop(p)
        \/ \E w \in Workflow : Define(p, w) \/ Publish(p, w) \/ Run(p, w) \/ Fire(p, w)

Spec == Init /\ [][Next]_vars

-----------------------------------------------------------------------------
\* Each process checks the budget against the entries it knows: all together
\* overspend it, but never by more than a budget for each process that started.
OverspendBounded == Total(runs) <= Budget * boots

\* While one process at a time uses the files and none dies in a save, every
\* entry is durable: a file that is not being written is what its process has in
\* memory, and it can be read (JsonFileStorage.set, _load).
AloneIsDurable ==
    together \/ torn \/ \A f \in Files : (\A p \in Process : saving[p] # f) =>
        file.good[f] /\ \A p \in up : file.data[f] = mem[p][f]

\* Under the same condition the budget holds across restarts, because the next
\* process starts from the entries of the last one.
AloneWithinBudget == together \/ torn \/ Total(runs) <= Budget

=============================================================================
