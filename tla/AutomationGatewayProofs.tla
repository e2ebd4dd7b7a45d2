------------------------ MODULE AutomationGatewayProofs ------------------------
(***************************************************************************)
(* Safety of AutomationGateway for any number of processes, workflows,     *)
(* starts and executions.                                                  *)
(*                                                                         *)
(* Argument. While no two processes have been up together, whoever is up   *)
(* is the only one: what it truncated it will write itself, nobody writes  *)
(* over it, and it started from the file as the last one left it.          *)
(*   Money: sums are sizes of disjoint blocks of numbers. What all runs    *)
(* cost and what the processes up have left of the budget are together at  *)
(* most a budget per start: a start adds one, a run moves from left to     *)
(* spent, a stop forgets what is left.                                     *)
(***************************************************************************)
EXTENDS AutomationGateway, FiniteSetTheorems, TLAPS

\* A saver is up; without a second process there is one process, and no text of
\* one saver is laid over another's.
OneAtATime ==
    /\ \A p \in Process : saving[p] # "none" => p \in up
    /\ together \/ (overlaid = {} /\ \A p, q \in up : p = q)
Inv == TypeOK /\ OneAtATime /\ AloneIsDurable

-----------------------------------------------------------------------------
(* Types *)

\* The number of an execution is a position.
LEMMA NextExecution ==
  ASSUME TypeOK PROVE Cardinality(runs) + 1 \in Nat \ {0}
<1>0. IsFiniteSet(1 .. MaxRuns) /\ IsFiniteSet(Workflow)
  BY FS_Interval, GatewayAssumption
<1>1. IsFiniteSet((1 .. MaxRuns) \X Workflow)
  BY <1>0, FS_Product, Zenon
<1>2. IsFiniteSet(runs)
  BY <1>1, FS_Subset DEF TypeOK
<1> QED BY <1>2, FS_CardinalityType

LEMMA EmptyTyped == Empty \in Content /\ NoRules \in [Workflow -> 0 .. MaxRules]
  BY GatewayAssumption DEF Empty, Content, NoRules

LEMMA TypeInit == Init => TypeOK
<1> SUFFICES ASSUME Init PROVE TypeOK
  OBVIOUS
<1>1. file \in [data : Content, good : [Files -> BOOLEAN]]
  <2> DEFINE good == [f \in Files |-> TRUE]
  <2>1. good \in [Files -> BOOLEAN]
    BY Zenon
  <2>2. file = [data |-> Empty, good |-> good]
    BY DEF Init
  <2> HIDE DEF good
  <2> QED BY <2>1, <2>2, EmptyTyped
<1>2. /\ mem \in [Process -> Content] /\ rules \in [Process -> [Workflow -> 0 .. MaxRules]]
      /\ saving \in [Process -> Files \cup {"none"}]
  BY EmptyTyped, Zenon DEF Init
<1>3. together \in BOOLEAN /\ torn \in BOOLEAN
  BY Zenon DEF Init
<1>4. boots \in 0 .. MaxBoots /\ up \subseteq Process /\ overlaid \subseteq Process
  BY GatewayAssumption DEF Init
<1>5. runs \in SUBSET ((1 .. MaxRuns) \X Workflow) /\ fired \subseteq Workflow
  BY DEF Init
<1> QED BY <1>1, <1>2, <1>3, <1>4, <1>5, Zenon DEF TypeOK

\* A save changes one file in the memory of one process and leaves its text broken.
LEMMA SaveEffect ==
  ASSUME TypeOK, NEW p \in Process, NEW f \in Files, NEW value,
         [mem[p] EXCEPT ![f] = value] \in Content, Save(p, f, value)
  PROVE  /\ mem' \in [Process -> Content] /\ saving' \in [Process -> Files \cup {"none"}]
         /\ file' \in [data : Content, good : [Files -> BOOLEAN]]
         /\ overlaid' = overlaid /\ file'.data = file.data
         /\ \A q \in Process \ {p} : mem'[q] = mem[q] /\ saving'[q] = saving[q]
         /\ saving'[p] = f
         /\ \A g \in Files \ {f} : file'.good[g] = file.good[g] /\ mem'[p][g] = mem[p][g]
<1>1. mem' = [mem EXCEPT ![p] = [mem[p] EXCEPT ![f] = value]]
  BY DEF Save
<1>2. mem' \in [Process -> Content] /\ \A q \in Process \ {p} : mem'[q] = mem[q]
  BY <1>1 DEF TypeOK
<1>3. mem'[p] = [mem[p] EXCEPT ![f] = value]
  BY <1>1 DEF TypeOK
<1>4. \A g \in Files \ {f} : mem'[p][g] = mem[p][g]
  BY <1>3 DEF TypeOK, Content, Files
<1> DEFINE good == [file.good EXCEPT ![f] = FALSE]
<1>5. good \in [Files -> BOOLEAN] /\ \A g \in Files \ {f} : good[g] = file.good[g]
  BY DEF TypeOK
<1>6. file' = [file EXCEPT !.good = good]
  BY DEF Save
<1> HIDE DEF good
<1>7. file' \in [data : Content, good : [Files -> BOOLEAN]] /\ file'.data = file.data /\ file'.good = good
  BY <1>5, <1>6 DEF TypeOK
<1>8. /\ saving' \in [Process -> Files \cup {"none"}] /\ saving'[p] = f
      /\ \A q \in Process \ {p} : saving'[q] = saving[q]
  BY DEF Save, TypeOK
<1>9. overlaid' = overlaid
  BY DEF Save
<1> QED BY <1>2, <1>4, <1>5, <1>7, <1>8, <1>9

\* The contents that Define, Publish and Run put in memory.
LEMMA ContentsTyped ==
  ASSUME TypeOK, NEW p \in Process, NEW w \in Workflow
  PROVE  /\ \A status \in {"none", "draft", "published"} :
              [mem[p] EXCEPT !["workflows"] = [mem[p].workflows EXCEPT ![w] = status]] \in Content
         /\ \A x \in 1 .. MaxRuns :
              [mem[p] EXCEPT !["costs"] = mem[p].costs \cup {<<x, w>>}] \in Content
<1>1. mem[p] \in Content
  BY DEF TypeOK
<1>2. \A status \in {"none", "draft", "published"} :
        [mem[p].workflows EXCEPT ![w] = status] \in [Workflow -> {"none", "draft", "published"}]
  BY <1>1 DEF Content
<1>3. \A x \in 1 .. MaxRuns : mem[p].costs \cup {<<x, w>>} \in SUBSET ((1 .. MaxRuns) \X Workflow)
  BY <1>1 DEF Content
<1>4. ASSUME NEW status \in {"none", "draft", "published"}
      PROVE  [mem[p] EXCEPT !["workflows"] = [mem[p].workflows EXCEPT ![w] = status]] \in Content
  BY <1>1, <1>2 DEF Content
<1>5. ASSUME NEW x \in 1 .. MaxRuns
      PROVE  [mem[p] EXCEPT !["costs"] = mem[p].costs \cup {<<x, w>>}] \in Content
  <2> DEFINE entries == mem[p].costs \cup {<<x, w>>}
  <2>1. entries \in SUBSET ((1 .. MaxRuns) \X Workflow)
    BY <1>3
  <2> HIDE DEF entries
  <2>2. [mem[p] EXCEPT !["costs"] = entries] \in Content
    BY <1>1, <2>1 DEF Content
  <2> QED BY <2>2 DEF entries
<1> QED BY <1>4, <1>5

\* What a process reads from the files.
LEMMA LoadedTyped ==
  ASSUME TypeOK
  PROVE  /\ Loaded \in Content
         /\ \A f \in Files : file.good[f] => Loaded[f] = file.data[f]
<1>1. file.data \in Content /\ file.good \in [Files -> BOOLEAN]
  BY DEF TypeOK
<1> DEFINE Read(f) == IF file.good[f] THEN file.data[f] ELSE Empty[f]
<1>2. Loaded = [workflows |-> Read("workflows"), costs |-> Read("costs")]
  BY DEF Loaded, Files
<1>3. /\ Read("workflows") \in [Workflow -> {"none", "draft", "published"}]
      /\ Read("costs") \in SUBSET ((1 .. MaxRuns) \X Workflow)
  BY <1>1, EmptyTyped DEF Content
<1>4. Loaded \in Content
  BY <1>2, <1>3 DEF Content
<1>5. \A f \in Files : file.good[f] => Loaded[f] = file.data[f]
  BY Zenon DEF Loaded
<1> QED BY <1>4, <1>5

\* Write puts the text of p into its file.
LEMMA WriteEffect ==
  ASSUME TypeOK, NEW p \in Process, Write(p)
  PROVE  /\ saving[p] \in Files
         /\ file' \in [data : Content, good : [Files -> BOOLEAN]]
         /\ file'.data[saving[p]] = mem[p][saving[p]]
         /\ p \notin overlaid => file'.good[saving[p]]
         /\ \A g \in Files \ {saving[p]} :
              file'.data[g] = file.data[g] /\ file'.good[g] = file.good[g]
<1> DEFINE f == saving[p]
<1>1. f \in Files
  BY DEF Write, TypeOK
<1>2. PICK good \in {TRUE, p \notin overlaid} :
         file' = [data |-> [file.data EXCEPT ![f] = mem[p][f]],
                  good |-> [file.good EXCEPT ![f] = good]]
  BY Zenon DEF Write
<1>3. good \in BOOLEAN /\ (p \notin overlaid => good)
  BY <1>2, Zenon
<1> DEFINE data == [file.data EXCEPT ![f] = mem[p][f]]
           goods == [file.good EXCEPT ![f] = good]
<1>4. data \in Content /\ data[f] = mem[p][f] /\ \A g \in Files \ {f} : data[g] = file.data[g]
  BY <1>1 DEF TypeOK, Content, Files
<1>5. goods \in [Files -> BOOLEAN] /\ goods[f] = good /\ \A g \in Files \ {f} : goods[g] = file.good[g]
  BY <1>1, <1>3, Zenon DEF TypeOK
<1>6. file' = [data |-> data, good |-> goods]
  BY <1>2
<1> HIDE DEF data, goods
<1> QED BY <1>1, <1>3, <1>4, <1>5, <1>6

\* One step per action: what each writes is of its type.
LEMMA TypeStep == TypeOK /\ [Next]_vars => TypeOK'
<1> SUFFICES ASSUME TypeOK, [Next]_vars PROVE TypeOK'
  OBVIOUS
<1> DEFINE Rules == [Process -> [Workflow -> 0 .. MaxRules]]
<1>1. ASSUME NEW p \in Process, Boot(p) PROVE TypeOK'
  <2>1. mem' \in [Process -> Content] /\ rules' \in Rules
    BY <1>1, LoadedTyped, EmptyTyped DEF Boot, TypeOK
  <2>2. together' \in BOOLEAN
    BY <1>1, Zenon DEF Boot, TypeOK
  <2>3. boots' \in 0 .. MaxBoots /\ up' \subseteq Process
    BY <1>1, GatewayAssumption DEF Boot, TypeOK
  <2> QED BY <1>1, <2>1, <2>2, <2>3 DEF Boot, disk, TypeOK
<1>2. ASSUME NEW p \in Process, Write(p) PROVE TypeOK'
  <2>1. saving' \in [Process -> Files \cup {"none"}] /\ overlaid' \subseteq Process
    BY <1>2 DEF Write, TypeOK
  <2>2. file' \in [data : Content, good : [Files -> BOOLEAN]]
    BY <1>2, WriteEffect
  <2> QED BY <1>2, <2>1, <2>2 DEF Write, mine, hist, TypeOK
<1>3. ASSUME NEW p \in Process, Stop(p) PROVE TypeOK'
  <2>1. /\ mem' \in [Process -> Content] /\ rules' \in Rules
        /\ saving' \in [Process -> Files \cup {"none"}]
    BY <1>3, EmptyTyped DEF Stop, TypeOK
  <2>2. torn' \in BOOLEAN
    BY <1>3, Zenon DEF Stop, TypeOK
  <2>3. up' \subseteq Process /\ overlaid' \subseteq Process
    BY <1>3 DEF Stop, TypeOK
  <2> QED BY <1>3, <2>1, <2>2, <2>3 DEF Stop, TypeOK
<1>4. ASSUME NEW p \in Process, NEW w \in Workflow, AddRule(p, w) PROVE rules' \in Rules
  <2>1. rules[p] \in [Workflow -> 0 .. MaxRules] /\ rules[p][w] + 1 \in 0 .. MaxRules
    BY <1>4, GatewayAssumption DEF AddRule, TypeOK
  <2>2. rules' = [rules EXCEPT ![p] = [rules[p] EXCEPT ![w] = rules[p][w] + 1]]
    BY <1>4 DEF AddRule
  <2> QED BY <2>1, <2>2 DEF TypeOK
<1>5. ASSUME NEW p \in Process, NEW w \in Workflow, Define(p, w) \/ Publish(p, w) PROVE TypeOK'
  <2>1. PICK status \in {"none", "draft", "published"} :
           Save(p, "workflows", [mem[p].workflows EXCEPT ![w] = status])
    BY <1>5, Zenon DEF Define, Publish, Saved
  <2>2. /\ mem' \in [Process -> Content] /\ saving' \in [Process -> Files \cup {"none"}]
        /\ file' \in [data : Content, good : [Files -> BOOLEAN]] /\ overlaid' = overlaid
    BY <2>1, ContentsTyped, SaveEffect DEF Files
  <2>3. rules' \in Rules
    BY <1>4, <1>5, Zenon DEF Define, Publish
  <2>4. UNCHANGED <<up, runs, fired, hist>>
    BY <1>5, Zenon DEF Define, Publish
  <2> QED BY <2>2, <2>3, <2>4 DEF hist, TypeOK
<1>6. ASSUME NEW p \in Process, NEW w \in Workflow, Run(p, w) PROVE TypeOK'
  <2> DEFINE x == Cardinality(runs) + 1
  <2>1. x \in 1 .. MaxRuns
    BY <1>6, NextExecution, GatewayAssumption DEF Run
  <2>2. Save(p, "costs", mem[p].costs \cup {<<x, w>>})
    BY <1>6, Zenon DEF Run
  <2>3. runs' = runs \cup {<<x, w>>} /\ UNCHANGED <<up, rules, fired, hist>>
    BY <1>6, Zenon DEF Run
  <2> HIDE DEF x
  <2>4. /\ mem' \in [Process -> Content] /\ saving' \in [Process -> Files \cup {"none"}]
        /\ file' \in [data : Content, good : [Files -> BOOLEAN]] /\ overlaid' = overlaid
    BY <2>1, <2>2, ContentsTyped, SaveEffect DEF Files
  <2>5. runs' \in SUBSET ((1 .. MaxRuns) \X Workflow)
    BY <2>1, <2>3 DEF TypeOK
  <2> QED BY <2>3, <2>4, <2>5 DEF hist, TypeOK
<1>7. ASSUME NEW p \in Process, NEW w \in Workflow, Fire(p, w) PROVE TypeOK'
  BY <1>7 DEF Fire, mine, disk, hist, TypeOK
<1>8. CASE UNCHANGED vars
  BY <1>8 DEF vars, mine, disk, hist, TypeOK
<1> QED BY <1>1, <1>2, <1>3, <1>5, <1>6, <1>7, <1>8, Zenon DEF Next

\* Every state of every behaviour has the types declared for it.
THEOREM TypeCorrect == Spec => []TypeOK
  BY TypeInit, TypeStep, PTL DEF Spec

-----------------------------------------------------------------------------
(* One process at a time *)

\* A process that saves alone: its file is broken, the other is what it was.
LEMMA SaveDurable ==
  ASSUME TypeOK, OneAtATime, AloneIsDurable, NEW p \in up, NEW f \in Files, NEW value,
         [mem[p] EXCEPT ![f] = value] \in Content, Save(p, f, value), saving[p] = "none",
         UNCHANGED <<up, together, torn>>
  PROVE  OneAtATime' /\ AloneIsDurable'
<1>0. p \in Process
  BY DEF TypeOK
<1>1. OneAtATime'
  <2>1. \A q \in Process : saving'[q] # "none" => q \in up'
    BY <1>0, SaveEffect DEF OneAtATime
  <2>2. together' \/ (overlaid' = {} /\ \A q, x \in up' : q = x)
    BY <1>0, SaveEffect, Zenon DEF OneAtATime
  <2> QED BY <2>1, <2>2, Zenon DEF OneAtATime
<1>2. AloneIsDurable'
  <2> SUFFICES ASSUME ~together, ~torn, NEW g \in Files, \A q \in Process : saving'[q] # g
               PROVE  file'.good[g] /\ \A q \in up' : file'.data[g] = mem'[q][g]
    BY Zenon DEF AloneIsDurable
  <2>1. g # f /\ \A q \in up : q = p
    BY <1>0, SaveEffect DEF OneAtATime
  <2>2. \A q \in Process : saving[q] # g
    BY <1>0, <2>1, SaveEffect DEF Files
  <2>3. file.good[g] /\ file.data[g] = mem[p][g]
    BY <2>2, Zenon DEF AloneIsDurable
  <2>4. file'.good[g] = file.good[g] /\ file'.data = file.data /\ mem'[p][g] = mem[p][g]
    BY <1>0, <2>1, SaveEffect
  <2> QED BY <2>1, <2>3, <2>4, Zenon
<1> QED BY <1>1, <1>2

LEMMA InvInit == Init => Inv
<1> SUFFICES ASSUME Init PROVE Inv
  OBVIOUS
<1>1. OneAtATime
  BY DEF Init, OneAtATime
<1>2. AloneIsDurable
  <2>1. up = {} /\ \A f \in Files : file.good[f]
    BY DEF Init
  <2> QED BY <2>1, Zenon DEF AloneIsDurable
<1> QED BY <1>1, <1>2, TypeInit DEF Inv

LEMMA InvStep == Inv /\ [Next]_vars => Inv'
<1> SUFFICES ASSUME Inv, [Next]_vars PROVE OneAtATime' /\ AloneIsDurable'
  BY TypeStep DEF Inv
<1>0. TypeOK /\ OneAtATime /\ AloneIsDurable
  BY DEF Inv
<1>1. ASSUME NEW p \in Process, Boot(p) PROVE OneAtATime' /\ AloneIsDurable'
  <2>1. /\ UNCHANGED <<saving, overlaid, file, torn>> /\ up' = up \cup {p}
        /\ (together' <=> (together \/ up # {}))
        /\ mem' = [mem EXCEPT ![p] = Loaded]
    BY <1>1, Zenon DEF Boot, disk
  <2>2. OneAtATime'
    BY <1>0, <2>1 DEF OneAtATime
  <2>3. AloneIsDurable'
    <3> SUFFICES ASSUME ~together', ~torn', NEW f \in Files, \A q \in Process : saving'[q] # f
                 PROVE  file'.good[f] /\ \A q \in up' : file'.data[f] = mem'[q][f]
      BY Zenon DEF AloneIsDurable
    <3>1. up = {} /\ ~together /\ ~torn /\ \A q \in Process : saving[q] # f
      BY <2>1, Zenon
    <3>2. file.good[f]
      BY <1>0, <3>1, Zenon DEF AloneIsDurable
    <3>3. mem'[p][f] = file.data[f] /\ up' = {p}
      BY <1>0, <2>1, <3>1, <3>2, LoadedTyped DEF TypeOK
    <3> QED BY <2>1, <3>2, <3>3
  <2> QED BY <2>2, <2>3
<1>2. ASSUME NEW p \in Process, Write(p) PROVE OneAtATime' /\ AloneIsDurable'
  <2>1. /\ saving[p] \in Files /\ saving' = [saving EXCEPT ![p] = "none"]
        /\ overlaid' = (overlaid \cup {q \in Process : saving[q] = saving[p]}) \ {p}
        /\ UNCHANGED <<up, mem, together, torn>>
    BY <1>0, <1>2, WriteEffect DEF Write, mine, hist
  <2>2. OneAtATime'
    <3>1. \A q \in Process : saving'[q] # "none" => q \in up'
      BY <1>0, <2>1 DEF OneAtATime, TypeOK
    <3>2. ASSUME ~together' PROVE overlaid' = {} /\ \A q, x \in up' : q = x
      <4>1. overlaid = {} /\ \A q, x \in up : q = x
        BY <1>0, <2>1, <3>2, Zenon DEF OneAtATime
      <4>2. \A q \in Process : saving[q] = saving[p] => q = p
        BY <1>0, <2>1, <4>1 DEF OneAtATime, Files
      <4> QED BY <2>1, <4>1, <4>2
    <3> QED BY <3>1, <3>2, Zenon DEF OneAtATime
  <2>3. AloneIsDurable'
    <3> SUFFICES ASSUME ~together, ~torn, NEW f \in Files, \A q \in Process : saving'[q] # f
                 PROVE  file'.good[f] /\ \A q \in up' : file'.data[f] = mem'[q][f]
      BY <2>1, Zenon DEF AloneIsDurable
    <3>1. p \in up /\ p \notin overlaid /\ \A q \in up : q = p
      BY <1>0, <2>1 DEF OneAtATime, Files
    <3>2. CASE f = saving[p]
      BY <1>0, <1>2, <2>1, <3>1, <3>2, WriteEffect
    <3>3. CASE f # saving[p]
      <4>1. \A q \in Process : saving[q] # f
        BY <1>0, <2>1, <3>3 DEF TypeOK
      <4>2. file.good[f] /\ \A q \in up : file.data[f] = mem[q][f]
        BY <1>0, <4>1, Zenon DEF AloneIsDurable
      <4>3. file'.data[f] = file.data[f] /\ file'.good[f] = file.good[f]
        BY <1>0, <1>2, <3>3, WriteEffect
      <4> QED BY <2>1, <4>2, <4>3, Zenon
    <3> QED BY <3>2, <3>3
  <2> QED BY <2>2, <2>3
<1>3. ASSUME NEW p \in Process, Stop(p) PROVE OneAtATime' /\ AloneIsDurable'
  <2>1. /\ up' = up \ {p} /\ saving' = [saving EXCEPT ![p] = "none"]
        /\ overlaid' = overlaid \ {p} /\ UNCHANGED <<file, together>>
        /\ mem' = [mem EXCEPT ![p] = Empty]
        /\ (torn' <=> (torn \/ saving[p] # "none"))
    BY <1>3, Zenon DEF Stop
  <2>2. OneAtATime'
    BY <1>0, <2>1 DEF OneAtATime, TypeOK
  <2>3. AloneIsDurable'
    <3> SUFFICES ASSUME ~together, ~torn', NEW f \in Files, \A q \in Process : saving'[q] # f
                 PROVE  file'.good[f] /\ \A q \in up' : file'.data[f] = mem'[q][f]
      BY <2>1, Zenon DEF AloneIsDurable
    <3>1. ~torn /\ saving[p] = "none"
      BY <2>1, Zenon
    <3>2. \A q \in Process : saving[q] # f
      BY <1>0, <2>1, <3>1 DEF TypeOK, Files
    <3>3. file.good[f] /\ \A q \in up : file.data[f] = mem[q][f]
      BY <1>0, <3>1, <3>2, Zenon DEF AloneIsDurable
    <3> QED BY <1>0, <2>1, <3>3 DEF TypeOK
  <2> QED BY <2>2, <2>3
<1>4. ASSUME NEW p \in Process, NEW w \in Workflow, Define(p, w) \/ Publish(p, w)
      PROVE  OneAtATime' /\ AloneIsDurable'
  <2>1. PICK status \in {"none", "draft", "published"} :
           Save(p, "workflows", [mem[p].workflows EXCEPT ![w] = status])
    BY <1>4, Zenon DEF Define, Publish, Saved
  <2>2. p \in up /\ saving[p] = "none" /\ UNCHANGED <<up, together, torn>>
    BY <1>4, Zenon DEF Define, Publish, Serves, hist
  <2>3. "workflows" \in Files
    BY DEF Files
  <2> QED BY <1>0, <2>1, <2>2, <2>3, ContentsTyped, SaveDurable
<1>5. ASSUME NEW p \in Process, NEW w \in Workflow, Run(p, w) PROVE OneAtATime' /\ AloneIsDurable'
  <2>1. PICK x \in 1 .. MaxRuns : Save(p, "costs", mem[p].costs \cup {<<x, w>>})
    <3>1. Cardinality(runs) + 1 \in 1 .. MaxRuns
      BY <1>0, <1>5, NextExecution, GatewayAssumption DEF Run
    <3>2. Save(p, "costs", mem[p].costs \cup {<<Cardinality(runs) + 1, w>>})
      BY <1>5, Zenon DEF Run
    <3> QED BY <3>1, <3>2, Zenon
  <2>2. p \in up /\ saving[p] = "none" /\ UNCHANGED <<up, together, torn>>
    BY <1>5, Zenon DEF Run, Serves, hist
  <2>3. "costs" \in Files
    BY DEF Files
  <2> QED BY <1>0, <2>1, <2>2, <2>3, ContentsTyped, SaveDurable
<1>6. ASSUME NEW p \in Process, NEW w \in Workflow, Fire(p, w) PROVE OneAtATime' /\ AloneIsDurable'
  BY <1>0, <1>6, Zenon DEF Fire, mine, disk, hist, OneAtATime, AloneIsDurable
<1>7. CASE UNCHANGED vars
  BY <1>0, <1>7, Zenon DEF vars, mine, disk, hist, OneAtATime, AloneIsDurable
<1> QED BY <1>1, <1>2, <1>3, <1>4, <1>5, <1>6, <1>7, Zenon DEF Next

\* While one process at a time uses the JSON files and none dies in a save, what it
\* has in memory is on disk and can be read again (JsonFileStorage.set, _load).
THEOREM Durable == Spec => []AloneIsDurable
<1>1. Inv => AloneIsDurable
  BY DEF Inv
<1> QED BY <1>1, InvInit, InvStep, PTL DEF Spec

-----------------------------------------------------------------------------
(* Sums of a function over a finite set, as the size of disjoint blocks *)

Blocks(U, L) == UNION {{u} \X (1 .. L[u]) : u \in U}

LEMMA BlockSize ==
  ASSUME NEW x, NEW n \in Nat
  PROVE  IsFiniteSet({x} \X (1 .. n)) /\ Cardinality({x} \X (1 .. n)) = n
<1>1. IsFiniteSet({x}) /\ Cardinality({x}) = 1
  BY FS_Singleton, Zenon
<1>2. IsFiniteSet(1 .. n) /\ Cardinality(1 .. n) = n
  <2>1. 1 \in Int /\ n \in Int
    OBVIOUS
  <2>2. IsFiniteSet(1 .. n) /\ Cardinality(1 .. n) = IF 1 > n THEN 0 ELSE n - 1 + 1
    BY <2>1, FS_Interval
  <2> QED BY <2>2
<1> DEFINE S == {x}
           T == 1 .. n
<1> HIDE DEF S, T
<1>3. IsFiniteSet(S \X T) /\ Cardinality(S \X T) = Cardinality(S) * Cardinality(T)
  <2>1. IsFiniteSet(S) /\ IsFiniteSet(T)
    BY <1>1, <1>2 DEF S, T
  <2> QED BY <2>1, FS_Product
<1>4. Cardinality(S) = 1 /\ Cardinality(T) = n
  BY <1>1, <1>2 DEF S, T
<1>5. IsFiniteSet(S \X T) /\ Cardinality(S \X T) = n
  BY <1>3, <1>4
<1> QED BY <1>5 DEF S, T

LEMMA BlocksFinite ==
  ASSUME NEW U, IsFiniteSet(U), NEW L, \A u \in U : L[u] \in Nat
  PROVE  IsFiniteSet(Blocks(U, L)) /\ Cardinality(Blocks(U, L)) \in Nat
<1> DEFINE B(u) == {u} \X (1 .. L[u])
           F == {B(u) : u \in U}
           f == [u \in U |-> B(u)]
<1>1. f \in Surjection(U, F)
  BY DEF Surjection
<1>2. IsFiniteSet(F)
  BY <1>1, FS_Surjection
<1>3. ASSUME NEW u \in U PROVE IsFiniteSet(B(u))
  BY <1>3, BlockSize
<1>4. \A T \in F : IsFiniteSet(T)
  BY <1>3
<1>5. IsFiniteSet(UNION F)
  <2> HIDE DEF F
  <2> QED BY <1>2, <1>4, FS_UNION
<1> QED BY <1>5, FS_CardinalityType DEF Blocks

LEMMA BlocksSame ==
  ASSUME NEW U, NEW L, NEW M, \A u \in U : L[u] = M[u] PROVE Blocks(U, L) = Blocks(U, M)
  BY DEF Blocks

\* One more element adds its value.
LEMMA BlocksAdd ==
  ASSUME NEW U, IsFiniteSet(U), NEW x, x \notin U, NEW L, \A u \in U \cup {x} : L[u] \in Nat
  PROVE  Cardinality(Blocks(U \cup {x}, L)) = Cardinality(Blocks(U, L)) + L[x]
<1> DEFINE B == {x} \X (1 .. L[x])
<1>1. Blocks(U \cup {x}, L) = Blocks(U, L) \cup B
  BY DEF Blocks
<1>2. Blocks(U, L) \cap B = {}
  BY DEF Blocks
<1>3. IsFiniteSet(B) /\ Cardinality(B) = L[x]
  BY BlockSize
<1>4. IsFiniteSet(Blocks(U, L)) /\ Cardinality(Blocks(U, L)) \in Nat
  BY BlocksFinite
<1> HIDE DEF B
<1>5. Cardinality(Blocks(U, L) \cup B)
        = Cardinality(Blocks(U, L)) + Cardinality(B) - Cardinality(Blocks(U, L) \cap B)
  BY <1>3, <1>4, FS_Union
<1>6. Cardinality(Blocks(U, L) \cap B) = 0
  BY <1>2, FS_EmptySet
<1>7. L[x] \in Nat
  OBVIOUS
<1>8. Cardinality(Blocks(U, L) \cup B) = Cardinality(Blocks(U, L)) + L[x]
  BY <1>3, <1>4, <1>5, <1>6, <1>7
<1> QED BY <1>1, <1>8

-----------------------------------------------------------------------------
(* The budget *)

Entry == (1 .. MaxRuns) \X Workflow
Price == [e \in Entry |-> Steps[e[2]]]

LEMMA EntriesFinite == ASSUME NEW S \in SUBSET Entry PROVE IsFiniteSet(S)
<1>1. IsFiniteSet(1 .. MaxRuns) /\ IsFiniteSet(Workflow)
  BY FS_Interval, GatewayAssumption
<1>2. IsFiniteSet(Entry)
  BY <1>1, FS_Product DEF Entry
<1> QED BY <1>2, FS_Subset

\* What entries sum up to, and with one more entry.
LEMMA TotalIs ==
  ASSUME NEW S \in SUBSET Entry
  PROVE  Total(S) = Cardinality(Blocks(S, Price)) /\ Total(S) \in Nat
<1>1. \A e \in S : Price[e] = Steps[e[2]] /\ Price[e] \in Nat
  BY GatewayAssumption DEF Price, Entry
<1>2. Blocks(S, Price) = UNION {{e} \X (1 .. Steps[e[2]]) : e \in S}
  BY <1>1 DEF Blocks
<1> QED BY <1>1, <1>2, EntriesFinite, BlocksFinite DEF Total

LEMMA TotalNone == Total({}) = 0
<1>1. UNION {{e} \X (1 .. Steps[e[2]]) : e \in {}} = {}
  OBVIOUS
<1> QED BY <1>1, FS_EmptySet DEF Total

LEMMA TotalAdd ==
  ASSUME NEW S \in SUBSET Entry, NEW x \in 1 .. MaxRuns, NEW w \in Workflow, <<x, w>> \notin S
  PROVE  Total(S \cup {<<x, w>>}) = Total(S) + Steps[w]
<1> DEFINE e == <<x, w>>
<1>1. e \in Entry /\ Price[e] = Steps[w]
  BY DEF Entry, Price
<1>2. S \cup {e} \in SUBSET Entry
  BY <1>1
<1>3. \A u \in S \cup {e} : Price[u] \in Nat
  BY <1>2, GatewayAssumption DEF Price, Entry
<1> HIDE DEF e
<1>4. e \notin S /\ IsFiniteSet(S)
  BY EntriesFinite DEF e
<1>5. Cardinality(Blocks(S \cup {e}, Price)) = Cardinality(Blocks(S, Price)) + Price[e]
  BY <1>3, <1>4, BlocksAdd
<1>6. Total(S \cup {e}) = Total(S) + Steps[w]
  BY <1>1, <1>2, <1>5, TotalIs
<1> QED BY <1>6 DEF e

\* What a process has left of the budget, by what it knows of.
Rest == [p \in Process |-> Budget - Total(mem[p].costs)]

\* Entries come from executions, numbered as they started; nobody knows of more than a
\* budget's worth, and the processes that are up can only spend what they have left.
SpentInv ==
    /\ IsFiniteSet(up)
    /\ \A e \in runs : e[1] <= Cardinality(runs)
    /\ file.data.costs \subseteq runs /\ Total(file.data.costs) <= Budget
    /\ \A p \in Process : mem[p].costs \subseteq runs /\ Total(mem[p].costs) <= Budget
    /\ Total(runs) + Cardinality(Blocks(up, Rest)) <= Budget * boots

\* What the actions do to the entries.
Others(p) == \A q \in Process \ {p} : mem'[q].costs = mem[q].costs
Starts(p) ==
    /\ p \notin up /\ up' = up \cup {p} /\ boots' = boots + 1 /\ UNCHANGED <<runs, file>>
    /\ mem'[p].costs \in {file.data.costs, {}} /\ Others(p)
Ends(p) ==
    /\ p \in up /\ up' = up \ {p} /\ UNCHANGED <<runs, file, boots>>
    /\ mem'[p].costs = {} /\ Others(p)
Spends(p, w) ==
    /\ p \in up /\ UNCHANGED <<up, boots>> /\ file'.data = file.data
    /\ Cardinality(runs) + 1 \in 1 .. MaxRuns
    /\ Steps[w] <= Budget - Total(mem[p].costs)
    /\ runs' = runs \cup {<<Cardinality(runs) + 1, w>>}
    /\ mem'[p].costs = mem[p].costs \cup {<<Cardinality(runs) + 1, w>>} /\ Others(p)
Copies ==
    /\ UNCHANGED <<up, boots, runs>> /\ \A q \in Process : mem'[q].costs = mem[q].costs
    /\ \/ file'.data.costs = file.data.costs
       \/ \E p \in Process : file'.data.costs = mem[p].costs

\* What Save puts in memory.
LEMMA SavedValue ==
  ASSUME TypeOK, NEW p \in Process, NEW f \in Files, NEW value, Save(p, f, value)
  PROVE  mem'[p][f] = value
<1>1. mem' = [mem EXCEPT ![p] = [mem[p] EXCEPT ![f] = value]]
  BY DEF Save
<1>2. mem'[p] = [mem[p] EXCEPT ![f] = value]
  BY <1>1 DEF TypeOK
<1> QED BY <1>2 DEF TypeOK, Content, Files

LEMMA BootCosts == ASSUME TypeOK, NEW p \in Process, Boot(p) PROVE Starts(p)
<1>1. mem'[p] = Loaded /\ Others(p)
  BY DEF Boot, TypeOK, Others
<1>2. Loaded.costs \in {file.data.costs, {}}
  BY DEF Loaded, Files, Empty
<1> QED BY <1>1, <1>2 DEF Boot, disk, Starts

LEMMA StopCosts == ASSUME TypeOK, NEW p \in Process, Stop(p) PROVE Ends(p)
  BY DEF Stop, TypeOK, Others, Ends, Empty

LEMMA RunCosts ==
  ASSUME TypeOK, NEW p \in Process, NEW w \in Workflow, Run(p, w) PROVE Spends(p, w)
<1> DEFINE x == Cardinality(runs) + 1
           entries == mem[p].costs \cup {<<x, w>>}
<1>1. x \in 1 .. MaxRuns
  BY NextExecution, GatewayAssumption DEF Run
<1>2. Save(p, "costs", entries) /\ "costs" \in Files
  BY Zenon DEF Run, Files
<1>3. [mem[p] EXCEPT !["costs"] = entries] \in Content
  BY <1>1, ContentsTyped
<1>4. /\ p \in up /\ runs' = runs \cup {<<x, w>>} /\ UNCHANGED <<up, boots>>
      /\ Steps[w] <= Budget - Total(mem[p].costs)
  BY DEF Run, Serves, WithinBudget, hist
<1> HIDE DEF entries
<1>5. mem'[p].costs = entries /\ file'.data = file.data /\ Others(p)
  BY <1>2, <1>3, SavedValue, SaveEffect DEF Others
<1> QED BY <1>1, <1>4, <1>5 DEF Spends, entries

LEMMA MoneySteps ==
  ASSUME TypeOK, [Next]_vars
  PROVE  \/ \E p \in Process : Starts(p) \/ Ends(p)
         \/ \E p \in Process, w \in Workflow : Spends(p, w)
         \/ Copies
<1>1. ASSUME NEW p \in Process, Write(p) PROVE Copies
  <2>1. UNCHANGED <<up, boots, runs, mem>>
    BY <1>1 DEF Write, mine, hist
  <2>2. CASE saving[p] = "costs"
    BY <1>1, <2>1, <2>2, WriteEffect DEF Copies
  <2>3. CASE saving[p] # "costs"
    BY <1>1, <2>1, <2>3, WriteEffect DEF Copies, Files
  <2> QED BY <2>2, <2>3
<1>2. ASSUME NEW p \in Process, NEW w \in Workflow, Define(p, w) \/ Publish(p, w) PROVE Copies
  <2>1. PICK status \in {"none", "draft", "published"} :
           Save(p, "workflows", [mem[p].workflows EXCEPT ![w] = status])
    BY <1>2, Zenon DEF Define, Publish, Saved
  <2>2. UNCHANGED <<up, boots, runs>>
    BY <1>2, Zenon DEF Define, Publish, hist
  <2>3. "workflows" \in Files /\ "costs" \in Files \ {"workflows"}
    BY DEF Files
  <2>4. /\ file'.data = file.data /\ \A q \in Process \ {p} : mem'[q] = mem[q]
        /\ mem'[p].costs = mem[p].costs
    BY <2>1, <2>3, ContentsTyped, SaveEffect
  <2> QED BY <2>2, <2>4 DEF Copies
<1>3. ASSUME NEW p \in Process, NEW w \in Workflow, Fire(p, w) PROVE Copies
  BY <1>3 DEF Fire, mine, disk, hist, Copies
<1>4. CASE UNCHANGED vars
  BY <1>4 DEF vars, mine, disk, hist, Copies
<1> QED BY <1>1, <1>2, <1>3, <1>4, BootCosts, StopCosts, RunCosts, Zenon DEF Next

LEMMA EntriesKnown ==
  ASSUME TypeOK
  PROVE  /\ runs \in SUBSET Entry /\ file.data.costs \in SUBSET Entry
         /\ \A p \in Process : mem[p].costs \in SUBSET Entry
         /\ Total(runs) \in Nat /\ Total(file.data.costs) \in Nat
         /\ \A p \in Process : Total(mem[p].costs) \in Nat
         /\ boots \in Nat /\ up \subseteq Process
<1>1. /\ runs \in SUBSET Entry /\ file.data.costs \in SUBSET Entry
      /\ \A p \in Process : mem[p].costs \in SUBSET Entry
  BY DEF TypeOK, Content, Entry
<1>2. boots \in Nat /\ up \subseteq Process
  BY GatewayAssumption DEF TypeOK
<1> QED BY <1>1, <1>2, TotalIs

\* What is left to the processes up, seen from one of them.
LEMMA RestSplits ==
  ASSUME NEW U, IsFiniteSet(U), NEW L, \A u \in U : L[u] \in Nat, NEW p \in U
  PROVE  /\ Cardinality(Blocks(U, L)) = Cardinality(Blocks(U \ {p}, L)) + L[p]
         /\ Cardinality(Blocks(U \ {p}, L)) \in Nat
<1> DEFINE V == U \ {p}
<1>1. IsFiniteSet(V) /\ p \notin V /\ V \cup {p} = U
  BY FS_RemoveElement
<1>2. \A u \in V \cup {p} : L[u] \in Nat
  BY <1>1
<1> HIDE DEF V
<1>3. Cardinality(Blocks(V \cup {p}, L)) = Cardinality(Blocks(V, L)) + L[p]
  BY <1>1, <1>2, BlocksAdd
<1>4. Cardinality(Blocks(V, L)) \in Nat
  BY <1>1, <1>2, BlocksFinite
<1> QED BY <1>1, <1>3, <1>4 DEF V

LEMMA RestTyped ==
  ASSUME TypeOK, SpentInv
  PROVE  /\ \A p \in Process : Rest[p] = Budget - Total(mem[p].costs) /\ Rest[p] \in Nat
         /\ \A p \in up : Rest[p] \in Nat
<1>1. ASSUME NEW p \in Process
      PROVE  Rest[p] = Budget - Total(mem[p].costs) /\ Rest[p] \in Nat
  BY EntriesKnown, GatewayAssumption DEF SpentInv, Rest
<1> QED BY <1>1, EntriesKnown

LEMMA SpentStarts ==
  ASSUME TypeOK, TypeOK', SpentInv, NEW p \in Process, Starts(p) PROVE SpentInv'
<1>0. /\ p \notin up /\ up' = up \cup {p} /\ boots' = boots + 1 /\ runs' = runs /\ file' = file
      /\ mem'[p].costs \in {file.data.costs, {}} /\ Others(p)
  BY DEF Starts
<1>1. \A q \in Process : mem'[q].costs \subseteq runs /\ Total(mem'[q].costs) <= Budget
  <2> SUFFICES ASSUME NEW q \in Process
               PROVE  mem'[q].costs \subseteq runs /\ Total(mem'[q].costs) <= Budget
    OBVIOUS
  <2>1. mem'[q].costs \in {mem[q].costs, file.data.costs, {}}
    BY <1>0 DEF Others
  <2>2. Total({}) <= Budget
    BY TotalNone, GatewayAssumption
  <2>3. \A c \in {mem[q].costs, file.data.costs, {}} : c \subseteq runs /\ Total(c) <= Budget
    BY <2>2 DEF SpentInv
  <2> QED BY <2>1, <2>3
<1>2. IsFiniteSet(up')
  BY <1>0, FS_AddElement DEF SpentInv
<1>3. \A q \in Process : Rest'[q] = Budget - Total(mem'[q].costs) /\ Rest'[q] \in 0 .. Budget
  <2> SUFFICES ASSUME NEW q \in Process
               PROVE  Rest'[q] = Budget - Total(mem'[q].costs) /\ Rest'[q] \in 0 .. Budget
    OBVIOUS
  <2>1. Total(mem'[q].costs) \in Nat
    BY TotalIs DEF TypeOK, Content, Entry
  <2> QED BY <1>1, <2>1, GatewayAssumption DEF Rest
<1>4. Cardinality(Blocks(up', Rest')) = Cardinality(Blocks(up, Rest)) + Rest'[p]
  <2>1. \A u \in up : Rest'[u] = Rest[u]
    BY <1>0, EntriesKnown DEF Others, Rest
  <2>2. Blocks(up, Rest') = Blocks(up, Rest)
    BY <2>1, BlocksSame
  <2>3. \A u \in up \cup {p} : Rest'[u] \in Nat
    BY <1>3, EntriesKnown, GatewayAssumption
  <2>4. IsFiniteSet(up)
    BY DEF SpentInv
  <2>5. Cardinality(Blocks(up \cup {p}, Rest')) = Cardinality(Blocks(up, Rest')) + Rest'[p]
    BY <1>0, <2>3, <2>4, BlocksAdd
  <2> QED BY <1>0, <2>2, <2>5
<1>5. Total(runs') + Cardinality(Blocks(up', Rest')) <= Budget * boots'
  <2>1. Budget * (boots + 1) = Budget * boots + Budget /\ Budget * boots \in Nat
    BY EntriesKnown, GatewayAssumption
  <2>2. Cardinality(Blocks(up, Rest)) \in Nat
    BY RestTyped, BlocksFinite DEF SpentInv
  <2>3. Rest'[p] \in Nat /\ Rest'[p] <= Budget /\ Total(runs) \in Nat /\ Budget \in Nat
    BY <1>3, EntriesKnown, GatewayAssumption
  <2>4. Total(runs) + Cardinality(Blocks(up, Rest)) <= Budget * boots
    BY DEF SpentInv
  <2> QED BY <1>0, <1>4, <2>1, <2>2, <2>3, <2>4
<1> QED BY <1>0, <1>1, <1>2, <1>5 DEF SpentInv

LEMMA SpentEnds ==
  ASSUME TypeOK, TypeOK', SpentInv, NEW p \in Process, Ends(p) PROVE SpentInv'
<1>0. /\ p \in up /\ up' = up \ {p} /\ boots' = boots /\ runs' = runs /\ file' = file
      /\ mem'[p].costs = {} /\ Others(p)
  BY DEF Ends
<1>1. \A q \in Process : mem'[q].costs \subseteq runs /\ Total(mem'[q].costs) <= Budget
  <2> SUFFICES ASSUME NEW q \in Process
               PROVE  mem'[q].costs \subseteq runs /\ Total(mem'[q].costs) <= Budget
    OBVIOUS
  <2>1. mem'[q].costs \in {mem[q].costs, {}}
    BY <1>0 DEF Others
  <2>2. Total({}) <= Budget
    BY TotalNone, GatewayAssumption
  <2>3. \A c \in {mem[q].costs, {}} : c \subseteq runs /\ Total(c) <= Budget
    BY <2>2 DEF SpentInv
  <2> QED BY <2>1, <2>3
<1>2. IsFiniteSet(up')
  BY <1>0, FS_RemoveElement DEF SpentInv
<1>3. Blocks(up', Rest') = Blocks(up \ {p}, Rest)
  <2>1. \A u \in up \ {p} : Rest'[u] = Rest[u]
    BY <1>0, EntriesKnown DEF Others, Rest
  <2>2. Blocks(up \ {p}, Rest') = Blocks(up \ {p}, Rest)
    BY <2>1, BlocksSame
  <2> QED BY <1>0, <2>2
<1>4. /\ Cardinality(Blocks(up, Rest)) = Cardinality(Blocks(up \ {p}, Rest)) + Rest[p]
      /\ Cardinality(Blocks(up \ {p}, Rest)) \in Nat /\ Rest[p] \in Nat
  BY <1>0, RestTyped, RestSplits DEF SpentInv
<1>5. Total(runs') + Cardinality(Blocks(up', Rest')) <= Budget * boots'
  <2>1. Budget * boots \in Nat /\ Total(runs) \in Nat
    BY EntriesKnown, GatewayAssumption
  <2>2. Total(runs) + Cardinality(Blocks(up, Rest)) <= Budget * boots
    BY DEF SpentInv
  <2> QED BY <1>0, <1>3, <1>4, <2>1, <2>2
<1> QED BY <1>0, <1>1, <1>2, <1>5 DEF SpentInv

\* An execution takes from its process's rest what it adds to the sum.
LEMMA SpentSpends ==
  ASSUME TypeOK, TypeOK', SpentInv, NEW p \in Process, NEW w \in Workflow, Spends(p, w)
  PROVE  SpentInv'
<1> DEFINE x == Cardinality(runs) + 1
<1>0. /\ p \in up /\ up' = up /\ boots' = boots /\ file'.data = file.data
      /\ x \in 1 .. MaxRuns /\ Steps[w] <= Budget - Total(mem[p].costs)
      /\ runs' = runs \cup {<<x, w>>} /\ mem'[p].costs = mem[p].costs \cup {<<x, w>>} /\ Others(p)
  BY DEF Spends
<1>a. Cardinality(runs) \in Nat /\ Steps[w] \in Nat
  BY EntriesKnown, EntriesFinite, FS_CardinalityType, GatewayAssumption
<1>1. <<x, w>> \notin runs /\ <<x, w>> \notin mem[p].costs
  BY <1>a DEF SpentInv
<1>2. Total(runs') = Total(runs) + Steps[w] /\ Total(mem'[p].costs) = Total(mem[p].costs) + Steps[w]
  BY <1>0, <1>1, EntriesKnown, TotalAdd
<1>3. \A e \in runs' : e[1] <= Cardinality(runs')
  <2>1. Cardinality(runs') = x
    BY <1>0, <1>1, EntriesKnown, EntriesFinite, FS_AddElement
  <2>2. \A e \in runs : e[1] \in Nat
    BY EntriesKnown DEF Entry
  <2> QED BY <1>0, <1>a, <2>1, <2>2 DEF SpentInv
<1>4. \A q \in Process : mem'[q].costs \subseteq runs' /\ Total(mem'[q].costs) <= Budget
  <2>1. mem'[p].costs \subseteq runs' /\ Total(mem'[p].costs) <= Budget
    BY <1>0, <1>2, <1>a, EntriesKnown, GatewayAssumption DEF SpentInv
  <2>2. ASSUME NEW q \in Process \ {p} PROVE mem'[q].costs \subseteq runs' /\ Total(mem'[q].costs) <= Budget
    BY <1>0 DEF SpentInv, Others
  <2> QED BY <2>1, <2>2
<1>5. Cardinality(Blocks(up', Rest')) = Cardinality(Blocks(up, Rest)) - Steps[w]
  <2>1. Blocks(up \ {p}, Rest') = Blocks(up \ {p}, Rest)
    <3>1. \A u \in up \ {p} : Rest'[u] = Rest[u]
      BY <1>0, EntriesKnown DEF Others, Rest
    <3> QED BY <3>1, BlocksSame
  <2>2. /\ Cardinality(Blocks(up, Rest)) = Cardinality(Blocks(up \ {p}, Rest)) + Rest[p]
        /\ Cardinality(Blocks(up \ {p}, Rest)) \in Nat /\ Rest[p] \in Nat
    BY <1>0, RestTyped, RestSplits DEF SpentInv
  <2>3. Rest'[p] = Rest[p] - Steps[w] /\ Rest'[p] \in Nat
    <3>1. Rest'[p] = Budget - Total(mem'[p].costs) /\ Rest[p] = Budget - Total(mem[p].costs)
      BY DEF Rest
    <3>2. Total(mem[p].costs) \in Nat /\ Budget \in Nat /\ Steps[w] <= Budget - Total(mem[p].costs)
      BY <1>0, EntriesKnown, GatewayAssumption
    <3> QED BY <1>2, <1>a, <3>1, <3>2
  <2>4. \A u \in up : Rest'[u] \in Nat
    BY <2>3, <1>0, RestTyped, EntriesKnown DEF Rest, Others
  <2>5. Cardinality(Blocks(up, Rest')) = Cardinality(Blocks(up \ {p}, Rest')) + Rest'[p]
    BY <1>0, <2>4, RestSplits DEF SpentInv
  <2> QED BY <1>0, <1>a, <2>1, <2>2, <2>3, <2>5
<1>6. Total(runs') + Cardinality(Blocks(up', Rest')) <= Budget * boots'
  <2>1. Budget * boots \in Nat /\ Total(runs) \in Nat
    BY EntriesKnown, GatewayAssumption
  <2>2. Cardinality(Blocks(up, Rest)) \in Nat
    BY RestTyped, BlocksFinite DEF SpentInv
  <2>3. Total(runs) + Cardinality(Blocks(up, Rest)) <= Budget * boots
    BY DEF SpentInv
  <2> QED BY <1>0, <1>2, <1>5, <1>a, <2>1, <2>2, <2>3
<1>7. file'.data.costs \subseteq runs' /\ Total(file'.data.costs) <= Budget /\ IsFiniteSet(up')
  BY <1>0 DEF SpentInv
<1> QED BY <1>3, <1>4, <1>6, <1>7 DEF SpentInv

LEMMA SpentCopies == ASSUME TypeOK, SpentInv, Copies PROVE SpentInv'
<1>0. /\ up' = up /\ boots' = boots /\ runs' = runs
      /\ \A q \in Process : mem'[q].costs = mem[q].costs
  BY DEF Copies
<1>1. Blocks(up', Rest') = Blocks(up, Rest)
  <2>1. \A u \in up : Rest'[u] = Rest[u]
    BY <1>0, EntriesKnown DEF Rest
  <2> QED BY <1>0, <2>1, BlocksSame
<1>2. file'.data.costs \subseteq runs /\ Total(file'.data.costs) <= Budget
  BY DEF Copies, SpentInv
<1> QED BY <1>0, <1>1, <1>2 DEF SpentInv

LEMMA SpentInit == Init => SpentInv
<1> SUFFICES ASSUME Init PROVE SpentInv
  OBVIOUS
<1>1. /\ up = {} /\ runs = {} /\ boots = 0 /\ file.data.costs = {}
      /\ \A p \in Process : mem[p].costs = {}
  BY DEF Init, Empty
<1>2. Blocks(up, Rest) = {}
  BY <1>1 DEF Blocks
<1>3. IsFiniteSet(up) /\ Cardinality(Blocks(up, Rest)) = 0 /\ Total(runs) = 0
  BY <1>1, <1>2, FS_EmptySet, TotalNone
<1>4. Total(runs) + Cardinality(Blocks(up, Rest)) <= Budget * boots
  BY <1>1, <1>3, GatewayAssumption
<1>5. Total({}) <= Budget
  BY TotalNone, GatewayAssumption
<1> QED BY <1>1, <1>3, <1>4, <1>5 DEF SpentInv

LEMMA SpentStep == Inv /\ SpentInv /\ [Next]_vars => SpentInv'
<1> SUFFICES ASSUME Inv, SpentInv, [Next]_vars PROVE SpentInv'
  OBVIOUS
<1>1. TypeOK /\ TypeOK'
  BY TypeStep DEF Inv
<1> QED BY <1>1, MoneySteps, SpentStarts, SpentEnds, SpentSpends, SpentCopies

\* The processes all together overspend the budget by no more than a budget for each start.
THEOREM OverspendIsBounded == Spec => []OverspendBounded
<1>1. Inv /\ SpentInv => OverspendBounded
  <2> SUFFICES ASSUME Inv, SpentInv PROVE OverspendBounded
    OBVIOUS
  <2>0. TypeOK
    BY DEF Inv
  <2>1. Cardinality(Blocks(up, Rest)) \in Nat
    BY <2>0, RestTyped, BlocksFinite DEF SpentInv
  <2>2. Total(runs) \in Nat /\ Budget * boots \in Nat
    BY <2>0, EntriesKnown, GatewayAssumption
  <2>3. Total(runs) + Cardinality(Blocks(up, Rest)) <= Budget * boots
    BY DEF SpentInv
  <2> QED BY <2>1, <2>2, <2>3 DEF OverspendBounded
<1> QED BY <1>1, InvInit, InvStep, SpentInit, SpentStep, PTL DEF Spec

-----------------------------------------------------------------------------
(* The budget of one process at a time *)

\* What the process up knows is what was run; when none is up, the file has it.
AloneInv ==
    together \/ torn \/ /\ \A p \in up : mem[p].costs = runs
                        /\ up = {} => file.data.costs = runs

LEMMA AloneStep == Inv /\ AloneInv /\ [Next]_vars => AloneInv'
<1> SUFFICES ASSUME Inv, AloneInv, [Next]_vars PROVE AloneInv'
  OBVIOUS
<1>0. TypeOK /\ OneAtATime /\ AloneIsDurable /\ "costs" \in Files
  BY DEF Inv, Files
<1>1. ASSUME NEW p \in Process, Boot(p) PROVE AloneInv'
  <2> SUFFICES ASSUME ~together', ~torn'
               PROVE  (\A q \in up' : mem'[q].costs = runs') /\ up' # {}
    BY Zenon DEF AloneInv
  <2>1. up = {} /\ ~together /\ ~torn /\ runs' = runs /\ up' = {p} /\ mem'[p] = Loaded
    BY <1>0, <1>1 DEF Boot, TypeOK
  <2>2. file.good["costs"]
    <3>1. \A q \in Process : saving[q] # "costs"
      BY <1>0, <2>1 DEF OneAtATime
    <3> QED BY <1>0, <2>1, <3>1, Zenon DEF AloneIsDurable
  <2>3. Loaded.costs = file.data.costs /\ file.data.costs = runs
    BY <1>0, <2>1, <2>2, LoadedTyped DEF AloneInv
  <2> QED BY <2>1, <2>3
<1>2. ASSUME NEW p \in Process, Stop(p) PROVE AloneInv'
  <2> SUFFICES ASSUME ~together', ~torn'
               PROVE  (\A q \in up' : mem'[q].costs = runs') /\ (up' = {} => file'.data.costs = runs')
    BY Zenon DEF AloneInv
  <2>1. /\ p \in up /\ up' = up \ {p} /\ runs' = runs /\ file' = file /\ saving[p] = "none"
        /\ ~together /\ ~torn
    BY <1>2, Zenon DEF Stop
  <2>2. up' = {} /\ mem[p].costs = runs
    BY <1>0, <2>1 DEF OneAtATime, AloneInv
  <2>3. file.data.costs = mem[p].costs
    <3>1. \A q \in Process : saving[q] # "costs"
      BY <1>0, <2>1 DEF OneAtATime
    <3> QED BY <1>0, <2>1, <3>1, Zenon DEF AloneIsDurable
  <2> QED BY <2>1, <2>2, <2>3
<1>3. ASSUME NEW p \in Process, NEW w \in Workflow, Run(p, w) PROVE AloneInv'
  <2> SUFFICES ASSUME ~together', ~torn'
               PROVE  (\A q \in up' : mem'[q].costs = runs') /\ up' # {}
    BY Zenon DEF AloneInv
  <2>1. Spends(p, w) /\ together' = together /\ torn' = torn
    BY <1>0, <1>3, RunCosts DEF Run, hist
  <2>2. mem[p].costs = runs /\ \A q \in up : q = p
    BY <1>0, <2>1 DEF Spends, OneAtATime, AloneInv
  <2> QED BY <2>1, <2>2 DEF Spends
<1>4. ASSUME NEW p \in Process, Write(p) PROVE AloneInv'
  <2> SUFFICES ASSUME ~together', ~torn'
               PROVE  (\A q \in up' : mem'[q].costs = runs') /\ up' # {}
    BY Zenon DEF AloneInv
  <2>1. UNCHANGED <<up, mem, runs, together, torn>> /\ p \in up
    BY <1>0, <1>4 DEF Write, mine, hist, OneAtATime
  <2> QED BY <2>1 DEF AloneInv
<1>5. ASSUME UNCHANGED <<up, runs, hist>>, file'.data.costs = file.data.costs,
             \A q \in Process : mem'[q].costs = mem[q].costs
      PROVE  AloneInv'
  BY <1>0, <1>5 DEF AloneInv, hist, TypeOK
<1>6. ASSUME NEW p \in Process, NEW w \in Workflow, Define(p, w) \/ Publish(p, w) PROVE AloneInv'
  <2>1. PICK status \in {"none", "draft", "published"} :
           Save(p, "workflows", [mem[p].workflows EXCEPT ![w] = status])
    BY <1>6, Zenon DEF Define, Publish, Saved
  <2>2. UNCHANGED <<up, runs, hist>>
    BY <1>6, Zenon DEF Define, Publish
  <2>3. "workflows" \in Files /\ "costs" \in Files \ {"workflows"}
    BY DEF Files
  <2>4. /\ file'.data = file.data /\ \A q \in Process \ {p} : mem'[q] = mem[q]
        /\ mem'[p].costs = mem[p].costs
    BY <1>0, <2>1, <2>3, ContentsTyped, SaveEffect
  <2> QED BY <1>5, <2>2, <2>4
<1>7. ASSUME NEW p \in Process, NEW w \in Workflow, Fire(p, w) PROVE AloneInv'
  BY <1>5, <1>7 DEF Fire, mine, disk, hist
<1>8. CASE UNCHANGED vars
  BY <1>5, <1>8 DEF vars, mine, disk, hist
<1> QED BY <1>1, <1>2, <1>3, <1>4, <1>6, <1>7, <1>8, Zenon DEF Next

\* One process at a time, none of which dies in a save, keeps to the budget across restarts.
THEOREM BudgetIsKept == Spec => []AloneWithinBudget
<1>1. Init => AloneInv
  BY DEF Init, Empty, AloneInv
<1>2. Inv /\ SpentInv /\ AloneInv => AloneWithinBudget
  <2> SUFFICES ASSUME Inv, SpentInv, AloneInv, ~together, ~torn PROVE Total(runs) <= Budget
    BY DEF AloneWithinBudget
  <2>1. CASE up = {}
    BY <2>1 DEF AloneInv, SpentInv
  <2>2. CASE up # {}
    <3>1. PICK p \in up : p \in Process /\ mem[p].costs = runs
      BY <2>2 DEF AloneInv, Inv, TypeOK
    <3> QED BY <3>1 DEF SpentInv
  <2> QED BY <2>1, <2>2
<1> QED BY <1>1, <1>2, InvInit, InvStep, SpentInit, SpentStep, AloneStep, PTL DEF Spec

=============================================================================
