---------------------------- MODULE KahnSortProofs ----------------------------
(***************************************************************************)
(* Correctness of KahnSort for every workflow: any number of steps, any    *)
(* dependencies.                                                           *)
(***************************************************************************)
EXTENDS KahnSort, FiniteSetTheorems, TLAPS

-----------------------------------------------------------------------------
(* The inductive invariant *)

\* The nodes in the order so far, and those that wait in ready.
Placed  == {order[i] : i \in 1..Len(order)}
Waiting == {ready[i] : i \in 1..Len(ready)}

NoneTwice(q) == \A i, j \in 1..Len(q) : q[i] = q[j] => i = j

TypeOK ==
    /\ deps \in Graphs
    /\ remaining \in [Nodes -> Nat]
    /\ ready \in Seq(Nodes)
    /\ order \in Seq(Nodes)
    /\ outcome \in Outcomes

\* The counts are exact, and say which nodes the loop has come across.
Counted ==
    \A n \in Nodes :
        /\ remaining[n] = Cardinality(deps[n] \ Placed)
        /\ remaining[n] = 0 <=> n \in Placed \cup Waiting

EachOnce == NoneTwice(order) /\ NoneTwice(ready) /\ Placed \cap Waiting = {}

Inv ==
    /\ TypeOK
    /\ OrderRespectsDeps
    /\ outcome \in {"new", "invalid"} => order = <<>>
    /\ outcome \in {"sorting", "sorted", "cycle"} => ~Malformed /\ Counted /\ EachOnce
    /\ outcome \in {"sorted", "cycle"} =>
           ready = <<>> /\ (outcome = "sorted" <=> Len(order) = Len(Declared))

-----------------------------------------------------------------------------
(* Nodes in the order of the declaration *)

\* Declared lists every node once.
LEMMA DeclaredFacts ==
  /\ Declared \in Seq(Nodes) /\ Len(Declared) \in Nat
  /\ \A n \in Nodes : \E i \in 1..Len(Declared) : Declared[i] = n
  /\ NoneTwice(Declared)
  <1>1. Declared \in Seq(Nodes)
    BY GraphAssumption
  <1>2. NoneTwice(Declared)
    BY GraphAssumption DEF NoneTwice
  <1>3. \A n \in Nodes : \E i \in 1..Len(Declared) : Declared[i] = n
    BY DEF Nodes
  <1>4. QED
    BY <1>1, <1>2, <1>3

\* The nodes are finitely many, as many as there are declared ids.
LEMMA NodesFinite == IsFiniteSet(Nodes) /\ Cardinality(Nodes) = Len(Declared)
  <1> DEFINE N == Len(Declared)
  <1>1. Declared \in Bijection(1..N, Nodes)
    <2>1. Declared \in [1..N -> Nodes]
      BY DeclaredFacts
    <2>2. Declared \in Injection(1..N, Nodes)
      BY <2>1, DeclaredFacts DEF NoneTwice, Injection, IsInjective
    <2>3. Declared \in Surjection(1..N, Nodes)
      BY <2>1, DeclaredFacts DEF Surjection
    <2>4. QED
      BY <2>2, <2>3 DEF Bijection
  <1>2. ExistsBijection(1..N, Nodes) /\ N \in Nat
    BY <1>1, DeclaredFacts DEF ExistsBijection
  <1>3. QED
    BY <1>2, FS_CountingElements, FS_NatBijection

\* The places in the declaration of the members of S.
Places(S) == {j \in 1..Len(Declared) : Declared[j] \in S}

\* Counting numbers the places of S from 1 up.
LEMMA CountingPlaces ==
  ASSUME NEW S
  PROVE  /\ CountUpTo(S, Len(Declared)) \in Nat
         /\ \A i \in Places(S) : CountUpTo(S, i) \in 1..CountUpTo(S, Len(Declared))
         /\ \A i, j \in Places(S) : CountUpTo(S, i) = CountUpTo(S, j) => i = j
         /\ \A k \in 1..CountUpTo(S, Len(Declared)) :
                \E i \in Places(S) : CountUpTo(S, i) = k
  <1> DEFINE N == Len(Declared)
             P == Places(S)
             B(i) == {j \in 1..i : Declared[j] \in S}
             c == [i \in P |-> Cardinality(B(i))]
             K == Cardinality(P)
  <1>1. N \in Nat
    BY DeclaredFacts
  <1>2. IsFiniteSet(P) /\ K \in Nat
    <2>1. IsFiniteSet(1..N) /\ P \in SUBSET (1..N)
      BY <1>1, FS_Interval DEF Places
    <2> HIDE DEF P
    <2>2. QED
      BY <2>1, FS_Subset, FS_CardinalityType
  <1>3. CountUpTo(S, N) = K
    BY DEF CountUpTo, Places
  <1>4. \A i \in P : CountUpTo(S, i) = Cardinality(B(i))
    BY DEF CountUpTo
  <1>5. ASSUME NEW i \in P
        PROVE  Cardinality(B(i)) \in 1..K
    <2>1. B(i) \in SUBSET P /\ i \in B(i)
      BY <1>1 DEF Places
    <2> HIDE DEF B, P
    <2>2. IsFiniteSet(B(i)) /\ Cardinality(B(i)) <= K
      BY <1>2, <2>1, FS_Subset
    <2>3. Cardinality(B(i)) \in Nat /\ Cardinality(B(i)) # 0
      BY <2>1, <2>2, FS_CardinalityType, FS_EmptySet
    <2>4. QED
      BY <1>2, <2>2, <2>3
  <1>6. ASSUME NEW i \in P, NEW j \in P, i < j
        PROVE  Cardinality(B(i)) # Cardinality(B(j))
    <2>1. B(i) \in SUBSET B(j) /\ j \in B(j) /\ j \notin B(i) /\ B(j) \in SUBSET P
      BY <1>1, <1>6 DEF Places
    <2> HIDE DEF B, P
    <2>2. IsFiniteSet(B(j))
      BY <1>2, <2>1, FS_Subset
    <2>3. QED
      BY <2>1, <2>2, FS_Subset
  <1>7. \A i, j \in P : Cardinality(B(i)) = Cardinality(B(j)) => i = j
    <2>1. P \subseteq Nat
      BY DEF Places
    <2> HIDE DEF B, P
    <2>2. ASSUME NEW i \in P, NEW j \in P, Cardinality(B(i)) = Cardinality(B(j))
          PROVE  i = j
      <3>1. ~(i < j) /\ ~(j < i)
        BY <1>6, <2>2
      <3>2. QED
        BY <2>1, <3>1
    <2>3. QED
      BY <2>2
  <1> HIDE DEF B, P, K
  <1>8. c \in Injection(P, 1..K)
    BY <1>5, <1>7 DEF Injection, IsInjective
  <1>9. c \in Surjection(P, 1..K)
    <2>1. IsFiniteSet(1..K) /\ Cardinality(1..K) = K
      BY <1>2, FS_Interval
    <2> HIDE DEF c
    <2>2. QED
      BY <1>8, <2>1, FS_Injection DEF K
  <1>10. \A k \in 1..K : \E i \in P : Cardinality(B(i)) = k
    BY <1>9 DEF Surjection
  <1>11. QED
    BY <1>2, <1>3, <1>4, <1>5, <1>7, <1>10 DEF P

\* InDeclaredOrder lists the members of S, each once.
LEMMA InDeclaredOrderFacts ==
  ASSUME NEW S \in SUBSET Nodes
  PROVE  /\ InDeclaredOrder(S) \in Seq(Nodes)
         /\ NoneTwice(InDeclaredOrder(S))
         /\ {InDeclaredOrder(S)[i] : i \in 1..Len(InDeclaredOrder(S))} = S
  <1> DEFINE K == CountUpTo(S, Len(Declared))
             At(k) == CHOOSE i \in 1..Len(Declared) :
                          Declared[i] \in S /\ CountUpTo(S, i) = k
             q == InDeclaredOrder(S)
  <1>1. K \in Nat
    BY CountingPlaces
  <1>2. q = [k \in 1..K |-> Declared[At(k)]]
    BY DEF InDeclaredOrder
  <1>3. ASSUME NEW k \in 1..K
        PROVE  At(k) \in Places(S) /\ CountUpTo(S, At(k)) = k
    <2>1. \E i \in 1..Len(Declared) : Declared[i] \in S /\ CountUpTo(S, i) = k
      BY <1>3, CountingPlaces DEF Places
    <2>2. QED
      BY <2>1 DEF Places
  <1> HIDE DEF K, At
  <1>4. ASSUME NEW k \in 1..K
        PROVE  q[k] = Declared[At(k)] /\ q[k] \in S
    BY <1>2, <1>3, <1>4 DEF Places
  <1>5. q \in Seq(Nodes) /\ Len(q) = K
    <2>1. q \in [1..K -> Nodes]
      BY <1>2, <1>4
    <2>2. QED
      BY <1>1, <2>1
  <1>6. NoneTwice(q)
    <2>1. ASSUME NEW k \in 1..K, NEW l \in 1..K, q[k] = q[l]
          PROVE  k = l
      <3>1. /\ At(k) \in 1..Len(Declared) /\ At(l) \in 1..Len(Declared)
            /\ Declared[At(k)] = Declared[At(l)]
        BY <1>3, <1>4, <2>1 DEF Places
      <3>2. At(k) = At(l)
        BY <3>1, DeclaredFacts DEF NoneTwice
      <3>3. QED
        BY <1>3, <3>2
    <2>2. QED
      BY <1>5, <2>1 DEF NoneTwice
  <1>7. ASSUME NEW s \in S
        PROVE  \E k \in 1..K : q[k] = s
    <2>1. PICK i \in 1..Len(Declared) : Declared[i] = s
      BY DeclaredFacts
    <2>2. i \in Places(S) /\ CountUpTo(S, i) \in 1..K
      BY <2>1, CountingPlaces DEF Places, K
    <2>3. At(CountUpTo(S, i)) = i
      BY <1>3, <2>2, CountingPlaces
    <2>4. QED
      BY <1>4, <2>1, <2>2, <2>3
  <1>8. {q[i] : i \in 1..Len(q)} = S
    BY <1>4, <1>5, <1>7
  <1>9. QED
    BY <1>5, <1>6, <1>8

-----------------------------------------------------------------------------
(* The queue and the order *)

\* A node added at the end.
LEMMA AppendFacts ==
  ASSUME NEW q \in Seq(Nodes), NEW n \in Nodes
  PROVE  LET p == Append(q, n) IN
         /\ p \in Seq(Nodes) /\ Len(p) = Len(q) + 1 /\ Len(q) \in Nat
         /\ p[Len(q) + 1] = n
         /\ \A i \in 1..Len(q) : p[i] = q[i]
         /\ {p[i] : i \in 1..Len(p)} = {q[i] : i \in 1..Len(q)} \cup {n}
         /\ NoneTwice(q) /\ n \notin {q[i] : i \in 1..Len(q)} => NoneTwice(p)
  <1> DEFINE p == Append(q, n)
  <1>1. /\ p \in Seq(Nodes) /\ Len(p) = Len(q) + 1 /\ Len(q) \in Nat
        /\ p[Len(q) + 1] = n
        /\ \A i \in 1..Len(q) : p[i] = q[i]
    OBVIOUS
  <1> HIDE DEF p
  <1>2. \A i \in 1..Len(p) : i = Len(q) + 1 \/ i \in 1..Len(q)
    BY <1>1
  <1>3. {p[i] : i \in 1..Len(p)} = {q[i] : i \in 1..Len(q)} \cup {n}
    <2>1. \A i \in 1..Len(q) : i \in 1..Len(p)
      BY <1>1
    <2>2. Len(q) + 1 \in 1..Len(p)
      BY <1>1
    <2>3. QED
      BY <1>1, <1>2, <2>1, <2>2
  <1>4. NoneTwice(q) /\ n \notin {q[i] : i \in 1..Len(q)} => NoneTwice(p)
    BY <1>1, <1>2 DEF NoneTwice
  <1>5. QED
    BY <1>1, <1>3, <1>4 DEF p

\* The first node taken away.
LEMMA TailFacts ==
  ASSUME NEW q \in Seq(Nodes), q # <<>>, NoneTwice(q)
  PROVE  /\ Head(q) \in Nodes /\ Tail(q) \in Seq(Nodes) /\ NoneTwice(Tail(q))
         /\ {Tail(q)[i] : i \in 1..Len(Tail(q))}
                = {q[i] : i \in 1..Len(q)} \ {Head(q)}
         /\ Head(q) \in {q[i] : i \in 1..Len(q)}
  <1>1. /\ Len(q) \in Nat /\ Len(q) >= 1 /\ Head(q) = q[1]
        /\ Head(q) \in Nodes /\ Tail(q) \in Seq(Nodes)
        /\ Len(Tail(q)) = Len(q) - 1
    OBVIOUS
  <1>2. \A i \in 1..Len(Tail(q)) : Tail(q)[i] = q[i + 1] /\ i + 1 \in 1..Len(q)
    BY <1>1
  <1>3. ASSUME NEW i \in 1..Len(q), q[i] # Head(q)
        PROVE  i - 1 \in 1..Len(Tail(q)) /\ Tail(q)[i - 1] = q[i]
    BY <1>1, <1>3
  <1>4. ASSUME NEW i \in 1..Len(Tail(q))
        PROVE  Tail(q)[i] # Head(q)
    <2>1. i + 1 # 1 /\ 1 \in 1..Len(q)
      BY <1>1
    <2>2. QED
      BY <1>1, <1>2, <2>1 DEF NoneTwice
  <1>5. NoneTwice(Tail(q))
    <2>1. ASSUME NEW i \in 1..Len(Tail(q)), NEW j \in 1..Len(Tail(q)),
                 Tail(q)[i] = Tail(q)[j]
          PROVE  i = j
      <3>1. i + 1 = j + 1
        BY <1>2, <2>1 DEF NoneTwice
      <3>2. QED
        BY <3>1
    <2>2. QED
      BY <2>1 DEF NoneTwice
  <1>6. {Tail(q)[i] : i \in 1..Len(Tail(q))} = {q[i] : i \in 1..Len(q)} \ {Head(q)}
    BY <1>2, <1>3, <1>4
  <1>7. Head(q) \in {q[i] : i \in 1..Len(q)}
    <2>1. 1 \in 1..Len(q)
      BY <1>1
    <2>2. QED
      BY <1>1, <2>1
  <1>8. QED
    BY <1>1, <1>5, <1>6, <1>7

\* Two sequences without a common node, one after the other.
LEMMA ConcatFacts ==
  ASSUME NEW q \in Seq(Nodes), NEW p \in Seq(Nodes), NoneTwice(q), NoneTwice(p),
         {q[i] : i \in 1..Len(q)} \cap {p[i] : i \in 1..Len(p)} = {}
  PROVE  /\ q \o p \in Seq(Nodes) /\ NoneTwice(q \o p)
         /\ {(q \o p)[i] : i \in 1..Len(q \o p)}
                = {q[i] : i \in 1..Len(q)} \cup {p[i] : i \in 1..Len(p)}
  <1> DEFINE c == q \o p
  <1>1. /\ c \in Seq(Nodes) /\ Len(c) = Len(q) + Len(p)
        /\ Len(q) \in Nat /\ Len(p) \in Nat
        /\ \A i \in 1..Len(q) : c[i] = q[i]
    OBVIOUS
  <1>2. \A i \in 1..Len(p) : c[Len(q) + i] = p[i]
    OBVIOUS
  <1> HIDE DEF c
  <1>3. ASSUME NEW i \in 1..Len(c), i \notin 1..Len(q)
        PROVE  i - Len(q) \in 1..Len(p) /\ c[i] = p[i - Len(q)]
    <2>1. i - Len(q) \in 1..Len(p) /\ Len(q) + (i - Len(q)) = i
      BY <1>1, <1>3
    <2>2. QED
      BY <1>2, <2>1
  <1>4. \A i \in 1..Len(p) : Len(q) + i \in 1..Len(c)
    BY <1>1
  <1>5. \A i \in 1..Len(q) : i \in 1..Len(c)
    BY <1>1
  <1>6. {c[i] : i \in 1..Len(c)}
            = {q[i] : i \in 1..Len(q)} \cup {p[i] : i \in 1..Len(p)}
    <2>1. ASSUME NEW i \in 1..Len(c)
          PROVE  \/ \E j \in 1..Len(q) : c[i] = q[j]
                 \/ \E j \in 1..Len(p) : c[i] = p[j]
      BY <1>1, <1>3
    <2>2. ASSUME NEW j \in 1..Len(q)
          PROVE  \E i \in 1..Len(c) : c[i] = q[j]
      BY <1>1, <1>5
    <2>3. ASSUME NEW j \in 1..Len(p)
          PROVE  \E i \in 1..Len(c) : c[i] = p[j]
      BY <1>2, <1>4
    <2>4. ASSUME NEW x \in {c[i] : i \in 1..Len(c)}
          PROVE  x \in {q[i] : i \in 1..Len(q)} \cup {p[i] : i \in 1..Len(p)}
      BY <2>1
    <2>5. ASSUME NEW x \in {q[i] : i \in 1..Len(q)} \cup {p[i] : i \in 1..Len(p)}
          PROVE  x \in {c[i] : i \in 1..Len(c)}
      BY <2>2, <2>3
    <2>6. QED
      BY <2>4, <2>5
  <1>7. ASSUME NEW i \in 1..Len(c), NEW j \in 1..Len(c), c[i] = c[j]
        PROVE  i = j
    <2>1. CASE i \in 1..Len(q) /\ j \in 1..Len(q)
      BY <1>1, <1>7, <2>1 DEF NoneTwice
    <2>2. CASE i \notin 1..Len(q) /\ j \notin 1..Len(q)
      <3>1. i - Len(q) = j - Len(q)
        BY <1>3, <1>7, <2>2 DEF NoneTwice
      <3>2. QED
        BY <1>1, <3>1
    <2>3. CASE i \in 1..Len(q) /\ j \notin 1..Len(q)
      <3>1. q[i] = p[j - Len(q)] /\ j - Len(q) \in 1..Len(p)
        BY <1>1, <1>3, <1>7, <2>3
      <3>2. QED
        BY <2>3, <3>1
    <2>4. CASE i \notin 1..Len(q) /\ j \in 1..Len(q)
      <3>1. q[j] = p[i - Len(q)] /\ i - Len(q) \in 1..Len(p)
        BY <1>1, <1>3, <1>7, <2>4
      <3>2. QED
        BY <2>4, <3>1
    <2>5. QED
      BY <2>1, <2>2, <2>3, <2>4
  <1>8. QED
    BY <1>1, <1>6, <1>7 DEF c, NoneTwice

-----------------------------------------------------------------------------
(* The steps of the sort *)

\* A dependency set of a well-formed graph is a finite set of nodes.
LEMMA DepsFacts ==
  ASSUME TypeOK, ~Malformed, NEW n \in Nodes
  PROVE  deps[n] \subseteq Nodes /\ n \notin deps[n] /\ IsFiniteSet(deps[n])
  BY GraphAssumption DEF TypeOK, Malformed

\* What a node still waits for is counted by a natural number, 0 for none.
LEMMA WaitsFor ==
  ASSUME TypeOK, ~Malformed, NEW n \in Nodes, NEW D
  PROVE  /\ IsFiniteSet(deps[n] \ D) /\ Cardinality(deps[n] \ D) \in Nat
         /\ Cardinality(deps[n] \ D) = 0 <=> deps[n] \subseteq D
  <1>1. IsFiniteSet(deps[n]) /\ deps[n] \ D \in SUBSET deps[n]
    BY DepsFacts
  <1>2. IsFiniteSet(deps[n] \ D)
    BY <1>1, FS_Subset
  <1>3. QED
    BY <1>2, FS_CardinalityType, FS_EmptySet

LEMMA BeginKeeps ==
  ASSUME Inv, BeginSort
  PROVE  Inv'
  <1> DEFINE S == {n \in Nodes : Cardinality(deps[n]) = 0}
  <1>1. /\ TypeOK /\ ~Malformed /\ order = <<>>
        /\ outcome' = "sorting" /\ UNCHANGED <<deps, order>>
        /\ remaining' = [n \in Nodes |-> Cardinality(deps[n])]
        /\ ready' = InDeclaredOrder(S)
    BY DEF Inv, BeginSort
  <1>2. S \in SUBSET Nodes
    OBVIOUS
  <1>3. Waiting' = S /\ NoneTwice(ready') /\ ready' \in Seq(Nodes)
    <2> HIDE DEF S
    <2>1. QED
      BY <1>1, <1>2, InDeclaredOrderFacts DEF Waiting
  <1>4. Placed' = {}
    BY <1>1 DEF Placed
  <1>5. \A n \in Nodes : deps[n] \ {} = deps[n]
    OBVIOUS
  <1>6. \A n \in Nodes : remaining'[n] \in Nat
    BY <1>1, <1>5, WaitsFor
  <1>7. Counted'
    BY <1>1, <1>3, <1>4, <1>5 DEF Counted
  <1>8. EachOnce'
    BY <1>1, <1>3, <1>4 DEF EachOnce, NoneTwice
  <1>9. TypeOK'
    BY <1>1, <1>3, <1>6 DEF TypeOK, Outcomes
  <1>10. ~Malformed'
    BY <1>1 DEF Malformed
  <1>11. OrderRespectsDeps'
    BY <1>1 DEF OrderRespectsDeps
  <1>12. QED
    BY <1>1, <1>7, <1>8, <1>9, <1>10, <1>11 DEF Inv

LEMMA TakeKeeps ==
  ASSUME Inv, TakeNode
  PROVE  Inv'
  <1> DEFINE h == Head(ready)
             F == Freed(h)
             G == InDeclaredOrder(F)
  <1>1. /\ TypeOK /\ ~Malformed /\ Counted /\ EachOnce /\ OrderRespectsDeps
        /\ outcome = "sorting" /\ ready # <<>>
    BY DEF Inv, TakeNode
  <1>2. /\ order' = Append(order, h)
        /\ remaining' = [n \in Nodes |-> IF h \in deps[n]
                                         THEN remaining[n] - 1 ELSE remaining[n]]
        /\ ready' = Tail(ready) \o G
        /\ UNCHANGED <<deps, outcome>>
    BY DEF TakeNode
  <1>3. ready \in Seq(Nodes) /\ order \in Seq(Nodes)
    BY <1>1 DEF TypeOK
  <1>4. /\ h \in Nodes /\ h \in Waiting /\ h \notin Placed
        /\ Tail(ready) \in Seq(Nodes) /\ NoneTwice(Tail(ready))
        /\ {Tail(ready)[i] : i \in 1..Len(Tail(ready))} = Waiting \ {h}
    <2>1. NoneTwice(ready) /\ Placed \cap Waiting = {}
      BY <1>1 DEF EachOnce
    <2>2. QED
      BY <1>1, <1>3, <2>1, TailFacts DEF Waiting
  <1>5. /\ F \subseteq Nodes
        /\ \A n \in Nodes : n \in F <=> h \in deps[n] /\ remaining[n] = 1
    BY DEF Freed
  <1> HIDE DEF h, F
  <1>6. F \cap (Placed \cup Waiting) = {}
    <2>1. ASSUME NEW n \in F
          PROVE  n \notin Placed \cup Waiting
      <3>1. n \in Nodes /\ remaining[n] # 0
        BY <1>5
      <3>2. QED
        BY <1>1, <3>1 DEF Counted
    <2>2. QED
      BY <2>1
  <1>7. G \in Seq(Nodes) /\ NoneTwice(G) /\ {G[i] : i \in 1..Len(G)} = F
    BY <1>5, InDeclaredOrderFacts
  <1> HIDE DEF G
  <1>8. /\ ready' \in Seq(Nodes) /\ NoneTwice(ready')
        /\ Waiting' = (Waiting \ {h}) \cup F
    <2>1. {Tail(ready)[i] : i \in 1..Len(Tail(ready))}
              \cap {G[i] : i \in 1..Len(G)} = {}
      BY <1>4, <1>6, <1>7
    <2>2. /\ Tail(ready) \o G \in Seq(Nodes) /\ NoneTwice(Tail(ready) \o G)
          /\ {(Tail(ready) \o G)[i] : i \in 1..Len(Tail(ready) \o G)}
                 = {Tail(ready)[i] : i \in 1..Len(Tail(ready))}
                       \cup {G[i] : i \in 1..Len(G)}
      BY <1>4, <1>7, <2>1, ConcatFacts
    <2>3. Waiting' = {ready'[i] : i \in 1..Len(ready')}
      BY DEF Waiting
    <2>4. QED
      BY <1>2, <1>4, <1>7, <2>2, <2>3
  <1>9. /\ order' \in Seq(Nodes) /\ NoneTwice(order')
        /\ Placed' = Placed \cup {h}
        /\ Len(order') = Len(order) + 1 /\ Len(order) \in Nat
        /\ order'[Len(order) + 1] = h
        /\ \A i \in 1..Len(order) : order'[i] = order[i]
    BY <1>1, <1>2, <1>3, <1>4, AppendFacts DEF Placed, EachOnce
  <1>10. EachOnce'
    BY <1>1, <1>4, <1>6, <1>8, <1>9 DEF EachOnce
  <1>11. ASSUME NEW n \in Nodes
         PROVE  /\ remaining'[n] \in Nat
                /\ remaining'[n] = Cardinality(deps'[n] \ Placed')
                /\ remaining'[n] = 0 <=> n \in Placed' \cup Waiting'
    <2>1. /\ remaining[n] = Cardinality(deps[n] \ Placed)
          /\ remaining[n] = 0 <=> n \in Placed \cup Waiting
          /\ remaining[n] \in Nat
      BY <1>1 DEF Counted, TypeOK
    <2>2. IsFiniteSet(deps[n] \ Placed)
          /\ (remaining[n] = 0 <=> deps[n] \subseteq Placed)
      BY <1>1, <2>1, WaitsFor
    <2>3. deps'[n] \ Placed' = (deps[n] \ Placed) \ {h}
      BY <1>2, <1>9
    <2>4. CASE h \in deps[n]
      <3>1. remaining'[n] = remaining[n] - 1
        BY <1>2, <2>4
      <3>2. Cardinality(deps'[n] \ Placed') = Cardinality(deps[n] \ Placed) - 1
        BY <1>4, <2>2, <2>3, <2>4, FS_RemoveElement
      <3>3. remaining[n] # 0
        BY <1>4, <2>2, <2>4
      <3>4. n # h
        BY <1>1, <1>4, <2>4, DepsFacts
      <3>5. remaining'[n] = 0 <=> n \in F
        BY <1>5, <2>1, <2>4, <3>1
      <3>6. n \in Placed' \cup Waiting' <=> n \in F
        BY <1>8, <1>9, <2>1, <3>3, <3>4
      <3>7. remaining'[n] \in Nat
        BY <2>1, <3>1, <3>3
      <3>8. QED
        BY <2>1, <3>1, <3>2, <3>5, <3>6, <3>7
    <2>5. CASE h \notin deps[n]
      <3>1. remaining'[n] = remaining[n] /\ n \notin F
        BY <1>2, <1>5, <2>5
      <3>2. deps'[n] \ Placed' = deps[n] \ Placed
        BY <2>3, <2>5
      <3>3. n \in Placed' \cup Waiting' <=> n \in Placed \cup Waiting
        BY <1>4, <1>8, <1>9, <3>1
      <3>4. QED
        BY <2>1, <3>1, <3>2, <3>3
    <2>6. QED
      BY <2>4, <2>5
  <1>12. Counted'
    BY <1>11 DEF Counted
  <1>13. TypeOK'
    <2>1. remaining' \in [Nodes -> Nat]
      BY <1>2, <1>11
    <2>2. QED
      BY <1>1, <1>2, <1>8, <1>9, <2>1 DEF TypeOK
  <1>14. OrderRespectsDeps'
    <2>1. ASSUME NEW i \in 1..Len(order'), NEW d \in deps'[order'[i]]
          PROVE  \E j \in 1..(i - 1) : order'[j] = d
      <3>1. CASE i \in 1..Len(order)
        <4>1. d \in deps[order[i]]
          BY <1>2, <1>9, <2>1, <3>1
        <4>2. PICK j \in 1..(i - 1) : order[j] = d
          BY <1>1, <3>1, <4>1 DEF OrderRespectsDeps
        <4>3. j \in 1..Len(order)
          BY <1>9, <3>1, <4>2
        <4>4. QED
          BY <1>9, <4>2, <4>3
      <3>2. CASE i = Len(order) + 1
        <4>1. d \in deps[h]
          BY <1>2, <1>9, <2>1, <3>2
        <4>2. deps[h] \subseteq Placed
          <5>1. remaining[h] = 0 /\ remaining[h] = Cardinality(deps[h] \ Placed)
            BY <1>1, <1>4 DEF Counted
          <5>2. QED
            BY <1>1, <1>4, <5>1, WaitsFor
        <4>3. PICK j \in 1..Len(order) : order[j] = d
          BY <4>1, <4>2 DEF Placed
        <4>4. j \in 1..(i - 1) /\ order'[j] = d
          BY <1>9, <3>2, <4>3
        <4>5. QED
          BY <4>4
      <3>3. QED
        BY <1>9, <3>1, <3>2
    <2>2. QED
      BY <2>1 DEF OrderRespectsDeps
  <1>15. ~Malformed'
    BY <1>1, <1>2 DEF Malformed
  <1>16. QED
    BY <1>1, <1>2, <1>10, <1>12, <1>13, <1>14, <1>15 DEF Inv

\* The graph, the counts and the sequences stay.
LEMMA SameParts ==
  ASSUME TypeOK, OrderRespectsDeps, UNCHANGED <<deps, remaining, ready, order>>,
         outcome' \in Outcomes
  PROVE  /\ TypeOK' /\ OrderRespectsDeps'
         /\ Malformed' <=> Malformed
         /\ Counted => Counted'
         /\ EachOnce => EachOnce'
  <1>1. Placed' = Placed /\ Waiting' = Waiting
    BY DEF Placed, Waiting
  <1>2. TypeOK' /\ OrderRespectsDeps' /\ (Malformed' <=> Malformed)
    BY DEF TypeOK, OrderRespectsDeps, Malformed
  <1>3. QED
    BY <1>1, <1>2 DEF Counted, EachOnce, NoneTwice

LEMMA InvNext == Inv /\ [Next]_vars => Inv'
  <1> SUFFICES ASSUME Inv, [Next]_vars PROVE Inv'
    OBVIOUS
  <1>1. TypeOK /\ OrderRespectsDeps
    BY DEF Inv
  <1>2. CASE UNCHANGED vars
    <2>1. UNCHANGED <<deps, remaining, ready, order, outcome>>
      BY <1>2 DEF vars
    <2>2. outcome' \in Outcomes
      BY <1>1, <2>1 DEF TypeOK
    <2>3. QED
      BY <1>1, <2>1, <2>2, SameParts DEF Inv
  <1>3. CASE RejectSpec
    <2>1. /\ outcome = "new" /\ outcome' = "invalid"
          /\ UNCHANGED <<deps, remaining, ready, order>>
      BY <1>3 DEF RejectSpec
    <2>2. outcome' \in Outcomes
      BY <2>1 DEF Outcomes
    <2>3. QED
      BY <1>1, <2>1, <2>2, SameParts DEF Inv
  <1>4. CASE EndSort
    <2>1. /\ outcome = "sorting" /\ ready = <<>>
          /\ UNCHANGED <<deps, remaining, ready, order>>
          /\ outcome' \in {"sorted", "cycle"}
          /\ outcome' = "sorted" <=> Len(order) = Len(Declared)
      BY <1>4 DEF EndSort, Verdict
    <2>2. outcome' \in Outcomes
      BY <2>1 DEF Outcomes
    <2>3. ~Malformed /\ Counted /\ EachOnce
      BY <2>1 DEF Inv
    <2>4. QED
      BY <1>1, <2>1, <2>2, <2>3, SameParts DEF Inv
  <1>5. QED
    BY <1>2, <1>3, <1>4, BeginKeeps, TakeKeeps DEF Next

LEMMA InvAlways == Spec => []Inv
  <1>1. Init => Inv
    BY DEF Init, Inv, TypeOK, OrderRespectsDeps, Outcomes
  <1>2. QED
    BY <1>1, InvNext, PTL DEF Spec

-----------------------------------------------------------------------------
(* The properties *)

\* Every step comes after all it depends on, for every workflow and at every
\* iteration of the while loop of topological_order.
THEOREM OrderIsTopological == Spec => []OrderRespectsDeps
  BY InvAlways, PTL DEF Inv

\* The order lists the placed nodes once, so it is complete when it is as
\* long as the declaration.
LEMMA CompleteOrder ==
  ASSUME TypeOK, NoneTwice(order)
  PROVE  Len(order) = Len(Declared) <=> Placed = Nodes
  <1> DEFINE M == Len(order)
  <1>1. M \in Nat /\ order \in [1..M -> Nodes]
    BY DEF TypeOK
  <1>2. order \in Injection(1..M, Nodes)
    BY <1>1 DEF NoneTwice, Injection, IsInjective
  <1>3. Cardinality(1..M) = M
    BY <1>1, FS_Interval
  <1>4. M = Len(Declared) <=> order \in Surjection(1..M, Nodes)
    BY <1>2, <1>3, NodesFinite, FS_Injection
  <1>5. order \in Surjection(1..M, Nodes) <=> Placed = Nodes
    BY <1>1 DEF Surjection, Placed
  <1>6. QED
    BY <1>4, <1>5

\* What WorkflowEngine.run is given to execute: every step once, each after
\* all it depends on.  This is what AutomationEngine assumes of Order.
THEOREM SortedIsAnExecutionOrder ==
  Spec => [](outcome = "sorted" =>
                /\ order \in Seq(Nodes)
                /\ \A n \in Nodes : \E i \in 1..Len(order) : order[i] = n
                /\ \A i, j \in 1..Len(order) : order[i] = order[j] => i = j
                /\ \A i \in 1..Len(order) : \A d \in deps[order[i]] :
                       \E j \in 1..(i - 1) : order[j] = d)
  <1>1. ASSUME Inv, outcome = "sorted"
        PROVE  /\ order \in Seq(Nodes)
               /\ \A n \in Nodes : \E i \in 1..Len(order) : order[i] = n
               /\ \A i, j \in 1..Len(order) : order[i] = order[j] => i = j
               /\ \A i \in 1..Len(order) : \A d \in deps[order[i]] :
                      \E j \in 1..(i - 1) : order[j] = d
    <2>1. TypeOK /\ NoneTwice(order) /\ OrderRespectsDeps
      BY <1>1 DEF Inv, EachOnce
    <2>2. Placed = Nodes
      BY <1>1, <2>1, CompleteOrder DEF Inv
    <2>3. \A n \in Nodes : \E i \in 1..Len(order) : order[i] = n
      BY <2>2 DEF Placed
    <2>4. QED
      BY <2>1, <2>3 DEF TypeOK, NoneTwice, OrderRespectsDeps
  <1>2. QED
    BY <1>1, InvAlways, PTL

NatLess == {ss \in Nat \X Nat : ss[1] < ss[2]}

\* In a complete order no set of nodes waits in a circle: its first member
\* would wait for an earlier one.
LEMMA SortedHasNoCircle ==
  ASSUME OrderRespectsDeps, Placed = Nodes, NEW S \in SUBSET Nodes, Circular(S)
  PROVE  FALSE
  <1> DEFINE T == {i \in 1..Len(order) : order[i] \in S}
  <1>1. T # {}
    BY DEF Circular, Placed
  <1>2. T \subseteq Nat
    OBVIOUS
  <1>3. IsWellFoundedOn(NatLess, Nat)
    BY NatLessThanWellFounded, Zenon DEF OpToRel, NatLess
  <1>4. PICK i \in T : \A j \in T : ~(<<j, i>> \in NatLess)
    <2> HIDE DEF T
    <2>1. QED
      BY <1>1, <1>2, <1>3, WFMin
  <1>5. PICK d \in deps[order[i]] : d \in S
    BY <1>4 DEF Circular
  <1>6. PICK j \in 1..(i - 1) : order[j] = d
    BY <1>4, <1>5 DEF OrderRespectsDeps
  <1>7. j \in T /\ j < i
    BY <1>4, <1>5, <1>6
  <1>8. QED
    BY <1>2, <1>4, <1>7 DEF NatLess

\* When nobody is ready any more, the nodes left out wait for each other.
LEMMA LeftOverIsCircular ==
  ASSUME TypeOK, ~Malformed, Counted, ready = <<>>, Placed # Nodes
  PROVE  Circular(Nodes \ Placed)
  <1>1. Placed \subseteq Nodes
    BY DEF TypeOK, Placed
  <1>2. Nodes \ Placed # {}
    BY <1>1
  <1>3. ASSUME NEW n \in Nodes \ Placed
        PROVE  deps[n] \cap (Nodes \ Placed) # {}
    <2>1. n \notin Placed \cup Waiting
      BY <1>3 DEF Waiting
    <2>2. ~(deps[n] \subseteq Placed)
      BY <2>1, WaitsFor DEF Counted
    <2>3. QED
      BY <2>2, DepsFacts
  <1>4. QED
    BY <1>2, <1>3 DEF Circular

\* topological_order reports a cycle exactly when some steps wait for each
\* other in a circle, for every workflow.
THEOREM VerdictIsRight == Spec => []VerdictIsExact
  <1>1. ASSUME Inv PROVE VerdictIsExact
    <2>1. ASSUME outcome = "sorted", NEW S \in SUBSET Nodes PROVE ~Circular(S)
      BY <1>1, <2>1, CompleteOrder, SortedHasNoCircle DEF Inv, EachOnce
    <2>2. ASSUME outcome = "cycle" PROVE \E S \in SUBSET Nodes : Circular(S)
      <3>1. Circular(Nodes \ Placed)
        BY <1>1, <2>2, CompleteOrder, LeftOverIsCircular DEF Inv, EachOnce
      <3>2. QED
        BY <3>1
    <2>3. QED
      BY <2>1, <2>2 DEF VerdictIsExact
  <1>2. QED
    BY <1>1, InvAlways, PTL
=============================================================================
