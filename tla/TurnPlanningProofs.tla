-------------------------- MODULE TurnPlanningProofs --------------------------
(***************************************************************************)
(* Theorems about TurnPlanning, TurnResources and TurnExecution, for every *)
(* set of published models, every message, every answer of the hybrid      *)
(* planner, every library of resources and whatever the session holds of   *)
(* files.                                                                  *)
(***************************************************************************)
EXTENDS TurnExecution, TLAPS, FiniteSetTheorems, SequenceTheorems, WellFoundedInduction

----------------------------------------------------------------------------
(* Positions.                                                              *)
\* A set of positions has a first one.
LEMMA FirstPosition ==
  ASSUME NEW I \in SUBSET Nat, I # {}
  PROVE  \E i \in I : \A j \in I : i <= j
<1> DEFINE R == StrictSubsetOrdering(Nat)
           T == {0 .. i : i \in I}
<1>1. T \subseteq FiniteSubsetsOf(Nat) /\ T # {}
  <2>1. \A i \in Nat : 0 .. i \subseteq Nat /\ IsFiniteSet(0 .. i)
    BY FS_Interval
  <2> QED
    BY <2>1 DEF FiniteSubsetsOf
<1>2. PICK X \in T : \A Y \in T : <<Y, X>> \notin R
  BY <1>1, FS_StrictSubsetOrderingWellFounded, WFMin
<1>3. PICK i \in I : X = 0 .. i
  BY <1>2
<1>4. \A j \in I : i <= j
  <2> SUFFICES ASSUME NEW j \in I, j < i PROVE FALSE
    OBVIOUS
  <2>1. 0 .. j \in T /\ 0 .. j \subseteq 0 .. i /\ 0 .. j # 0 .. i /\ 0 .. i \subseteq Nat
    <3>1. i \in 0 .. i /\ i \notin 0 .. j
      OBVIOUS
    <3> QED
      BY <3>1
  <2> QED
    BY <1>2, <1>3, <2>1 DEF StrictSubsetOrdering
<1> QED
  BY <1>4

\* FirstAt is the element at the first of the positions.
LEMMA FirstAtPosition ==
  ASSUME NEW s, NEW I \in SUBSET Nat, NEW other
  PROVE  IF I = {} THEN FirstAt(s, I, other) = other
         ELSE \E i \in I : FirstAt(s, I, other) = s[i] /\ \A j \in I : i <= j
  BY FirstPosition DEF FirstAt

----------------------------------------------------------------------------
(* Sorting the elements at some positions by a key.                        *)
Keyed(I, key) == I \in SUBSET Nat /\ IsFiniteSet(I) /\ \A i \in I : key[i] \in Int

\* The order of the positions is a strict total one.
LEMMA PrecedesOrders ==
  ASSUME NEW I, NEW key, Keyed(I, key), NEW i \in I, NEW j \in I, NEW k \in I
  PROVE  /\ ~Precedes(key, i, i)
         /\ Precedes(key, i, j) /\ Precedes(key, j, k) => Precedes(key, i, k)
         /\ i = j \/ Precedes(key, i, j) \/ Precedes(key, j, i)
<1>1. \A n \in I : key[n] \in Int /\ n \in Int
  BY DEF Keyed
<1> QED
  BY <1>1 DEF Precedes

\* An earlier position has a lower rank.
LEMMA RanksGrow ==
  ASSUME NEW I, NEW key, Keyed(I, key), NEW i \in I, NEW j \in I, Precedes(key, i, j)
  PROVE  Rank(I, key, i) < Rank(I, key, j)
<1> DEFINE A == {k \in I : Precedes(key, k, i)}
           B == {k \in I : Precedes(key, k, j)}
<1>1. A \subseteq B /\ i \in B /\ i \notin A
  BY PrecedesOrders
<1>2. IsFiniteSet(B) /\ Cardinality(B) \in Nat /\ Cardinality(A) \in Nat
  BY FS_Subset, FS_CardinalityType, <1>1 DEF Keyed
<1>3. Cardinality(A) <= Cardinality(B) /\ Cardinality(A) # Cardinality(B)
  BY <1>1, <1>2, FS_Subset
<1> QED
  BY <1>2, <1>3 DEF Rank

\* A rank counts other positions.
LEMMA RankRange ==
  ASSUME NEW I, NEW key, Keyed(I, key), NEW i \in I
  PROVE  /\ Cardinality(I) \in Nat
         /\ Rank(I, key, i) \in 0 .. Cardinality(I) - 1
<1> DEFINE A == {k \in I : Precedes(key, k, i)}
<1>1. A \subseteq I /\ i \notin A
  BY PrecedesOrders
<1>2. Cardinality(I) \in Nat /\ Cardinality(A) \in Nat
  BY FS_Subset, FS_CardinalityType DEF Keyed
<1>3. Cardinality(A) <= Cardinality(I) /\ Cardinality(A) # Cardinality(I)
  BY <1>1, <1>2, FS_Subset DEF Keyed
<1> QED
  BY <1>2, <1>3 DEF Rank

\* Two positions have two ranks.
LEMMA SameRank ==
  ASSUME NEW I, NEW key, Keyed(I, key), NEW i \in I, NEW j \in I,
         Rank(I, key, i) = Rank(I, key, j)
  PROVE  i = j
<1> SUFFICES ASSUME i # j PROVE FALSE
  OBVIOUS
<1>1. Precedes(key, i, j) \/ Precedes(key, j, i)
  BY PrecedesOrders
<1>2. Rank(I, key, i) \in Int /\ Rank(I, key, j) \in Int
  BY RankRange
<1> QED
  BY <1>1, <1>2, RanksGrow

\* Every rank below the number of positions is the rank of one of them.
LEMMA EveryRankIsTaken ==
  ASSUME NEW I, NEW key, Keyed(I, key), NEW k \in 1 .. Cardinality(I)
  PROVE  \E i \in I : Rank(I, key, i) = k - 1
<1> DEFINE n == Cardinality(I)
           T == 0 .. n - 1
           f == [i \in I |-> Rank(I, key, i)]
<1>1. n \in Nat
  BY FS_CardinalityType DEF Keyed
<1> HIDE DEF n
<1>2. IsFiniteSet(T) /\ Cardinality(T) = n
  <2>1. n - 1 \in Int
    BY <1>1
  <2>2. IsFiniteSet(T) /\ Cardinality(T) = IF 0 > n - 1 THEN 0 ELSE n - 1 - 0 + 1
    BY <2>1, FS_Interval
  <2> QED
    BY <1>1, <2>2
<1>3. \A i, j \in I : Rank(I, key, i) = Rank(I, key, j) => i = j
  BY SameRank
<1>a. f \in [I -> T]
  BY RankRange DEF n
<1>4. f \in Injection(I, T)
  BY <1>3, <1>a DEF Injection, IsInjective
<1>5. f \in Surjection(I, T)
  BY <1>2, <1>4, FS_Injection DEF Keyed, n
<1>6. k - 1 \in T
  BY <1>1 DEF n
<1> QED
  BY <1>5, <1>6 DEF Surjection

\* Sorting permutes the elements: every position gives its element to one place, its rank.
LEMMA SortedElements ==
  ASSUME NEW e, NEW I, NEW key, Keyed(I, key)
  PROVE  LET s == Sorted(e, I, key)
             n == Cardinality(I)
         IN  /\ n \in Nat /\ DOMAIN s = 1 .. n
             /\ \A k \in 1 .. n : \E i \in I : s[k] = e[i] /\ Rank(I, key, i) = k - 1
             /\ \A i \in I : s[Rank(I, key, i) + 1] = e[i]
<1> DEFINE s == Sorted(e, I, key)
           n == Cardinality(I)
           At(k) == CHOOSE i \in I : Rank(I, key, i) = k - 1
<1>1. n \in Nat
  BY FS_CardinalityType DEF Keyed
<1>2. \A k \in 1 .. n : At(k) \in I /\ Rank(I, key, At(k)) = k - 1
  BY EveryRankIsTaken
<1>3. DOMAIN s = 1 .. n /\ \A k \in 1 .. n : s[k] = e[At(k)]
  BY DEF Sorted
<1>4. \A i, j \in I : Rank(I, key, i) = Rank(I, key, j) => i = j
  BY SameRank
<1>5. ASSUME NEW i \in I PROVE s[Rank(I, key, i) + 1] = e[i]
  <2> DEFINE k == Rank(I, key, i) + 1
  <2>1. k \in 1 .. n /\ k - 1 = Rank(I, key, i)
    BY <1>1, RankRange
  <2>2. At(k) \in I /\ Rank(I, key, At(k)) = Rank(I, key, i)
    BY <1>2, <2>1
  <2>3. At(k) = i
    BY <1>4, <2>2
  <2> QED
    BY <1>3, <2>1, <2>3
<1> QED
  BY <1>1, <1>2, <1>3, <1>5

\* A list's positions, and what is at them.
LEMMA ListFacts ==
  ASSUME NEW s, List(s)
  PROVE  /\ Len(s) \in Nat /\ DOMAIN s = 1 .. Len(s) /\ DOMAIN s \subseteq Nat
         /\ \A i \in DOMAIN s : s[i] \in ToSet(s)
         /\ s # <<>> => 1 \in DOMAIN s
<1>1. s \in Seq(ToSet(s))
  BY DEF List
<1>2. Len(s) \in Nat /\ DOMAIN s = 1 .. Len(s)
  BY <1>1
<1>3. \A i \in DOMAIN s : s[i] \in ToSet(s)
  BY DEF ToSet
<1>4. s # <<>> => Len(s) # 0
  BY <1>1, EmptySeq
<1> QED
  BY <1>2, <1>3, <1>4

\* The sorted elements are a list of those at the positions that were sorted.
LEMMA SortedIsList ==
  ASSUME NEW e, NEW I, NEW key, Keyed(I, key)
  PROVE  LET s == Sorted(e, I, key)
         IN  /\ List(s) /\ DOMAIN s \subseteq Nat
             /\ \A i \in I : \E k \in DOMAIN s : s[k] = e[i]
             /\ \A k \in DOMAIN s : \E i \in I : s[k] = e[i]
             /\ I # {} <=> s # <<>>
             /\ s # <<>> => 1 \in DOMAIN s
<1> DEFINE s == Sorted(e, I, key)
           n == Cardinality(I)
           S == {e[i] : i \in I}
<1>1. n \in Nat /\ DOMAIN s = 1 .. n /\ \A k \in 1 .. n : \E i \in I : s[k] = e[i]
  BY SortedElements
<1>2. s = [k \in 1 .. n |-> s[k]]
  BY DEF Sorted
<1> HIDE DEF s
<1>3. s \in Seq(S) /\ Len(s) = n
  BY <1>1, <1>2
<1>4. s = <<>> <=> n = 0
  BY <1>3, EmptySeq
<1>5. I = {} <=> n = 0
  BY FS_EmptySet DEF Keyed
<1>6. List(s)
  <2>1. \A k \in 1 .. n : s[k] \in ToSet(s)
    BY <1>1 DEF ToSet
  <2> QED
    BY <1>1, <1>2, <2>1 DEF List
<1>7. \A i \in I : \E k \in DOMAIN s : s[k] = e[i]
  <2> SUFFICES ASSUME NEW i \in I PROVE \E k \in DOMAIN s : s[k] = e[i]
    OBVIOUS
  <2>1. s[Rank(I, key, i) + 1] = e[i]
    BY SortedElements DEF s
  <2>2. Rank(I, key, i) + 1 \in 1 .. n
    BY <1>1, RankRange
  <2> QED
    BY <1>1, <2>1, <2>2
<1> QED
  BY <1>1, <1>4, <1>5, <1>6, <1>7 DEF s

\* The first of the sorted elements is the one no other precedes.
LEMMA SortedBegins ==
  ASSUME NEW e, NEW I, NEW key, Keyed(I, key), I # {}
  PROVE  /\ \E i \in I : /\ Sorted(e, I, key)[1] = e[i]
                         /\ \A j \in I : ~Precedes(key, j, i)
         /\ \A i \in I : (\A j \in I : ~Precedes(key, j, i)) => Sorted(e, I, key)[1] = e[i]
<1> DEFINE s == Sorted(e, I, key)
           Earlier(i) == {j \in I : Precedes(key, j, i)}
<1>1. 1 \in 1 .. Cardinality(I) /\ DOMAIN s = 1 .. Cardinality(I)
  <2>1. Cardinality(I) \in Nat /\ Cardinality(I) # 0
    BY FS_EmptySet, FS_CardinalityType DEF Keyed
  <2> QED
    BY <2>1, SortedElements
<1>2. \A i \in I : IsFiniteSet(Earlier(i)) /\ Rank(I, key, i) = Cardinality(Earlier(i))
  BY FS_Subset DEF Keyed, Rank
<1>3. PICK i \in I : s[1] = e[i] /\ Rank(I, key, i) = 1 - 1
  BY <1>1, SortedElements
<1>4. Earlier(i) = {}
  <2>1. IsFiniteSet(Earlier(i)) /\ Cardinality(Earlier(i)) = 0
    BY <1>2, <1>3
  <2> HIDE DEF Earlier
  <2> QED
    BY <2>1, FS_EmptySet
<1>5. ASSUME NEW k \in I, \A j \in I : ~Precedes(key, j, k) PROVE s[1] = e[k]
  <2>1. Earlier(k) = {}
    BY <1>5
  <2>2. Rank(I, key, k) = 0
    BY <1>2, <2>1, FS_EmptySet
  <2>3. s[Rank(I, key, k) + 1] = e[k]
    BY SortedElements
  <2> QED
    BY <2>2, <2>3
<1> QED
  BY <1>3, <1>4, <1>5

----------------------------------------------------------------------------
(* Sorting steps by their order.                                           *)
Sortable(steps, I) == /\ I \in SUBSET Nat /\ IsFiniteSet(I)
                      /\ \A i \in I : steps[i].order \in Int
OrderKey(steps, I) == [i \in I |-> SortKey(steps[i])]

\* The order of a step is a key.
LEMMA OrderIsKey ==
  ASSUME NEW steps, NEW I, Sortable(steps, I)
  PROVE  Keyed(I, OrderKey(steps, I)) /\ ByOrder(steps, I) = Sorted(steps, I, OrderKey(steps, I))
<1>1. \A i \in I : SortKey(steps[i]) \in Int
  BY DEF Sortable, SortKey
<1>2. \A i \in I : OrderKey(steps, I)[i] \in Int
  BY <1>1 DEF OrderKey
<1> QED
  BY <1>2 DEF Sortable, Keyed, ByOrder, OrderKey

\* The sorted steps are the steps at the positions that were sorted.
LEMMA SortedList ==
  ASSUME NEW steps, NEW I, Sortable(steps, I)
  PROVE  LET s == ByOrder(steps, I)
         IN  /\ DOMAIN s = 1 .. Cardinality(I) /\ DOMAIN s \subseteq Nat /\ Cardinality(I) \in Nat
             /\ \A k \in DOMAIN s : \E i \in I : s[k] = steps[i]
             /\ I # {} <=> s # <<>>
             /\ s # <<>> => 1 \in DOMAIN s
<1> DEFINE key == OrderKey(steps, I)
<1>1. Keyed(I, key) /\ ByOrder(steps, I) = Sorted(steps, I, key)
  BY OrderIsKey
<1> HIDE DEF key
<1>2. LET s == Sorted(steps, I, key)
      IN  /\ DOMAIN s = 1 .. Cardinality(I) /\ DOMAIN s \subseteq Nat /\ Cardinality(I) \in Nat
          /\ \A k \in DOMAIN s : \E i \in I : s[k] = steps[i]
          /\ I # {} <=> s # <<>>
          /\ s # <<>> => 1 \in DOMAIN s
  <2>1. \A k \in DOMAIN Sorted(steps, I, key) : \E i \in I : Sorted(steps, I, key)[k] = steps[i]
    BY <1>1, SortedIsList
  <2> QED
    BY <1>1, <2>1, SortedElements, SortedIsList
<1> QED
  BY <1>1, <1>2

\* The first of the sorted steps is the one no other precedes.
LEMMA SortedFirst ==
  ASSUME NEW steps, NEW I, Sortable(steps, I), I # {}
  PROVE  LET key == OrderKey(steps, I)
         IN  /\ \E i \in I : ByOrder(steps, I)[1] = steps[i] /\ \A j \in I : ~Precedes(key, j, i)
             /\ \A i \in I : (\A j \in I : ~Precedes(key, j, i)) => ByOrder(steps, I)[1] = steps[i]
<1> DEFINE key == OrderKey(steps, I)
<1>1. Keyed(I, key) /\ ByOrder(steps, I) = Sorted(steps, I, key)
  BY OrderIsKey
<1> HIDE DEF key
<1>2. /\ \E i \in I : Sorted(steps, I, key)[1] = steps[i] /\ \A j \in I : ~Precedes(key, j, i)
      /\ \A i \in I : (\A j \in I : ~Precedes(key, j, i)) => Sorted(steps, I, key)[1] = steps[i]
  BY <1>1, SortedBegins
<1> QED
  BY <1>1, <1>2 DEF key

----------------------------------------------------------------------------
(* What the planner looks up in a compiled model.                          *)
\* A step definition of the model.
IsDef(m, d) == \E i \in DOMAIN m.steps : d = m.steps[i]

\* What a published model is.
Regular(m) == Compiled(m)

\* The lists of a compiled model.
LEMMA CompiledLists ==
  ASSUME NEW m, Regular(m)
  PROVE  /\ List(m.workflows) /\ List(m.procedures) /\ List(m.steps) /\ List(m.blocks)
         /\ List(m.gateRules) /\ List(m.roles)
  BY DEF Regular, Compiled

\* What is known of a step definition; its identifier finds it.
LEMMA StepDefinitions ==
  ASSUME NEW m, Regular(m), NEW d, IsDef(m, d)
  PROVE  /\ d.id # None /\ d.order \in Int
         /\ d.bundled # <<>> => d.mode = "bundled"
         /\ <<d.id, d.order>> \in Numbers(m)
         /\ StepDefinition(m, d.id) = d
<1>1. PICK i \in DOMAIN m.steps : d = m.steps[i]
  BY DEF IsDef
<1>2. List(m.steps) /\ d \in ToSet(m.steps)
  BY <1>1, CompiledLists, ListFacts
<1>3. d.id # None /\ d.order \in Int /\ (d.bundled # <<>> => d.mode = "bundled")
  BY <1>2 DEF Regular, Compiled
<1>4. <<d.id, d.order>> \in Numbers(m)
  BY <1>2 DEF Numbers
<1>5. StepDefinition(m, d.id) = d
  <2> DEFINE I == {j \in DOMAIN m.steps : m.steps[j].id = d.id /\ d.id # None}
  <2>1. I = {i} /\ I \in SUBSET Nat
    BY <1>1, <1>2, <1>3, ListFacts DEF Regular, Compiled
  <2>2. StepDefinition(m, d.id) = FirstAt(m.steps, I, NoStepDef)
    BY DEF StepDefinition, FirstOr
  <2> HIDE DEF I
  <2> QED
    BY <1>1, <2>1, <2>2, FirstAtPosition
<1> QED
  BY <1>3, <1>4, <1>5

\* A step definition that is found has the identifier looked for.
LEMMA StepDefinitionFound ==
  ASSUME NEW m, Regular(m), NEW id
  PROVE  LET d == StepDefinition(m, id)
         IN  d = NoStepDef \/ (IsDef(m, d) /\ d.id = id /\ id # None)
<1> DEFINE I == {j \in DOMAIN m.steps : m.steps[j].id = id /\ id # None}
<1>1. I \in SUBSET Nat
  BY CompiledLists, ListFacts
<1>2. StepDefinition(m, id) = FirstAt(m.steps, I, NoStepDef)
  BY DEF StepDefinition, FirstOr
<1> HIDE DEF I
<1>3. StepDefinition(m, id) = NoStepDef \/ \E j \in I : StepDefinition(m, id) = m.steps[j]
  BY <1>1, <1>2, FirstAtPosition
<1> QED
  BY <1>3 DEF IsDef, I

\* A block that is found has the identifier looked for.
LEMMA ServiceBlockFound ==
  ASSUME NEW m, Regular(m), NEW id
  PROVE  LET b == ServiceBlock(m, id)
         IN  b = NoBlock \/ (b.id = id /\ id # None)
<1> DEFINE I == {j \in DOMAIN m.blocks : m.blocks[j].id = id /\ id # None}
<1>1. I \in SUBSET Nat
  BY CompiledLists, ListFacts
<1>2. ServiceBlock(m, id) = FirstAt(m.blocks, I, NoBlock)
  BY DEF ServiceBlock, FirstOr
<1> HIDE DEF I
<1>3. ServiceBlock(m, id) = NoBlock \/ \E j \in I : ServiceBlock(m, id) = m.blocks[j]
  BY <1>1, <1>2, FirstAtPosition
<1> QED
  BY <1>3 DEF I

\* The steps of a procedure are step definitions, the first of them a first step.
LEMMA ProcedureStepsFound ==
  ASSUME NEW m, Regular(m), NEW p
  PROVE  LET s == ProcedureSteps(m, p)
         IN  /\ s = ByOrder(m.steps, StepsAt(m, p)) /\ Sortable(m.steps, StepsAt(m, p))
             /\ DOMAIN s \subseteq Nat
             /\ \A k \in DOMAIN s : IsDef(m, s[k])
             /\ s # <<>> => 1 \in DOMAIN s /\ s[1].id \in FirstSteps(m)
<1> DEFINE I == StepsAt(m, p)
           s == ByOrder(m.steps, I)
<1>0. ProcedureSteps(m, p) = s
  BY DEF ProcedureSteps
<1>1. DOMAIN m.steps = 1 .. Len(m.steps) /\ Len(m.steps) \in Nat
  BY CompiledLists, ListFacts
<1>2. Sortable(m.steps, I)
  <2>1. IsFiniteSet(DOMAIN m.steps) /\ I \subseteq DOMAIN m.steps
    BY <1>1, FS_Interval DEF StepsAt
  <2>2. \A i \in I : m.steps[i].order \in Int
    BY <2>1, StepDefinitions DEF IsDef
  <2> QED
    BY <1>1, <2>1, <2>2, FS_Subset DEF Sortable
<1>3. /\ DOMAIN s \subseteq Nat
      /\ \A k \in DOMAIN s : \E i \in I : s[k] = m.steps[i]
      /\ I # {} <=> s # <<>>
      /\ s # <<>> => 1 \in DOMAIN s
  BY <1>2, SortedList
<1>4. s # <<>> => s[1].id \in FirstSteps(m)
  <2> SUFFICES ASSUME s # <<>> PROVE s[1].id \in FirstSteps(m)
    OBVIOUS
  <2>1. PICK i \in I : TRUE
    BY <1>3
  <2>2. m.steps[i] \in ToSet(m.steps) /\ m.steps[i].procedure = p /\ p # None
    BY <2>1 DEF ToSet, StepsAt
  <2>3. ProcedureSteps(m, p)[1].id \in FirstSteps(m)
    BY <2>2 DEF FirstSteps
  <2> QED
    BY <2>3, <1>0
<1> HIDE DEF s
<1>5. \A k \in DOMAIN s : IsDef(m, s[k])
  BY <1>3 DEF IsDef, StepsAt
<1> QED
  BY <1>0, <1>2, <1>3, <1>4, <1>5 DEF s

----------------------------------------------------------------------------
(* The workflows and steps a turn may choose.                              *)
GoodStep(m, s) == /\ s.order \in Int /\ s.scope # None
                  /\ <<s.scope, s.order>> \in Numbers(m)
                  /\ s.words \subseteq StepWords(m)
GoodWorkflow(m, w) ==
    /\ \E n \in Nat : DOMAIN w.steps = 1 .. n
    /\ \A i \in DOMAIN w.steps : GoodStep(m, w.steps[i])
    /\ w.gate \in Nat
    /\ w.steps # <<>> => 1 \in DOMAIN WorkflowSteps(w) /\ WorkflowSteps(w)[1].scope \in FirstSteps(m)

\* No workflow has no steps.
LEMMA NoWorkflowIsGood ==
  ASSUME NEW m
  PROVE  GoodWorkflow(m, NoWorkflow)
<1>1. DOMAIN NoWorkflow.steps = 1 .. 0 /\ NoWorkflow.steps = <<>> /\ NoWorkflow.gate = 0
  BY DEF NoWorkflow
<1> QED
  BY <1>1 DEF GoodWorkflow

\* The steps of a workflow can be sorted.
LEMMA WorkflowStepsSortable ==
  ASSUME NEW steps, NEW n \in Nat, DOMAIN steps = 1 .. n, \A i \in DOMAIN steps : steps[i].order \in Int
  PROVE  Sortable(steps, DOMAIN steps)
  BY FS_Interval DEF Sortable

\* A registered workflow is one a turn may choose.
LEMMA RegisteredIsGood ==
  ASSUME NEW m, Regular(m), NEW w \in ToSet(m.workflows)
  PROVE  GoodWorkflow(m, w)
<1>1. /\ List(w.steps) /\ w.gate \in Nat
      /\ \A s \in ToSet(w.steps) : s.scope # None /\ s.order \in Int
  BY DEF Regular, Compiled
<1>2. /\ Len(w.steps) \in Nat /\ DOMAIN w.steps = 1 .. Len(w.steps)
      /\ \A i \in DOMAIN w.steps : w.steps[i] \in ToSet(w.steps)
      /\ w.steps # <<>> => 1 \in DOMAIN w.steps
  BY <1>1, ListFacts
<1>3. \A s \in ToSet(w.steps) : <<s.scope, s.order>> \in Numbers(m)
  BY DEF Numbers
<1>4. \A s \in ToSet(w.steps) : s.words \subseteq StepWords(m)
  BY DEF StepWords
<1>5. \A i \in DOMAIN w.steps : GoodStep(m, w.steps[i])
  BY <1>1, <1>2, <1>3, <1>4 DEF GoodStep
<1>6. Sortable(w.steps, DOMAIN w.steps)
  BY <1>1, <1>2, WorkflowStepsSortable
<1>7. w.steps # <<>> => WorkflowSteps(w) # <<>> /\ 1 \in DOMAIN WorkflowSteps(w)
  BY <1>2, <1>6, SortedList DEF WorkflowSteps
<1>8. w.steps # <<>> => WorkflowSteps(w)[1].scope \in FirstSteps(m)
  BY DEF FirstSteps
<1> QED
  BY <1>1, <1>2, <1>5, <1>7, <1>8 DEF GoodWorkflow

\* The steps of a block's procedure, standing in for a workflow.
StandIn(ref, defs) ==
    [NoWorkflow EXCEPT !.id = ref,
       !.steps = [i \in DOMAIN defs |->
          [scope |-> defs[i].id, order |-> defs[i].order, words |-> {}, weight |-> 0]]]

\* They keep their order when they are sorted again.
LEMMA StandInIsGood ==
  ASSUME NEW m, Regular(m), NEW p, NEW ref
  PROVE  GoodWorkflow(m, StandIn(ref, ProcedureSteps(m, p)))
<1> DEFINE defs == ProcedureSteps(m, p)
           I    == StepsAt(m, p)
           w    == StandIn(ref, defs)
           n    == Cardinality(I)
<1>1. /\ defs = ByOrder(m.steps, I) /\ Sortable(m.steps, I)
      /\ \A k \in DOMAIN defs : IsDef(m, defs[k])
      /\ defs # <<>> => 1 \in DOMAIN defs /\ defs[1].id \in FirstSteps(m)
  BY ProcedureStepsFound
<1>2. n \in Nat /\ DOMAIN defs = 1 .. n
  BY <1>1, SortedList
<1> HIDE DEF defs
<1>3. /\ w.steps = [i \in DOMAIN defs |->
            [scope |-> defs[i].id, order |-> defs[i].order, words |-> {}, weight |-> 0]]
      /\ w.gate = 0
  BY DEF StandIn, NoWorkflow
<1> HIDE DEF w
<1>4. /\ DOMAIN w.steps = 1 .. n
      /\ \A i \in DOMAIN defs : /\ w.steps[i].scope = defs[i].id
                               /\ w.steps[i].order = defs[i].order
                               /\ w.steps[i].words = {}
  BY <1>2, <1>3
<1>5. \A i \in DOMAIN w.steps : GoodStep(m, w.steps[i])
  <2> SUFFICES ASSUME NEW i \in DOMAIN defs PROVE GoodStep(m, w.steps[i])
    BY <1>2, <1>4
  <2>1. /\ defs[i].id # None /\ defs[i].order \in Int /\ <<defs[i].id, defs[i].order>> \in Numbers(m)
    BY <1>1, StepDefinitions
  <2>2. w.steps[i].scope = defs[i].id /\ w.steps[i].order = defs[i].order /\ w.steps[i].words = {}
    BY <1>4
  <2> QED
    BY <2>1, <2>2 DEF GoodStep
<1>6. ASSUME w.steps # <<>>
      PROVE  1 \in DOMAIN WorkflowSteps(w) /\ WorkflowSteps(w)[1].scope \in FirstSteps(m)
  <2>1. Sortable(w.steps, DOMAIN w.steps)
    BY <1>2, <1>4, <1>5, WorkflowStepsSortable DEF GoodStep
  <2>2. n # 0
    <3> SUFFICES ASSUME n = 0 PROVE w.steps = <<>>
      BY <1>6
    <3>1. w.steps = [i \in 1 .. 0 |-> w.steps[i]]
      BY <1>2, <1>3
    <3>2. w.steps \in Seq({}) /\ Len(w.steps) = 0
      BY <3>1
    <3> QED
      BY <3>2, EmptySeq
  <2>3. I # {}
    BY <2>2, FS_EmptySet
  <2>4. PICK i \in I : /\ defs[1] = m.steps[i]
                      /\ \A j \in I : ~Precedes(OrderKey(m.steps, I), j, i)
    BY <1>1, <2>3, SortedFirst
  <2>5. 1 \in DOMAIN w.steps /\ \A k \in DOMAIN w.steps : \E j \in I : defs[k] = m.steps[j]
    <3>1. 1 \in DOMAIN w.steps
      BY <1>2, <1>4, <2>2
    <3>2. \A k \in 1 .. n : \E j \in I : defs[k] = m.steps[j]
      <4>1. \A k \in 1 .. n : \E j \in I : ByOrder(m.steps, I)[k] = m.steps[j]
        BY <1>1, SortedList
      <4> QED
        BY <1>1, <4>1
    <3> QED
      BY <1>4, <3>1, <3>2
  <2>6. \A k \in DOMAIN w.steps : SortKey(w.steps[k]) = SortKey(defs[k]) /\ SortKey(defs[k]) \in Int
    <3> SUFFICES ASSUME NEW k \in DOMAIN w.steps
                 PROVE  SortKey(w.steps[k]) = SortKey(defs[k]) /\ SortKey(defs[k]) \in Int
      OBVIOUS
    <3>1. w.steps[k].order = defs[k].order /\ w.steps[k].order \in Int
      BY <1>2, <1>4, <1>5 DEF GoodStep
    <3> QED
      BY <3>1 DEF SortKey
  <2>7. \A k \in DOMAIN w.steps : ~Precedes(OrderKey(w.steps, DOMAIN w.steps), k, 1)
    <3> DEFINE key == OrderKey(w.steps, DOMAIN w.steps)
    <3> SUFFICES ASSUME NEW k \in DOMAIN w.steps PROVE ~Precedes(key, k, 1)
      OBVIOUS
    <3>1. PICK j \in I : defs[k] = m.steps[j]
      BY <2>5
    <3>2. ~(SortKey(m.steps[j]) < SortKey(m.steps[i]))
      <4>1. OrderKey(m.steps, I)[j] = SortKey(m.steps[j]) /\ OrderKey(m.steps, I)[i] = SortKey(m.steps[i])
        BY DEF OrderKey
      <4> QED
        BY <2>4, <4>1 DEF Precedes
    <3>3. ~(SortKey(w.steps[k]) < SortKey(w.steps[1])) /\ ~(k < 1)
      BY <1>4, <2>4, <2>5, <2>6, <3>1, <3>2
    <3>4. key[k] = SortKey(w.steps[k]) /\ key[1] = SortKey(w.steps[1])
      BY <2>5 DEF OrderKey
    <3> QED
      BY <3>3, <3>4 DEF Precedes
  <2>8. WorkflowSteps(w)[1] = w.steps[1]
    BY <2>1, <2>5, <2>7, SortedFirst DEF WorkflowSteps
  <2>9. WorkflowSteps(w) # <<>> /\ 1 \in DOMAIN WorkflowSteps(w)
    BY <2>1, <2>5, SortedList DEF WorkflowSteps
  <2>10. w.steps[1].scope \in FirstSteps(m)
    <3>1. 1 \in DOMAIN defs
      BY <1>2, <1>4, <2>5
    <3>2. defs # <<>>
      BY <3>1
    <3> QED
      BY <1>1, <1>4, <3>1, <3>2
  <2> QED
    BY <2>8, <2>9, <2>10
<1>7. w.gate \in Nat /\ \E k \in Nat : DOMAIN w.steps = 1 .. k
  BY <1>2, <1>3, <1>4
<1> QED
  BY <1>5, <1>6, <1>7 DEF GoodWorkflow, w, defs

\* The sorted steps of a workflow a turn may choose.
LEMMA WorkflowStepsFound ==
  ASSUME NEW m, NEW w, GoodWorkflow(m, w)
  PROVE  /\ DOMAIN WorkflowSteps(w) \subseteq Nat
         /\ \A k \in DOMAIN WorkflowSteps(w) : GoodStep(m, WorkflowSteps(w)[k])
<1>1. PICK n \in Nat : DOMAIN w.steps = 1 .. n
  BY DEF GoodWorkflow
<1>2. \A i \in DOMAIN w.steps : GoodStep(m, w.steps[i])
  BY DEF GoodWorkflow
<1>3. Sortable(w.steps, DOMAIN w.steps)
  BY <1>1, <1>2, WorkflowStepsSortable DEF GoodStep
<1> QED
  BY <1>2, <1>3, SortedList DEF WorkflowSteps

\* The step of an order has that order.
LEMMA StepByOrderFound ==
  ASSUME NEW m, NEW w, GoodWorkflow(m, w), NEW order
  PROVE  LET s == StepByOrder(w, order)
         IN  s = NoStep \/ (GoodStep(m, s) /\ s.order = order)
<1> DEFINE steps == WorkflowSteps(w)
           I == {i \in DOMAIN steps : steps[i].order = order /\ order # NoOrder}
<1>1. I \in SUBSET Nat /\ \A i \in DOMAIN steps : GoodStep(m, steps[i])
  BY WorkflowStepsFound
<1>2. StepByOrder(w, order) = FirstAt(steps, I, NoStep)
  BY DEF StepByOrder, FirstOr
<1> HIDE DEF I
<1>3. StepByOrder(w, order) = NoStep \/ \E i \in I : StepByOrder(w, order) = steps[i]
  BY <1>1, <1>2, FirstAtPosition
<1> QED
  BY <1>1, <1>3 DEF I

\* The first of some workflows a turn may choose.
LEMMA FirstGoodWorkflow ==
  ASSUME NEW m, NEW s, NEW I \in SUBSET Nat, \A i \in I : GoodWorkflow(m, s[i])
  PROVE  GoodWorkflow(m, FirstAt(s, I, NoWorkflow))
<1>1. FirstAt(s, I, NoWorkflow) = NoWorkflow \/ \E i \in I : FirstAt(s, I, NoWorkflow) = s[i]
  BY FirstAtPosition
<1> QED
  BY <1>1, NoWorkflowIsGood

\* The first of some registered workflows is one a turn may choose.
LEMMA FirstRegistered ==
  ASSUME NEW m, Regular(m), NEW I \in SUBSET (DOMAIN m.workflows)
  PROVE  GoodWorkflow(m, FirstAt(m.workflows, I, NoWorkflow))
<1>1. I \in SUBSET Nat /\ \A i \in I : m.workflows[i] \in ToSet(m.workflows)
  BY CompiledLists, ListFacts
<1> QED
  BY <1>1, RegisteredIsGood, FirstGoodWorkflow

\* A workflow reference finds a workflow a turn may choose, or none.
LEMMA WorkflowByReferenceGood ==
  ASSUME NEW m, Regular(m), NEW ref
  PROVE  GoodWorkflow(m, WorkflowByReference(m, ref))
<1> DEFINE I == {i \in DOMAIN m.workflows : m.workflows[i].id = ref /\ ref # None}
           named == FirstAt(m.workflows, I, NoWorkflow)
           defs == ProcedureSteps(m, ProcedureOfBlock(m, ServiceBlock(m, ref)).id)
<1>1. GoodWorkflow(m, named)
  BY FirstRegistered
<1>2. FirstOr(m.workflows, LAMBDA w : w.id = ref /\ ref # None, NoWorkflow) = named
  BY DEF FirstOr
<1> HIDE DEF named
<1>3. \A p : GoodWorkflow(m, StandIn(ref, ProcedureSteps(m, p)))
  BY StandInIsGood
<1> QED
  BY <1>1, <1>2, <1>3, NoWorkflowIsGood DEF WorkflowByReference, StandIn

\* The workflow with the longest trigger is one a turn may choose.
LEMMA BestMatchRegistered ==
  ASSUME NEW m, Regular(m), NEW field, NEW words
  PROVE  GoodWorkflow(m, BestMatch(m.workflows, field, words, NoWorkflow))
<1> DEFINE Hits == {i \in DOMAIN m.workflows : m.workflows[i][field] \cap words # {}}
           I == {i \in Hits : \A j \in Hits : m.workflows[j].weight <= m.workflows[i].weight}
<1>1. I \in SUBSET (DOMAIN m.workflows)
  OBVIOUS
<1>2. BestMatch(m.workflows, field, words, NoWorkflow) = FirstAt(m.workflows, I, NoWorkflow)
  BY DEF BestMatch
<1> QED
  BY <1>1, <1>2, FirstRegistered

\* The workflow the hybrid planner asks for is one a turn may choose.
LEMMA HybridWorkflowGood ==
  ASSUME NEW t, Regular(t.m)
  PROVE  GoodWorkflow(t.m, HybridWorkflow(t))
<1> DEFINE permitted == RoleProfile(t.m, t.shadow.role).workflows
           s == [i \in DOMAIN permitted |-> WorkflowByReference(t.m, permitted[i])]
           I == {i \in DOMAIN s : s[i] # NoWorkflow}
           J == {j \in DOMAIN t.m.roles : t.m.roles[j].id = t.shadow.role /\ t.shadow.role # None}
<1>1. \A ref : GoodWorkflow(t.m, WorkflowByReference(t.m, ref))
  BY WorkflowByReferenceGood
<1>2. DOMAIN permitted \subseteq Nat
  <2>1. J \in SUBSET Nat /\ \A j \in J : List(t.m.roles[j].workflows)
    BY CompiledLists, ListFacts DEF Regular, Compiled
  <2>2. RoleProfile(t.m, t.shadow.role) = FirstAt(t.m.roles, J, NoRole)
    BY DEF RoleProfile, FirstOr
  <2> HIDE DEF J
  <2>3. \/ RoleProfile(t.m, t.shadow.role) = NoRole
        \/ \E j \in J : RoleProfile(t.m, t.shadow.role) = t.m.roles[j]
    BY <2>1, <2>2, FirstAtPosition
  <2>4. CASE RoleProfile(t.m, t.shadow.role) = NoRole
    <3>1. permitted = <<>>
      BY <2>4 DEF NoRole
    <3>2. DOMAIN <<>> = 1 .. 0
      OBVIOUS
    <3> HIDE DEF permitted
    <3> QED
      BY <3>1, <3>2
  <2>5. CASE \E j \in J : RoleProfile(t.m, t.shadow.role) = t.m.roles[j]
    <3>1. List(permitted)
      BY <2>1, <2>5
    <3> QED
      BY <3>1, ListFacts
  <2> QED
    BY <2>3, <2>4, <2>5
<1> HIDE DEF permitted
<1>3. I \in SUBSET Nat /\ \A i \in I : GoodWorkflow(t.m, s[i])
  BY <1>1, <1>2
<1>4. GoodWorkflow(t.m, FirstAt(s, I, NoWorkflow))
  BY <1>3, FirstGoodWorkflow
<1>5. FirstOr(s, LAMBDA w : w # NoWorkflow, NoWorkflow) = FirstAt(s, I, NoWorkflow)
  BY DEF FirstOr
<1> QED
  BY <1>1, <1>4, <1>5, NoWorkflowIsGood DEF HybridWorkflow, permitted

\* Whatever the planner chooses is a workflow of the model or stands in for one.
LEMMA ChooseWorkflowGood ==
  ASSUME NEW t, Regular(t.m)
  PROVE  GoodWorkflow(t.m, ChooseWorkflow(t))
<1> DEFINE ws == t.m.workflows
           hybrid == HybridWorkflow(t)
           ofDefault == IF t.m.default = None THEN NoWorkflow ELSE WorkflowByReference(t.m, t.m.default)
           triggered == BestMatch(ws, "triggers", t.query, NoWorkflow)
           current == FirstOr(ws, LAMBDA w : w.id = t.progress.workflow, NoWorkflow)
           study == FirstOr(ws, LAMBDA w : /\ "study" \in t.query
                                           /\ BlockOfWorkflow(t.m, w).type = "supplementary_workflow",
                            NoWorkflow)
           default == DefaultWorkflow(t.m)
           rest == IF LogicOnly(t) \/ ws = <<>> THEN <<>>
                   ELSE <<ofDefault, triggered, current, study, default>>
           S == {hybrid, ofDefault, triggered, current, study, default}
           choices == <<hybrid>> \o rest
           I == {i \in DOMAIN choices : choices[i] # NoWorkflow}
<1>1. GoodWorkflow(t.m, hybrid) /\ GoodWorkflow(t.m, ofDefault) /\ GoodWorkflow(t.m, triggered)
  BY HybridWorkflowGood, WorkflowByReferenceGood, NoWorkflowIsGood, BestMatchRegistered
<1>2. GoodWorkflow(t.m, current) /\ GoodWorkflow(t.m, study) /\ GoodWorkflow(t.m, default)
  BY FirstRegistered DEF FirstOr, DefaultWorkflow
<1>3. ChooseWorkflow(t) = FirstOr(choices, LAMBDA w : w # NoWorkflow, NoWorkflow)
  BY DEF ChooseWorkflow
<1> HIDE DEF hybrid, ofDefault, triggered, current, study, default
<1>4. \A w \in S : GoodWorkflow(t.m, w)
  BY <1>1, <1>2
<1>5. <<hybrid>> \in Seq(S) /\ rest \in Seq(S)
  <2>1. hybrid \in S /\ ofDefault \in S /\ triggered \in S /\ current \in S /\ study \in S /\ default \in S
    OBVIOUS
  <2> HIDE DEF S
  <2>2. <<hybrid>> \in Seq(S)
    BY <2>1
  <2>3. <<ofDefault, triggered, current, study, default>> \in Seq(S)
    BY <2>1
  <2>4. <<>> \in Seq(S)
    OBVIOUS
  <2> QED
    BY <2>2, <2>3, <2>4
<1> HIDE DEF S, rest
<1>6. choices \in Seq(S)
  BY <1>5
<1> HIDE DEF choices
<1>7. I \in SUBSET Nat /\ \A i \in I : choices[i] \in S
  BY <1>6
<1>8. GoodWorkflow(t.m, FirstAt(choices, I, NoWorkflow))
  BY <1>4, <1>7, FirstGoodWorkflow
<1> QED
  BY <1>3, <1>8 DEF FirstOr

----------------------------------------------------------------------------
(* Records of the planner.                                                 *)
SesFields == DOMAIN EmptySes
TurnFields == {"m", "ses", "progress", "said", "asked", "spoke", "words", "query", "shadow",
               "rule", "queued", "logic", "activating", "queue", "target", "routing", "wf", "pick"}

\* What a turn is about does not change while it is planned.
LEMMA PlanningKeepsTurn ==
  ASSUME NEW words, NEW recalled, NEW shadow
  PROVE  LET before == TurnFor(words, recalled, shadow)
             t      == PlannedTurn(before)
         IN  /\ DOMAIN t = TurnFields
             /\ t.m = model /\ t.ses = before.ses /\ t.said = said /\ t.words = words
             /\ t.progress = progress /\ t.asked = asked /\ t.shadow = shadow
             /\ t.query = words \cup recalled
<1> DEFINE before == TurnFor(words, recalled, shadow)
           guided == Guided(before)
           ruled  == Ruled(guided)
           queued == Queued(ruled)
           placed == InWorkflow(queued)
           t      == AtStep(placed)
           Same(x) == /\ DOMAIN x = TurnFields
                      /\ x.m = model /\ x.ses = before.ses /\ x.said = said /\ x.words = words
                      /\ x.progress = progress /\ x.asked = asked /\ x.shadow = shadow
                      /\ x.query = words \cup recalled
<1>1. Same(before)
  BY DEF TurnFor, TurnFields
<1> HIDE DEF before
<1>2. Same(guided)
  BY <1>1 DEF Guided, TurnFields
<1> HIDE DEF guided
<1>3. Same(ruled)
  BY <1>2 DEF Ruled, TurnFields
<1> HIDE DEF ruled
<1>4. Same(queued)
  BY <1>3 DEF Queued, TurnFields
<1> HIDE DEF queued
<1>5. Same(placed)
  BY <1>4 DEF InWorkflow, TurnFields
<1> HIDE DEF placed
<1>6. Same(t)
  BY <1>5 DEF AtStep, TurnFields
<1> QED
  BY <1>6 DEF PlannedTurn, before, guided, ruled, queued, placed

----------------------------------------------------------------------------
(* Clarification slots.                                                    *)
LEMMA SlotSignalsUnion ==
  ASSUME NEW a, NEW b
  PROVE  SlotSignals(a \cup b) = SlotSignals(a) \cup SlotSignals(b)
  BY DEF SlotSignals

\* The layered context is a session's record.
LEMMA LayeredFields ==
  ASSUME NEW m, NEW pick
  PROVE  DOMAIN Layered(m, pick) = SesFields
  BY DEF Layered, SesFields, EmptySes

\* The state of a planned turn has the slots of all that was said.
LEMMA ContextSlots ==
  ASSUME NEW t
  PROVE  DOMAIN Context(t) = SesFields /\ Context(t).slots = SlotMap(t)
<1>1. DOMAIN Layered(t.m, t.pick) = SesFields
  BY LayeredFields
<1>2. "slots" \in SesFields
  BY DEF SesFields, EmptySes
<1> QED
  BY <1>1, <1>2 DEF Context

\* Laying the modules over a state keeps its slots.
LEMMA ModulesKeepSlots ==
  ASSUME NEW t, NEW s, DOMAIN s = SesFields
  PROVE  WithModules(t, s).slots = s.slots
<1> DEFINE Keeps(x) == DOMAIN x = SesFields /\ x.slots = s.slots
<1>a. "slots" \in SesFields
  BY DEF SesFields, EmptySes
<1>1. ASSUME NEW x, Keeps(x) PROVE Keeps(LeaveStep(x)) /\ Keeps(Reconcile(x))
  BY <1>a, <1>1 DEF LeaveStep, Reconcile
<1>2. ASSUME NEW x, Keeps(x) PROVE Keeps(StayWithLogic(t, x))
  BY <1>a, <1>1, <1>2 DEF StayWithLogic
<1>3. ASSUME NEW x, Keeps(x), NEW block PROVE Keeps(EnterFollowup(t, x, block))
  BY <1>a, <1>1, <1>3 DEF EnterFollowup
<1>4. ASSUME NEW x, Keeps(x), NEW block PROVE Keeps(EnterSupport(t, x, block))
  BY <1>a, <1>4 DEF EnterSupport
<1>5. Keeps([s EXCEPT !.rule = IF t.rule # None THEN t.rule ELSE @, !.queue = t.queue])
  BY <1>a
<1> QED
  BY <1>1, <1>2, <1>3, <1>4, <1>5 DEF WithModules

HasSlots == pc \in {"answer", "state"} => SlotSignals(said) \subseteq turn.ses.slots

\* Every step keeps them.
LEMMA HasSlotsStep ==
  ASSUME HasSlots, [Next]_vars
  PROVE  HasSlots'
<1>1. ASSUME NEW words, NEW recalled, NEW shadow, Plan(words, recalled, shadow)
      PROVE  HasSlots'
  <2> DEFINE t == PlannedTurn(TurnFor(words, recalled, shadow))
  <2>1. /\ turn' = [progress |-> NextProgress(t), ses |-> WithModules(t, Context(t)),
                    led |-> Led(t), advances |-> "advance" \in t.query]
        /\ said' = said \/ said' = said \cup words
    BY <1>1 DEF Plan
  <2>2. t.said = said /\ t.words = words
    BY PlanningKeepsTurn
  <2> HIDE DEF t
  <2>3. turn'.ses.slots = SlotMap(t)
    BY <2>1, ContextSlots, ModulesKeepSlots
  <2>4. SlotSignals(said) \cup SlotSignals(words) \subseteq SlotMap(t)
    BY <2>2 DEF SlotMap
  <2>5. SlotSignals(said') \subseteq SlotSignals(said) \cup SlotSignals(words)
    BY <2>1, SlotSignalsUnion
  <2> QED
    BY <2>3, <2>4, <2>5 DEF HasSlots
<1>2. CASE PersistAnswer
  BY <1>2 DEF PersistAnswer, HasSlots
<1>3. CASE PersistState \/ TurnLost
  BY <1>3 DEF PersistState, TurnLost, HasSlots
<1>4. CASE Advance \/ (\E m \in Models : Republish(m)) \/ UNCHANGED vars
  BY <1>4 DEF Advance, Republish, vars, HasSlots
<1> QED
  BY <1>1, <1>2, <1>3, <1>4 DEF Next

\* Whatever the planner chooses and whichever turns were lost, the state that a turn
\* stores has the slots of every message the user ever persisted.
THEOREM NoSlotIsLost == Spec => []SlotsKept
<1>1. Init => HasSlots
  BY DEF Init, HasSlots
<1>2. HasSlots /\ [Next]_vars => HasSlots'
  BY HasSlotsStep
<1>3. HasSlots => SlotsKept
  BY DEF HasSlots, SlotsKept
<1> QED
  BY <1>1, <1>2, <1>3, PTL DEF Spec

----------------------------------------------------------------------------
(* The steps a turn may pick.                                              *)
\* An identifier has one order.
LEMMA OneOrder ==
  ASSUME NEW id, NEW n, NEW k, <<id, n>> \in AllNumbers, <<id, k>> \in AllNumbers
  PROVE  n = k
<1> DEFINE a == <<id, n>>
           b == <<id, k>>
<1>1. a[1] = b[1] => a[2] = b[2]
  BY ModelsAreCompiled DEF AllNumbers
<1> QED
  BY <1>1

\* A published model is compiled, and its numbers are among all of them.
LEMMA ModelNumbers ==
  ASSUME NEW m \in Models
  PROVE  Regular(m) /\ Numbers(m) \subseteq AllNumbers
  BY ModelsAreCompiled DEF Regular, AllNumbers

GoodPick(m, p) ==
    /\ DOMAIN p = DOMAIN NoPick /\ p.gate \in Nat /\ p.order \in Int
    /\ p.scope = None => p.order = NoOrder /\ p.mode = None /\ p.bundled = <<>> /\ p.support = None
    /\ p.scope # None => <<p.scope, p.order>> \in Numbers(m)
    /\ p.support # None => ServiceBlock(m, p.support).type = "support_module"

\* No step is a pick.
LEMMA NoPickIsGood ==
  ASSUME NEW m
  PROVE  GoodPick(m, NoPick) /\ NoPick.order = NoOrder /\ NoPick.gate = 0 /\ NoPick.scope = None
  BY DEF GoodPick, NoPick, NoOrder

\* A procedure's step as a pick.
LEMMA ProcedurePick ==
  ASSUME NEW m, Regular(m), NEW d, IsDef(m, d), NEW id
  PROVE  LET p == OfProcedure(d, ServiceBlock(m, id))
         IN  GoodPick(m, p) /\ p.scope = d.id /\ p.order = d.order /\ p.gate = 0
<1> DEFINE b == ServiceBlock(m, id)
           p == OfProcedure(d, b)
<1>1. d.id # None /\ d.order \in Int /\ <<d.id, d.order>> \in Numbers(m)
  BY StepDefinitions
<1>2. b.type = "support_module" => ServiceBlock(m, b.id).type = "support_module"
  BY ServiceBlockFound DEF NoBlock
<1> HIDE DEF b
<1>3. /\ DOMAIN p = DOMAIN NoPick /\ p.scope = d.id /\ p.order = d.order /\ p.gate = 0
      /\ p.support = IF b.type = "support_module" THEN b.id ELSE None
  BY DEF OfProcedure, NoPick
<1> HIDE DEF p
<1>4. p.support # None => ServiceBlock(m, p.support).type = "support_module"
  BY <1>2, <1>3
<1>5. GoodPick(m, p)
  BY <1>1, <1>3, <1>4 DEF GoodPick
<1> QED
  BY <1>3, <1>5 DEF p, b

\* A workflow's step as a pick.
LEMMA WorkflowPick ==
  ASSUME NEW m, NEW s, GoodStep(m, s)
  PROVE  LET p == OfWorkflow(s)
         IN  /\ GoodPick(m, p) /\ p.scope = s.scope /\ p.order = s.order /\ p.gate = 0
             /\ p.support = None
<1> DEFINE p == OfWorkflow(s)
<1>1. /\ DOMAIN p = DOMAIN NoPick /\ p.scope = s.scope /\ p.order = s.order /\ p.gate = 0
      /\ p.support = None
  BY DEF OfWorkflow, NoPick
<1> QED
  BY <1>1 DEF GoodPick, GoodStep

\* What an input gate of order 0 stands for.
GateStep(t, p) == /\ p.gate > 0 /\ p.scope # None
                  /\ \/ p.order = 1
                     \/ p.order = 2 /\ Cardinality(EffectiveSlots(SlotMap(t))) >= p.gate

\* Collapsing a gate keeps the pick or puts one of the two first steps in its place.
LEMMA CollapsePick ==
  ASSUME NEW t, NEW wf, GoodWorkflow(t.m, wf), NEW p, GoodPick(t.m, p)
  PROVE  LET c == Collapse(t, wf, p)
         IN  GoodPick(t.m, c) /\ (c = p \/ GateStep(t, c))
<1> DEFINE Ready == Cardinality(EffectiveSlots(SlotMap(t))) >= wf.gate
           s == StepByOrder(wf, IF Ready THEN 2 ELSE 1)
           c == [OfWorkflow(s) EXCEPT !.gate = wf.gate]
<1>1. SUFFICES ASSUME wf.gate > 0, StepByOrder(wf, 1) # NoStep, StepByOrder(wf, 2) # NoStep
               PROVE  GoodPick(t.m, c) /\ GateStep(t, c)
  BY DEF Collapse
<1>2. GoodStep(t.m, s) /\ s.order = IF Ready THEN 2 ELSE 1
  BY <1>1, StepByOrderFound
<1> HIDE DEF s
<1>3. GoodPick(t.m, OfWorkflow(s)) /\ OfWorkflow(s).scope = s.scope /\ OfWorkflow(s).order = s.order
  BY <1>2, WorkflowPick
<1>4. wf.gate \in Nat
  BY DEF GoodWorkflow
<1>5. "gate" \in DOMAIN NoPick
  BY DEF NoPick
<1>6. GoodPick(t.m, c) /\ c.scope = s.scope /\ c.order = s.order /\ c.gate = wf.gate
  BY <1>3, <1>4, <1>5 DEF GoodPick
<1> HIDE DEF c
<1>7. GateStep(t, c)
  BY <1>1, <1>2, <1>6 DEF GateStep, GoodStep
<1> QED
  BY <1>6, <1>7

\* The target of the hybrid planner is a pick; without a step there is none.
LEMMA ShadowTargetGood ==
  ASSUME NEW t, Regular(t.m)
  PROVE  /\ GoodPick(t.m, ShadowTarget(t))
         /\ t.shadow.step = None => ShadowTarget(t) = NoPick
<1> DEFINE def == StepDefinition(t.m, t.shadow.step)
           owner == FirstOr(t.m.procedures, LAMBDA p : p.id = def.procedure, NoProcedure)
           target == OfProcedure(def, ServiceBlock(t.m, owner.block))
           wf == WorkflowOfScope(t.m, def.id)
           gate == Collapse(t, wf, OfWorkflow(StepByOrder(wf, 0)))
<1>1. def = NoStepDef \/ (IsDef(t.m, def) /\ def.id = t.shadow.step /\ t.shadow.step # None)
  BY StepDefinitionFound
<1>2. GoodWorkflow(t.m, wf)
  BY FirstRegistered DEF WorkflowOfScope, FirstOr
<1>3. ShadowTarget(t) =
        IF ~Hybrid(t) \/ def = NoStepDef THEN NoPick
        ELSE IF def.order <= 0 \/ wf = NoWorkflow \/ StepByOrder(wf, 0) = NoStep THEN target
        ELSE IF gate.order < def.order THEN gate
        ELSE [target EXCEPT !.gate = gate.gate]
  BY DEF ShadowTarget
<1>4. IsDef(t.m, def) => GoodPick(t.m, target)
  BY ProcedurePick
<1>5. StepByOrder(wf, 0) # NoStep => GoodPick(t.m, gate)
  BY <1>2, StepByOrderFound, WorkflowPick, CollapsePick
<1> HIDE DEF def, target, wf, gate
<1>6. GoodPick(t.m, target) /\ GoodPick(t.m, gate) => GoodPick(t.m, [target EXCEPT !.gate = gate.gate])
  BY DEF GoodPick, NoPick
<1> QED
  BY <1>1, <1>3, <1>4, <1>5, <1>6, NoPickIsGood

\* What planning a turn relies on: its model is a published one, and the session's step,
\* if it is a step of any model, has the session's order.
GoodTurn(t) ==
    /\ t.m \in Models
    /\ t.progress.order \in Int /\ t.ses.order \in Int
    /\ t.ses.slots \subseteq SlotWords /\ t.ses.minimum \in Nat
    /\ t.ses.scope # None => \A n : <<t.ses.scope, n>> \in AllNumbers => n \in {NoOrder, t.ses.order}
Unled(t) == t.shadow.step = None /\ t.query \cap StepWords(t.m) = {}
Place(t) ==
    LET reached == IF t.ses.order > t.progress.order THEN t.ses.order ELSE t.progress.order
    IN  IF reached > 0 THEN reached ELSE 0
GateOpen(t, scope) ==
    \/ \E g \in ToSet(t.m.gateRules) : g.to \in {None, scope} /\ GateSatisfied(g, t.ses.slots, t.ses.minimum)
    \/ GateSatisfied(NoGateRule, t.ses.slots, t.ses.minimum)
    \/ Cardinality(EffectiveSlots(SlotMap(t))) >= 3
    \/ AnswersPrompt(t, t.words) \/ AnswersPrompt(t, t.query)

\* The step an unled turn may pick: a first one, one not beyond the place the turn starts
\* from, or the next one, once a gate is open or the user has asked to advance.
Legal(t, p) == \/ p.order <= 1 \/ p.scope \in FirstSteps(t.m) \/ p.order <= Place(t)
               \/ p.order <= 1 + Place(t) /\ p.scope # None /\ GateOpen(t, p.scope)
               \/ p.order <= 1 + Place(t) /\ "advance" \in t.words \cup t.query

\* The place is the farther of the session's and its progress's, or 0.
LEMMA PlaceReached ==
  ASSUME NEW t, GoodTurn(t)
  PROVE  /\ Place(t) \in Nat /\ t.progress.order <= Place(t) /\ t.ses.order <= Place(t)
         /\ \/ Place(t) = 0
            \/ Place(t) = IF t.ses.order > t.progress.order THEN t.ses.order ELSE t.progress.order
  BY DEF Place, GoodTurn

\* A gate rule that is found leads to the step it was looked up for.
LEMMA GateRuleFound ==
  ASSUME NEW m, Regular(m), NEW from, NEW to
  PROVE  LET g == GateRule(m, from, to)
         IN  g = NoGateRule \/ (g \in ToSet(m.gateRules) /\ g.to \in {None, to})
<1> DEFINE I == {i \in DOMAIN m.gateRules : m.gateRules[i].from = from /\ m.gateRules[i].to \in {None, to}}
<1>1. I \in SUBSET Nat /\ \A i \in DOMAIN m.gateRules : m.gateRules[i] \in ToSet(m.gateRules)
  BY CompiledLists, ListFacts
<1>2. GateRule(m, from, to) = FirstAt(m.gateRules, I, NoGateRule)
  BY DEF GateRule, FirstOr
<1> HIDE DEF I
<1>3. GateRule(m, from, to) = NoGateRule \/ \E i \in I : GateRule(m, from, to) = m.gateRules[i]
  BY <1>1, <1>2, FirstAtPosition
<1> QED
  BY <1>1, <1>3 DEF I

\* A bundle that follows is the next step, through an open gate.
LEMMA BundleFollows ==
  ASSUME NEW t, GoodTurn(t), NEW wf, GoodWorkflow(t.m, wf), NEW words \in {t.words, t.query},
         NEW step, step = NoStep \/ GoodStep(t.m, step)
  PROVE  LET o == BundledFollowup(t, wf, step, words)
         IN  o = NoStep \/ (/\ GoodStep(t.m, o) /\ step # NoStep /\ o.order = step.order + 1
                            /\ GateOpen(t, o.scope))
<1> DEFINE next == StepByOrder(wf, step.order + 1)
           rule == GateRule(t.m, step.scope, next.scope)
<1>1. SUFFICES ASSUME step # NoStep, StepDefinition(t.m, next.scope).mode = "bundled",
                      \/ GateSatisfied(rule, t.ses.slots, t.ses.minimum)
                      \/ Cardinality(EffectiveSlots(SlotMap(t))) >= 3
                      \/ AnswersPrompt(t, words)
               PROVE  GoodStep(t.m, next) /\ next.order = step.order + 1 /\ GateOpen(t, next.scope)
  BY DEF BundledFollowup
<1>2. Regular(t.m)
  BY ModelNumbers DEF GoodTurn
<1>3. next # NoStep
  <2>1. StepDefinition(t.m, None) = NoStepDef
    BY <1>2, StepDefinitionFound
  <2>2. NoStep.scope = None /\ NoStepDef.mode # "bundled"
    BY DEF NoStep, NoStepDef, None
  <2> HIDE DEF next
  <2> QED
    BY <1>1, <2>1, <2>2
<1>4. GoodStep(t.m, next) /\ next.order = step.order + 1
  BY <1>3, StepByOrderFound
<1> HIDE DEF next
<1>5. rule = NoGateRule \/ (rule \in ToSet(t.m.gateRules) /\ rule.to \in {None, next.scope})
  BY <1>2, GateRuleFound
<1> HIDE DEF rule
<1>6. GateOpen(t, next.scope)
  BY <1>1, <1>5 DEF GateOpen
<1> QED
  BY <1>4, <1>6

\* The step of the session's module.
LEMMA ModuleOwnedGood ==
  ASSUME NEW t, GoodTurn(t)
  PROVE  GoodPick(t.m, ModuleOwned(t)) /\ ModuleOwned(t).gate = 0 /\ Legal(t, ModuleOwned(t))
<1> DEFINE id == IF t.ses.block # None THEN t.ses.block ELSE t.ses.support
           block == ServiceBlock(t.m, id)
           steps == ProcedureSteps(t.m, ProcedureOfBlock(t.m, block.id).id)
           here  == FirstOr(steps, LAMBDA s : s.id = t.ses.scope, NoStepDef)
           wf    == WorkflowOfScope(t.m, here.id)
           step  == FirstOr(wf.steps, LAMBDA s : s.scope = here.id, NoStep)
           opened == BundledFollowup(t, wf, step, t.words)
           next  == IF opened # NoStep
                    THEN FirstOr(steps, LAMBDA s : s.id = opened.scope, here)
                    ELSE IF "advance" \in t.words
                    THEN FirstOr(steps, LAMBDA s : s.order = here.order + 1, here)
                    ELSE here
           d == IF here = NoStepDef THEN steps[1] ELSE next
<1>1. \/ ModuleOwned(t) = NoPick
      \/ steps # <<>> /\ ModuleOwned(t) = OfProcedure(d, block)
  BY DEF ModuleOwned
<1>2. Regular(t.m) /\ Numbers(t.m) \subseteq AllNumbers
  BY ModelNumbers DEF GoodTurn
<1>3. /\ DOMAIN steps \subseteq Nat
      /\ \A k \in DOMAIN steps : IsDef(t.m, steps[k])
      /\ steps # <<>> => 1 \in DOMAIN steps /\ steps[1].id \in FirstSteps(t.m)
  BY <1>2, ProcedureStepsFound
<1> HIDE DEF steps
<1>4. ASSUME NEW I \in SUBSET (DOMAIN steps), NEW other
      PROVE  FirstAt(steps, I, other) = other \/ \E k \in I : FirstAt(steps, I, other) = steps[k]
  BY <1>3, FirstAtPosition
<1>5. here = NoStepDef \/ (IsDef(t.m, here) /\ here.id = t.ses.scope)
  <2> DEFINE I == {k \in DOMAIN steps : steps[k].id = t.ses.scope}
  <2>1. here = FirstAt(steps, I, NoStepDef)
    BY DEF FirstOr
  <2>2. I \in SUBSET (DOMAIN steps)
    OBVIOUS
  <2> HIDE DEF I, here
  <2>3. here = NoStepDef \/ \E k \in I : here = steps[k]
    BY <1>4, <2>1, <2>2
  <2> QED
    BY <1>3, <2>3 DEF I
<1>6. GoodWorkflow(t.m, wf)
  BY <1>2, FirstRegistered DEF WorkflowOfScope, FirstOr
<1> HIDE DEF wf
<1>7. step = NoStep \/ (GoodStep(t.m, step) /\ step.scope = here.id)
  <2> DEFINE I == {k \in DOMAIN wf.steps : wf.steps[k].scope = here.id}
  <2>1. step = FirstAt(wf.steps, I, NoStep)
    BY DEF FirstOr
  <2> HIDE DEF step, here
  <2>2. DOMAIN wf.steps \subseteq Nat /\ \A k \in DOMAIN wf.steps : GoodStep(t.m, wf.steps[k])
    BY <1>6 DEF GoodWorkflow
  <2>3. I \in SUBSET Nat /\ \A k \in I : GoodStep(t.m, wf.steps[k]) /\ wf.steps[k].scope = here.id
    BY <2>2
  <2> HIDE DEF I
  <2>4. FirstAt(wf.steps, I, NoStep) = NoStep \/ \E k \in I : FirstAt(wf.steps, I, NoStep) = wf.steps[k]
    BY <2>3, FirstAtPosition
  <2> QED
    BY <2>1, <2>3, <2>4
<1> HIDE DEF step
<1>8. \/ opened = NoStep
      \/ /\ GoodStep(t.m, opened) /\ step # NoStep /\ opened.order = step.order + 1
         /\ GateOpen(t, opened.scope)
  BY <1>6, <1>7, BundleFollows
<1> HIDE DEF opened
<1>9. \/ next = here
      \/ /\ IsDef(t.m, next)
         /\ \/ opened # NoStep /\ next.id = opened.scope
            \/ "advance" \in t.words /\ next.order = here.order + 1
  <2> DEFINE I == {k \in DOMAIN steps : steps[k].id = opened.scope}
             J == {k \in DOMAIN steps : steps[k].order = here.order + 1}
  <2>1. next = IF opened # NoStep THEN FirstAt(steps, I, here)
               ELSE IF "advance" \in t.words THEN FirstAt(steps, J, here) ELSE here
    BY DEF FirstOr
  <2>2. I \in SUBSET (DOMAIN steps) /\ J \in SUBSET (DOMAIN steps)
    OBVIOUS
  <2> HIDE DEF I, J, here, next
  <2>3. /\ FirstAt(steps, I, here) = here \/ \E k \in I : FirstAt(steps, I, here) = steps[k]
        /\ FirstAt(steps, J, here) = here \/ \E k \in J : FirstAt(steps, J, here) = steps[k]
    BY <1>4, <2>2
  <2> QED
    BY <1>3, <2>1, <2>3 DEF I, J
<1> HIDE DEF here, next
<1>10. /\ Place(t) \in Nat /\ t.ses.order <= Place(t)
  BY PlaceReached
<1>11. here # NoStepDef => here.order \in {NoOrder, t.ses.order}
  <2> SUFFICES ASSUME here # NoStepDef PROVE here.order \in {NoOrder, t.ses.order}
    OBVIOUS
  <2>1. here.id # None /\ <<here.id, here.order>> \in Numbers(t.m) /\ here.id = t.ses.scope
    BY <1>2, <1>5, StepDefinitions
  <2> QED
    BY <1>2, <2>1 DEF GoodTurn
<1>12. here # NoStepDef => here.order \in Int /\ here.order <= Place(t)
  BY <1>10, <1>11 DEF GoodTurn, NoOrder
<1>13. ASSUME steps # <<>>
       PROVE  IsDef(t.m, d) /\ (\A b : Legal(t, OfProcedure(d, ServiceBlock(t.m, b))))
  <2>1. CASE here = NoStepDef
    <3>1. IsDef(t.m, d) /\ d.id \in FirstSteps(t.m)
      BY <1>3, <1>13, <2>1
    <3> QED
      BY <1>2, <3>1, ProcedurePick DEF Legal
  <2>2. CASE here # NoStepDef /\ next = here
    <3>1. IsDef(t.m, d) /\ d.order <= Place(t)
      BY <1>5, <1>12, <2>2
    <3> QED
      BY <1>2, <3>1, ProcedurePick DEF Legal
  <2>3. CASE here # NoStepDef /\ IsDef(t.m, next) /\ "advance" \in t.words /\ next.order = here.order + 1
    <3>1. IsDef(t.m, d) /\ d.order <= 1 + Place(t)
      BY <1>10, <1>12, <2>3
    <3> QED
      BY <1>2, <2>3, <3>1, ProcedurePick DEF Legal
  <2>4. CASE here # NoStepDef /\ IsDef(t.m, next) /\ opened # NoStep /\ next.id = opened.scope
    <3>1. <<next.id, next.order>> \in AllNumbers /\ next.id # None
      BY <1>2, <2>4, StepDefinitions
    <3>2. <<here.id, here.order>> \in AllNumbers
      BY <1>2, <1>5, <2>4, StepDefinitions
    <3>3. <<opened.scope, opened.order>> \in AllNumbers /\ <<step.scope, step.order>> \in AllNumbers
      BY <1>2, <1>7, <1>8, <2>4 DEF GoodStep
    <3>4. next.order = here.order + 1
      <4>1. next.order = opened.order
        BY <2>4, <3>1, <3>3, OneOrder
      <4>2. step.order = here.order
        BY <1>7, <1>8, <2>4, <3>2, <3>3, OneOrder
      <4> QED
        BY <1>8, <2>4, <4>1, <4>2
    <3>5. IsDef(t.m, d) /\ d.order <= 1 + Place(t) /\ d.id # None /\ GateOpen(t, d.id)
      BY <1>8, <1>10, <1>12, <2>4, <3>1, <3>4
    <3> HIDE DEF d
    <3> QED
      BY <1>2, <3>5, ProcedurePick DEF Legal
  <2> QED
    BY <1>9, <2>1, <2>2, <2>3, <2>4
<1> HIDE DEF d
<1>14. CASE ModuleOwned(t) = NoPick
  BY <1>14, NoPickIsGood DEF Legal, NoOrder
<1>15. CASE steps # <<>> /\ ModuleOwned(t) = OfProcedure(d, block)
  BY <1>2, <1>13, <1>15, ProcedurePick
<1> QED
  BY <1>1, <1>14, <1>15

\* The first of some candidates is one of them, or none.
LEMMA FirstOfCandidates ==
  ASSUME NEW S, NEW s \in Seq(S), NEW I \in SUBSET (DOMAIN s), NEW other
  PROVE  FirstAt(s, I, other) = other \/ FirstAt(s, I, other) \in S
<1>1. I \in SUBSET Nat /\ \A i \in I : s[i] \in S
  OBVIOUS
<1>2. FirstAt(s, I, other) = other \/ \E i \in I : FirstAt(s, I, other) = s[i]
  BY <1>1, FirstAtPosition
<1> QED
  BY <1>1, <1>2

\* The step a workflow offers.
LEMMA StepOfWorkflowGood ==
  ASSUME NEW t, GoodTurn(t), NEW wf, GoodWorkflow(t.m, wf), wf.steps # <<>>
  PROVE  LET p == StepOfWorkflow(t, wf)
         IN  GoodPick(t.m, p) /\ p.gate = 0 /\ (Unled(t) => Legal(t, p))
<1> DEFINE steps == WorkflowSteps(wf)
           named == BestMatch(steps, "words", t.query, NoStep)
           current == IF t.progress.workflow = wf.id THEN StepByOrder(wf, t.progress.order) ELSE NoStep
           next == IF "advance" \in t.query /\ current # NoStep
                   THEN StepByOrder(wf, current.order + 1) ELSE NoStep
           opened == BundledFollowup(t, wf, current, t.query)
           entered == "passage" \in t.query \/ t.m.default = wf.id \/ (Hybrid(t) /\ t.shadow.role # None)
           first == IF entered THEN steps[1] ELSE NoStep
           choices == <<named, next, opened, current, first>>
           step == FirstOr(choices, LAMBDA s : s # NoStep, NoStep)
           Good(s) == /\ GoodStep(t.m, s)
                      /\ Unled(t) => \/ s.order <= 1 \/ s.scope \in FirstSteps(t.m) \/ s.order <= Place(t)
                                     \/ s.order <= 1 + Place(t) /\ GateOpen(t, s.scope)
                                     \/ s.order <= 1 + Place(t) /\ "advance" \in t.words \cup t.query
<1>1. StepOfWorkflow(t, wf) = IF step = NoStep THEN NoPick ELSE OfWorkflow(step)
  BY DEF StepOfWorkflow
<1>2. /\ DOMAIN steps \subseteq Nat /\ \A k \in DOMAIN steps : GoodStep(t.m, steps[k])
      /\ 1 \in DOMAIN steps /\ steps[1].scope \in FirstSteps(t.m)
  BY WorkflowStepsFound DEF GoodWorkflow
<1>3. Place(t) \in Nat /\ t.progress.order \in Int /\ t.progress.order <= Place(t)
  BY PlaceReached DEF GoodTurn
<1>4. named = NoStep \/ Good(named)
  <2> DEFINE Hits == {i \in DOMAIN steps : steps[i]["words"] \cap t.query # {}}
             I == {i \in Hits : \A j \in Hits : steps[j].weight <= steps[i].weight}
  <2>1. named = FirstAt(steps, I, NoStep)
    BY DEF BestMatch
  <2>2. I \in SUBSET Nat /\ \A i \in I : GoodStep(t.m, steps[i]) /\ steps[i].words \cap t.query # {}
    BY <1>2
  <2> HIDE DEF I, named, steps
  <2>3. named = NoStep \/ \E i \in I : named = steps[i]
    BY <2>1, <2>2, FirstAtPosition
  <2>4. ASSUME NEW i \in I PROVE Good(steps[i])
    BY <2>2 DEF GoodStep, Unled
  <2> QED
    BY <2>3, <2>4
<1>5. current = NoStep \/ (GoodStep(t.m, current) /\ current.order = t.progress.order)
  BY StepByOrderFound
<1> HIDE DEF current
<1>6. next = NoStep \/ Good(next)
  <2>1. StepByOrder(wf, current.order + 1) = NoStep \/
          (GoodStep(t.m, StepByOrder(wf, current.order + 1))
             /\ StepByOrder(wf, current.order + 1).order = current.order + 1)
    BY StepByOrderFound
  <2> QED
    BY <1>3, <1>5, <2>1
<1>7. opened = NoStep \/ Good(opened)
  <2>1. \/ opened = NoStep
        \/ /\ GoodStep(t.m, opened) /\ current # NoStep /\ opened.order = current.order + 1
           /\ GateOpen(t, opened.scope)
    BY <1>5, BundleFollows
  <2> HIDE DEF opened
  <2> QED
    BY <1>3, <1>5, <2>1
<1>8. current = NoStep \/ Good(current)
  BY <1>3, <1>5
<1>9. first = NoStep \/ Good(first)
  BY <1>2
<1> HIDE DEF named, next, opened, first, Good
<1>10. step = NoStep \/ Good(step)
  <2> DEFINE S == {named, next, opened, current, first}
             I == {i \in DOMAIN choices : choices[i] # NoStep}
  <2>1. \A s \in S : s = NoStep \/ Good(s)
    BY <1>4, <1>6, <1>7, <1>8, <1>9
  <2>2. named \in S /\ next \in S /\ opened \in S /\ current \in S /\ first \in S
    OBVIOUS
  <2> HIDE DEF S
  <2>3. choices \in Seq(S)
    BY <2>2
  <2> HIDE DEF choices
  <2>4. step = FirstAt(choices, I, NoStep) /\ I \in SUBSET (DOMAIN choices)
    BY DEF FirstOr
  <2> HIDE DEF I, step
  <2>5. step = NoStep \/ step \in S
    BY <2>3, <2>4, FirstOfCandidates
  <2> QED
    BY <2>1, <2>5
<1> HIDE DEF step
<1>11. CASE step = NoStep
  BY <1>1, <1>11, NoPickIsGood DEF Legal, NoOrder
<1>12. CASE step # NoStep
  <2>1. GoodStep(t.m, step) /\ Good(step)
    BY <1>10, <1>12 DEF Good
  <2>2. /\ GoodPick(t.m, OfWorkflow(step)) /\ OfWorkflow(step).gate = 0
        /\ OfWorkflow(step).scope = step.scope /\ OfWorkflow(step).order = step.order
    BY <2>1, WorkflowPick
  <2>3. Unled(t) => Legal(t, OfWorkflow(step))
    BY <2>1, <2>2 DEF Legal, Good, GoodStep
  <2> QED
    BY <1>1, <1>12, <2>2, <2>3
<1> QED
  BY <1>11, <1>12

\* What an unled turn picks.
UnledPick(t, p) == \/ p.gate = 0 /\ Legal(t, p)
                   \/ GateStep(t, p)

\* Whatever the turn chooses is a pick, and an unled turn's is one it may make.
LEMMA ChooseStepInGood ==
  ASSUME NEW t, GoodTurn(t), GoodPick(t.m, t.target), NEW wf, GoodWorkflow(t.m, wf)
  PROVE  LET p == ChooseStepIn(t, wf)
         IN  /\ GoodPick(t.m, p)
             /\ Unled(t) /\ t.target = NoPick => UnledPick(t, p)
<1> DEFINE owned == ModuleOwned(t)
           offered == IF wf.steps # <<>> THEN StepOfWorkflow(t, wf) ELSE NoPick
           choices == <<t.target, owned, offered>>
           s == FirstOr(choices, LAMBDA p : p # NoPick, NoPick)
           S == {t.target, owned, offered}
           I == {i \in DOMAIN choices : choices[i] # NoPick}
           Fine(p) == /\ GoodPick(t.m, p)
                      /\ Unled(t) /\ t.target = NoPick => p.gate = 0 /\ Legal(t, p)
<1>1. Fine(NoPick)
  BY NoPickIsGood DEF Legal, NoOrder
<1>2. Fine(t.target)
  BY <1>1
<1>3. Fine(owned)
  BY ModuleOwnedGood
<1>4. Fine(offered)
  BY <1>1, StepOfWorkflowGood
<1>5. ChooseStepIn(t, wf) = Resolved(t, Collapse(t, wf, s))
  BY DEF ChooseStepIn, StepFor
<1> HIDE DEF owned, offered, Fine
<1>6. Fine(s)
  <2>1. \A p \in S : Fine(p)
    BY <1>2, <1>3, <1>4
  <2>2. t.target \in S /\ owned \in S /\ offered \in S
    OBVIOUS
  <2> HIDE DEF S
  <2>3. choices \in Seq(S)
    BY <2>2
  <2> HIDE DEF choices
  <2>4. s = FirstAt(choices, I, NoPick) /\ I \in SUBSET (DOMAIN choices)
    BY DEF FirstOr
  <2> HIDE DEF I, s
  <2>5. s = NoPick \/ s \in S
    BY <2>3, <2>4, FirstOfCandidates
  <2> QED
    BY <1>1, <2>1, <2>5
<1> HIDE DEF s
<1> DEFINE c == Collapse(t, wf, s)
<1>7. GoodPick(t.m, c) /\ (c = s \/ GateStep(t, c))
  BY <1>6, CollapsePick DEF Fine
<1> HIDE DEF c
<1> DEFINE p == Resolved(t, c)
<1>8. p = c \/ (c.gate = 0 /\ p = [c EXCEPT !.gate = t.target.gate])
  BY DEF Resolved
<1>9. GoodPick(t.m, p)
  BY <1>7, <1>8 DEF GoodPick, NoPick
<1>10. ASSUME Unled(t), t.target = NoPick PROVE UnledPick(t, p)
  <2>1. p.order = c.order /\ p.scope = c.scope /\ p.gate = c.gate
    <3>1. t.target.gate = 0 /\ DOMAIN c = DOMAIN NoPick
      BY <1>7, <1>10, NoPickIsGood DEF GoodPick
    <3> QED
      BY <1>8, <3>1 DEF NoPick
  <2>2. UnledPick(t, c)
    BY <1>6, <1>7, <1>10 DEF Fine, UnledPick
  <2> QED
    BY <2>1, <2>2 DEF UnledPick, Legal, GateStep
<1> QED
  BY <1>5, <1>9, <1>10 DEF c

\* The target and the step of a planned turn.
LEMMA PlannedPick ==
  ASSUME NEW words, NEW recalled, NEW shadow, GoodTurn(TurnFor(words, recalled, shadow))
  PROVE  LET t == PlannedTurn(TurnFor(words, recalled, shadow))
         IN  /\ GoodPick(t.m, t.pick)
             /\ GoodWorkflow(t.m, t.wf)
             /\ Unled(t) => UnledPick(t, t.pick)
<1> DEFINE before == TurnFor(words, recalled, shadow)
           ruled  == Ruled(Guided(before))
           queued == Queued(ruled)
           placed == InWorkflow(queued)
           t      == AtStep(placed)
           Same(x) == /\ DOMAIN x = TurnFields
                      /\ x.m = model /\ x.ses = before.ses /\ x.said = said /\ x.words = words
                      /\ x.progress = progress /\ x.asked = asked /\ x.shadow = shadow
                      /\ x.query = words \cup recalled
<1>1. Same(before)
  BY DEF TurnFor, TurnFields
<1>2. GoodTurn(before) /\ before.m = model /\ before.ses = before.ses /\ before.progress = progress
  BY <1>1
<1> HIDE DEF before
<1>3. Same(ruled)
  <2>1. Same(Guided(before))
    BY <1>1 DEF Guided, TurnFields
  <2> HIDE DEF before
  <2> QED
    BY <2>1 DEF Ruled, TurnFields
<1> HIDE DEF ruled
<1>4. Same(queued) /\ queued.target = ShadowTarget(ruled)
  BY <1>3 DEF Queued, TurnFields
<1> HIDE DEF queued
<1>5. /\ Same(placed) /\ placed.target = queued.target
      /\ placed.wf = IF queued.routing = "select" THEN ChooseWorkflow(queued) ELSE NoWorkflow
  BY <1>4 DEF InWorkflow, TurnFields
<1> HIDE DEF placed
<1>6. /\ Same(t) /\ t.wf = placed.wf
      /\ t.pick = IF placed.routing = "out" THEN NoPick ELSE ChooseStep(placed)
  BY <1>5 DEF AtStep, TurnFields
<1> HIDE DEF t
<1>7. Regular(model)
  BY <1>2, ModelNumbers DEF GoodTurn
<1>8. GoodPick(model, placed.target) /\ (placed.shadow.step = None => placed.target = NoPick)
  BY <1>3, <1>4, <1>5, <1>7, ShadowTargetGood
<1>9. GoodWorkflow(model, placed.wf) /\ GoodWorkflow(model, ChooseWorkflow(placed))
  BY <1>4, <1>5, <1>7, ChooseWorkflowGood, NoWorkflowIsGood
<1>10. GoodTurn(placed)
  BY <1>2, <1>5 DEF GoodTurn
<1> DEFINE wf == IF placed.wf # NoWorkflow THEN placed.wf ELSE ChooseWorkflow(placed)
<1>11. GoodWorkflow(model, wf) /\ ChooseStep(placed) = ChooseStepIn(placed, wf)
  BY <1>9 DEF ChooseStep
<1> HIDE DEF wf
<1>12. /\ GoodPick(model, ChooseStep(placed))
       /\ Unled(placed) => UnledPick(placed, ChooseStep(placed))
  <2>1. Unled(placed) => placed.target = NoPick
    BY <1>8 DEF Unled
  <2> QED
    BY <1>5, <1>8, <1>10, <1>11, <2>1, ChooseStepInGood
<1>13. Unled(t) => Unled(placed)
  BY <1>5, <1>6 DEF Unled
<1>14. ASSUME NEW p, UnledPick(placed, p) PROVE UnledPick(t, p)
  <2>1. /\ Place(t) = Place(placed) /\ SlotMap(t) = SlotMap(placed)
        /\ \A ws : AnswersPrompt(t, ws) = AnswersPrompt(placed, ws)
        /\ t.m = placed.m /\ t.words = placed.words /\ t.query = placed.query /\ t.ses = placed.ses
    BY <1>5, <1>6 DEF Place, SlotMap, AnswersPrompt
  <2>2. \A scope : GateOpen(placed, scope) => GateOpen(t, scope)
    BY <2>1 DEF GateOpen
  <2> QED
    BY <1>14, <2>1, <2>2 DEF UnledPick, Legal, GateStep
<1>15. GoodPick(model, NoPick) /\ UnledPick(t, NoPick)
  BY NoPickIsGood DEF UnledPick, Legal, NoOrder
<1>16. GoodPick(model, t.pick) /\ (Unled(t) => UnledPick(t, t.pick))
  BY <1>6, <1>12, <1>13, <1>14, <1>15
<1> QED
  BY <1>6, <1>9, <1>16 DEF PlannedTurn, t, placed, queued, ruled, before

----------------------------------------------------------------------------
(* What a stored session is like.                                          *)
LEMMA SesFieldsAre ==
  /\ SesFields = {"workflow", "order", "title", "mode", "bundle", "completed", "entry", "block",
                  "scope", "support", "rule", "queue", "slots", "minimum", "act", "supAct"}
  /\ DOMAIN NoActivation = {"scope", "order", "title", "support"}
  BY DEF SesFields, EmptySes, NoActivation

IsSes(s) == DOMAIN s = SesFields /\ DOMAIN s.act = DOMAIN NoActivation
SameBut(s, r) ==
    /\ r.workflow = s.workflow /\ r.order = s.order /\ r.title = s.title /\ r.mode = s.mode
    /\ r.bundle = s.bundle /\ r.completed = s.completed /\ r.entry = s.entry /\ r.block = s.block
    /\ r.scope = s.scope /\ r.support = s.support /\ r.rule = s.rule /\ r.queue = s.queue
    /\ r.slots = s.slots /\ r.minimum = s.minimum

\* Reconciling changes the order and the title of the activation only, to the session's.
LEMMA Reconciled ==
  ASSUME NEW s, IsSes(s)
  PROVE  LET r == Reconcile(s)
         IN  /\ IsSes(r) /\ SameBut(s, r) /\ r.supAct = s.supAct
             /\ r.act.scope = s.act.scope /\ r.act.support = s.act.support
             /\ \/ r.act = s.act
                \/ /\ s.scope # None /\ s.scope = s.act.scope
                   /\ Agree(s.order, s.act.order, NoOrder) /\ r.act.title = s.title
                   /\ r.act.order = IF s.order = NoOrder THEN s.act.order ELSE s.order
  BY SesFieldsAre DEF Reconcile, IsSes, SameBut

\* The activations that are kept when a session is loaded.
KeptAct(s) == IF s.scope = None \/ s.act.scope \in {None, s.scope} THEN s.act ELSE NoActivation
KeptSupAct(s) == IF s.scope = None \/ s.supAct.scope \in {None, s.scope} THEN s.supAct ELSE NoSupport

\* Cleaning a session changes its activations only.
LEMMA SanitizedFields ==
  ASSUME NEW s, IsSes(s)
  PROVE  LET c == Sanitized(s)
             a == KeptAct(s)
         IN  /\ IsSes(c) /\ SameBut(s, c) /\ c.supAct = KeptSupAct(s)
             /\ c.act.scope = a.scope /\ c.act.support = a.support
             /\ \/ c.act = a
                \/ /\ s.scope # None /\ s.scope = a.scope
                   /\ Agree(s.order, a.order, NoOrder) /\ c.act.title = s.title
                   /\ c.act.order = IF s.order = NoOrder THEN a.order ELSE s.order
<1> DEFINE k == [s EXCEPT !.act = IF @.scope \in {None, s.scope} THEN @ ELSE NoActivation,
                          !.supAct = IF @.scope \in {None, s.scope} THEN @ ELSE NoSupport]
<1>1. CASE s.scope = None
  <2>1. Sanitized(s) = s /\ KeptAct(s) = s.act /\ KeptSupAct(s) = s.supAct
    BY <1>1 DEF Sanitized, KeptAct, KeptSupAct
  <2> QED
    BY <2>1 DEF SameBut
<1>2. CASE s.scope # None
  <2>1. Sanitized(s) = Reconcile(k)
    BY <1>2 DEF Sanitized
  <2>2. /\ DOMAIN k = SesFields /\ SameBut(s, k)
        /\ k.act = KeptAct(s) /\ k.supAct = KeptSupAct(s)
    BY <1>2, SesFieldsAre DEF IsSes, SameBut, KeptAct, KeptSupAct
  <2>3. DOMAIN KeptAct(s) = DOMAIN NoActivation
    BY DEF KeptAct, IsSes
  <2> HIDE DEF k
  <2>4. IsSes(k)
    BY <2>2, <2>3 DEF IsSes
  <2> DEFINE r == Reconcile(k)
  <2>5. /\ IsSes(r) /\ SameBut(k, r) /\ r.supAct = k.supAct
        /\ r.act.scope = k.act.scope /\ r.act.support = k.act.support
        /\ \/ r.act = k.act
           \/ /\ k.scope # None /\ k.scope = k.act.scope
              /\ Agree(k.order, k.act.order, NoOrder) /\ r.act.title = k.title
              /\ r.act.order = IF k.order = NoOrder THEN k.act.order ELSE k.order
    BY <2>4, Reconciled
  <2> HIDE DEF r
  <2>6. k.scope = s.scope /\ k.order = s.order /\ k.title = s.title
    BY <2>2 DEF SameBut
  <2>7. SameBut(s, r)
    BY <2>2, <2>5 DEF SameBut
  <2> QED
    BY <2>1, <2>2, <2>5, <2>6, <2>7 DEF r
<1> QED
  BY <1>1, <1>2

\* The activations that are kept agree with the session.
Sound(s) ==
    /\ s.mode # "bundled" => s.bundle = <<>> /\ s.entry = None /\ ~s.completed
    /\ s.act.scope \in {None, s.scope} =>
          /\ Agree(s.order, s.act.order, NoOrder)
          /\ Agree(s.title, s.act.title, None)
          /\ Agree(s.support, s.act.support, None)
    /\ s.supAct.scope \in {None, s.scope} => Agree(s.support, s.supAct.module, None)

\* What the validator accepts is sound.
LEMMA ValidIsSound ==
  ASSUME NEW s, Valid(s)
  PROVE  Sound(s)
  BY DEF Valid, Sound, Agree, NoActivation, NoSupport

\* Reconciling a sound session keeps it sound.
LEMMA ReconcileKeepsSound ==
  ASSUME NEW s, IsSes(s), Sound(s)
  PROVE  Sound(Reconcile(s))
<1> DEFINE r == Reconcile(s)
<1>1. /\ SameBut(s, r) /\ r.supAct = s.supAct
      /\ r.act.scope = s.act.scope /\ r.act.support = s.act.support
      /\ \/ r.act = s.act
         \/ /\ s.scope = s.act.scope
            /\ Agree(s.order, s.act.order, NoOrder) /\ r.act.title = s.title
            /\ r.act.order = IF s.order = NoOrder THEN s.act.order ELSE s.order
  BY Reconciled
<1> HIDE DEF r
<1>2. Sound(r)
  BY <1>1 DEF Sound, SameBut, Agree
<1> QED
  BY <1>2 DEF r

\* A sound session stored inside a step can be loaded.
LEMMA SoundLoads ==
  ASSUME NEW s, IsSes(s), Sound(s), s.scope # None, s.title # None, NEW p
  PROVE  Valid(Loaded(s, p))
<1> DEFINE c == Sanitized(s)
           l == Loaded(s, p)
           a == KeptAct(s)
<1>1. s # EmptySes
  BY DEF EmptySes
<1>2. /\ IsSes(c) /\ SameBut(s, c) /\ c.supAct = KeptSupAct(s)
      /\ c.act.scope = a.scope /\ c.act.support = a.support
      /\ \/ c.act = a
         \/ /\ s.scope = a.scope /\ Agree(s.order, a.order, NoOrder) /\ c.act.title = s.title
            /\ c.act.order = IF s.order = NoOrder THEN a.order ELSE s.order
  BY SanitizedFields
<1>3. l = [c EXCEPT !.workflow = IF @ # None THEN @ ELSE p.workflow,
                    !.title = IF @ # None THEN @ ELSE p.title,
                    !.order = IF s = EmptySes THEN p.order ELSE @]
  BY DEF Loaded
<1> HIDE DEF c, l
<1>4. /\ l.order = s.order /\ l.title = s.title /\ l.mode = s.mode /\ l.bundle = s.bundle
      /\ l.completed = s.completed /\ l.entry = s.entry /\ l.scope = s.scope
      /\ l.support = s.support /\ l.act = c.act /\ l.supAct = c.supAct
  BY <1>1, <1>2, <1>3, SesFieldsAre DEF IsSes, SameBut
<1>5. /\ a.scope \in {None, s.scope}
      /\ Agree(s.order, a.order, NoOrder) /\ Agree(s.title, a.title, None)
      /\ Agree(s.support, a.support, None)
  BY DEF Sound, KeptAct, NoActivation, Agree
<1>6. /\ KeptSupAct(s).scope \in {None, s.scope}
      /\ Agree(s.support, KeptSupAct(s).module, None)
  BY DEF Sound, KeptSupAct, NoSupport, Agree
<1> HIDE DEF a
<1>7. Valid(l)
  BY <1>2, <1>4, <1>5, <1>6 DEF Valid, Agree, Sound
<1> QED
  BY <1>7 DEF l

\* Where a session, or its progress, may be: a session's step, if it is a step of any
\* model, has the session's order or the activation's.
InPlace(s) ==
    /\ IsSes(s)
    /\ s.order \in Int /\ s.act.order \in Int /\ s.slots \subseteq SlotWords /\ s.minimum \in Nat
    /\ s.scope = None =>
          /\ s.act = NoActivation
          /\ \/ s.supAct = NoSupport
             \/ s.support # None /\ s.supAct.module # None /\ s.support # s.supAct.module
    /\ s.scope # None =>
          \A n : <<s.scope, n>> \in AllNumbers =>
                    n \in {NoOrder, s.order} \/ (n = s.act.order /\ s.act.scope = s.scope)
ProgressInPlace(p) == DOMAIN p = DOMAIN NoProgress /\ p.order \in Int
\* A session inside a step, with that step's title and order, that has not switched its
\* module is sound.
InStep(s) == /\ s.scope # None /\ s.title = s.scope
             /\ s.order = NoOrder \/ <<s.scope, s.order>> \in AllNumbers
Settled(s) == InStep(s) /\ s.act.support \in {None, s.support} => Sound(s)

\* The state a turn starts from.
LEMMA BeforeTheTurn ==
  ASSUME NEW s, InPlace(s), NEW p, ProgressInPlace(p), Valid(Loaded(s, p))
  PROVE  LET b == Filled(Loaded(s, p))
         IN  /\ b.order \in Int /\ b.slots = s.slots /\ b.minimum = s.minimum
             /\ b.scope # None => \A n : <<b.scope, n>> \in AllNumbers => n \in {NoOrder, b.order}
<1> DEFINE c == Sanitized(s)
           a == KeptAct(s)
           l == Loaded(s, p)
           b == Filled(l)
<1>1. IsSes(s) /\ s.order \in Int /\ s.act.order \in Int
  BY DEF InPlace
<1>2. /\ IsSes(c) /\ SameBut(s, c) /\ c.supAct = KeptSupAct(s)
      /\ c.act.scope = a.scope
      /\ \/ c.act = a
         \/ /\ s.scope # None /\ Agree(s.order, a.order, NoOrder)
            /\ c.act.order = IF s.order = NoOrder THEN a.order ELSE s.order
  BY <1>1, SanitizedFields
<1>3. l = [c EXCEPT !.workflow = IF @ # None THEN @ ELSE p.workflow,
                    !.title = IF @ # None THEN @ ELSE p.title,
                    !.order = IF s = EmptySes THEN p.order ELSE @]
  BY DEF Loaded
<1>a. Valid(l)
  OBVIOUS
<1> HIDE DEF c, l
<1>4. /\ DOMAIN l = SesFields /\ l.act = c.act /\ l.supAct = c.supAct /\ l.scope = s.scope
      /\ l.support = s.support /\ l.slots = s.slots /\ l.minimum = s.minimum
      /\ l.title = IF s.title # None THEN s.title ELSE p.title
      /\ l.order = IF s = EmptySes THEN p.order ELSE s.order
  BY <1>2, <1>3, SesFieldsAre DEF IsSes, SameBut
<1>5. /\ b.order = IF l.order = NoOrder THEN l.act.order ELSE l.order
      /\ b.title = IF l.title = None THEN l.act.title ELSE l.title
      /\ b.scope = IF l.scope # None THEN l.scope
                   ELSE IF l.act.scope # None THEN l.act.scope ELSE l.supAct.scope
      /\ b.slots = l.slots /\ b.minimum = l.minimum
  BY <1>4, SesFieldsAre DEF Filled
<1> HIDE DEF b
<1>6. a = s.act \/ a = NoActivation
  BY DEF KeptAct
<1>7. NoActivation.order = NoOrder /\ NoOrder \in Int /\ NoActivation.scope = None /\ NoActivation.title = None
  BY DEF NoActivation, NoOrder
<1>8. a.order \in Int /\ c.act.order \in Int
  BY <1>1, <1>2, <1>6, <1>7
<1>9. p.order \in Int
  BY DEF ProgressInPlace
<1>10. b.order \in Int
  BY <1>1, <1>4, <1>5, <1>8, <1>9
<1>11. CASE s = EmptySes
  <2>1. s.scope = None /\ s.title = None /\ s.act = NoActivation /\ s.supAct = NoSupport
    BY <1>11 DEF EmptySes
  <2>2. c.act = NoActivation /\ c.supAct = NoSupport
    BY <1>2, <2>1 DEF KeptAct, KeptSupAct
  <2>3. b.scope = None
    BY <1>4, <1>5, <1>7, <2>1, <2>2 DEF NoSupport
  <2>4. b.order = p.order /\ b.title = p.title
    BY <1>4, <1>5, <1>7, <1>11, <2>1, <2>2
  <2> QED
    BY <1>4, <1>5, <1>10, <2>3, <2>4 DEF ProgressInPlace, b, l
<1>12. CASE s # EmptySes
  <2>2. s.order # NoOrder => b.order = s.order
    BY <1>4, <1>5, <1>12
  <2>4. CASE s.scope = None
    <3>1. s.act = NoActivation /\ c.act = NoActivation /\ c.supAct = s.supAct
      BY <1>2, <2>4 DEF InPlace, KeptAct, KeptSupAct
    <3>2. s.supAct = NoSupport
      <4> SUFFICES ASSUME s.supAct # NoSupport PROVE FALSE
        OBVIOUS
      <4>1. s.support # None /\ s.supAct.module # None /\ s.support # s.supAct.module
        BY <2>4 DEF InPlace
      <4>2. Agree(s.support, s.supAct.module, None)
        BY <1>4, <1>a, <3>1 DEF Valid
      <4> QED
        BY <4>1, <4>2 DEF Agree
    <3>3. b.scope = None
      BY <1>4, <1>5, <1>7, <2>4, <3>1, <3>2 DEF NoSupport
    <3> QED
      BY <1>4, <1>5, <1>10, <3>3 DEF b, l
  <2>5. CASE s.scope # None
    <3>1. b.scope = s.scope
      BY <1>4, <1>5, <2>5
    <3>2. ASSUME NEW n, <<s.scope, n>> \in AllNumbers PROVE n \in {NoOrder, b.order}
      <4>1. CASE n \in {NoOrder, s.order}
        BY <2>2, <4>1
      <4>2. CASE n = s.act.order /\ s.act.scope = s.scope /\ n # NoOrder
        <5>1. a = s.act /\ c.act.scope = s.scope
          BY <1>2, <4>2 DEF KeptAct
        <5>2. c.act # NoActivation
          BY <1>7, <2>5, <5>1
        <5>3. Agree(l.order, l.act.order, NoOrder)
          BY <1>4, <1>a, <5>2 DEF Valid
        <5>4. s.order \in {NoOrder, n}
          BY <1>2, <1>4, <1>12, <4>2, <5>1, <5>3 DEF Agree
        <5>5. s.order = NoOrder => c.act.order = n
          BY <1>2, <4>2, <5>1
        <5> QED
          BY <1>4, <1>5, <1>12, <5>4, <5>5
      <4> QED
        BY <2>5, <3>2, <4>1, <4>2 DEF InPlace
    <3> QED
      BY <1>4, <1>5, <1>10, <3>1, <3>2 DEF b, l
  <2> QED
    BY <2>4, <2>5
<1> QED
  BY <1>11, <1>12 DEF b, l

\* The state of a planned turn, before the modules are laid over it.
LEMMA ContextFields ==
  ASSUME NEW t
  PROVE  LET c == Context(t)
             l == Layered(t.m, t.pick)
         IN  /\ DOMAIN c = SesFields
             /\ c.order = IF t.pick.order # NoOrder THEN t.pick.order ELSE t.ses.order
             /\ c.title = IF t.pick.scope # None THEN t.pick.scope ELSE t.ses.title
             /\ c.minimum = IF t.pick.gate # 0 THEN t.pick.gate ELSE t.ses.minimum
             /\ c.slots = SlotMap(t)
             /\ c.scope = t.pick.scope /\ c.support = t.pick.support
             /\ c.act = IF t.pick.scope = None THEN NoActivation
                        ELSE [scope |-> t.pick.scope, order |-> t.pick.order,
                              title |-> t.pick.scope, support |-> t.pick.support]
             /\ c.supAct = IF t.pick.support = None THEN NoSupport
                           ELSE [module |-> t.pick.support, scope |-> t.pick.scope]
             /\ c.mode = l.mode /\ c.bundle = l.bundle /\ c.entry = l.entry
             /\ c.completed = l.completed
<1> DEFINE l == Layered(t.m, t.pick)
<1>1. /\ DOMAIN l = SesFields /\ l.scope = t.pick.scope /\ l.support = t.pick.support
      /\ l.act = IF t.pick.scope = None THEN NoActivation
                 ELSE [scope |-> t.pick.scope, order |-> t.pick.order,
                       title |-> t.pick.scope, support |-> t.pick.support]
      /\ l.supAct = IF t.pick.support = None THEN NoSupport
                    ELSE [module |-> t.pick.support, scope |-> t.pick.scope]
  BY LayeredFields DEF Layered, EmptySes
<1> HIDE DEF l
<1>2. Context(t) =
        [l EXCEPT
           !.workflow = IF t.wf # NoWorkflow THEN t.wf.id ELSE t.ses.workflow,
           !.title = IF t.pick.scope # None THEN t.pick.scope ELSE t.ses.title,
           !.order = IF t.pick.order # NoOrder THEN t.pick.order ELSE t.ses.order,
           !.block = ActiveBlock(t).id,
           !.slots = SlotMap(t),
           !.minimum = IF t.pick.gate # 0 THEN t.pick.gate ELSE t.ses.minimum]
  BY DEF Context, l
<1> QED
  BY <1>1, <1>2, SesFieldsAre DEF l

\* A step that is neither bundled nor without a mode brings no bundle.
LEMMA NoBundleLayered ==
  ASSUME NEW m, Regular(m), NEW d, IsDef(m, d), d.mode \notin {None, "bundled"},
         NEW p, GoodPick(m, p), p.scope \in {None, d.id}
  PROVE  LET l == Layered(m, p)
         IN  l.bundle = <<>> /\ l.entry = None /\ ~l.completed
<1> DEFINE def == StepDefinition(m, p.scope)
<1>1. CASE p.scope = None
  <2>1. def = NoStepDef
    BY <1>1, StepDefinitionFound
  <2>2. /\ NoStepDef.mode = None /\ NoStepDef.bundled = <<>> /\ None # "bundled"
    BY DEF NoStepDef, None
  <2>3. BundleDefinition(m, def) = NoStepDef
    BY <2>1, <2>2 DEF BundleDefinition
  <2>4. p.mode = None
    BY <1>1 DEF GoodPick
  <2> QED
    BY <2>2, <2>3, <2>4 DEF Layered, EmptySes
<1>2. CASE p.scope = d.id
  <2>1. def = d /\ d.bundled = <<>>
    BY <1>2, StepDefinitions
  <2>2. BundleDefinition(m, def) = d
    BY <2>1 DEF BundleDefinition
  <2> QED
    BY <2>1, <2>2 DEF Layered, EmptySes
<1> QED
  BY <1>1, <1>2

\* The fields InPlace and Sound are about.
SamePlace(s, r) ==
    /\ r.order = s.order /\ r.title = s.title /\ r.mode = s.mode /\ r.bundle = s.bundle
    /\ r.completed = s.completed /\ r.entry = s.entry /\ r.scope = s.scope
    /\ r.support = s.support /\ r.slots = s.slots /\ r.minimum = s.minimum
    /\ r.act = s.act /\ r.supAct = s.supAct

\* The state of a planned turn is in its place.
LEMMA ContextInPlace ==
  ASSUME NEW t, t.m \in Models, GoodPick(t.m, t.pick), t.ses.order \in Int,
         t.ses.minimum \in Nat, SlotMap(t) \subseteq SlotWords
  PROVE  InPlace(Context(t))
<1> DEFINE c == Context(t)
           p == t.pick
<1>1. /\ DOMAIN c = SesFields
      /\ c.order = IF p.order # NoOrder THEN p.order ELSE t.ses.order
      /\ c.title = IF p.scope # None THEN p.scope ELSE t.ses.title
      /\ c.minimum = IF p.gate # 0 THEN p.gate ELSE t.ses.minimum
      /\ c.slots = SlotMap(t) /\ c.scope = p.scope
      /\ c.act = IF p.scope = None THEN NoActivation
                 ELSE [scope |-> p.scope, order |-> p.order, title |-> p.scope, support |-> p.support]
      /\ c.supAct = IF p.support = None THEN NoSupport ELSE [module |-> p.support, scope |-> p.scope]
  BY ContextFields
<1>2. /\ p.gate \in Nat /\ p.order \in Int
      /\ p.scope = None => p.order = NoOrder /\ p.support = None
      /\ p.scope # None => <<p.scope, p.order>> \in AllNumbers
  BY ModelNumbers DEF GoodPick
<1> HIDE DEF c, p
<1>3. DOMAIN c.act = DOMAIN NoActivation /\ c.act.order \in Int
  BY <1>1, <1>2 DEF NoActivation, NoOrder
<1>6. c.scope = None => c.act = NoActivation /\ c.supAct = NoSupport
  BY <1>1, <1>2
<1>7. ASSUME c.scope # None, NEW n, <<c.scope, n>> \in AllNumbers
      PROVE  n \in {NoOrder, c.order}
  <2>1. n = p.order
    BY <1>1, <1>2, <1>7, OneOrder
  <2> QED
    BY <1>1, <2>1
<1>8. c.order \in Int /\ c.minimum \in Nat /\ c.slots \subseteq SlotWords
  BY <1>1, <1>2
<1> QED
  BY <1>1, <1>3, <1>6, <1>7, <1>8 DEF InPlace, IsSes, c

\* Reconciling a session keeps it in its place.
LEMMA ReconcileInPlace ==
  ASSUME NEW s, InPlace(s), Settled(s)
  PROVE  LET r == Reconcile(s)
         IN  InPlace(r) /\ Settled(r) /\ SameBut(s, r)
<1> DEFINE r == Reconcile(s)
<1>1. IsSes(s) /\ (Sound(s) => Sound(r))
  BY ReconcileKeepsSound DEF InPlace
<1>2. /\ IsSes(r) /\ SameBut(s, r) /\ r.supAct = s.supAct
      /\ r.act.scope = s.act.scope /\ r.act.support = s.act.support
      /\ \/ r.act = s.act
         \/ /\ s.scope # None /\ s.scope = s.act.scope
            /\ Agree(s.order, s.act.order, NoOrder) /\ r.act.title = s.title
            /\ r.act.order = IF s.order = NoOrder THEN s.act.order ELSE s.order
  BY <1>1, Reconciled
<1> HIDE DEF r
<1>3. Settled(r)
  BY <1>1, <1>2 DEF Settled, InStep, SameBut
<1>4. /\ r.order = s.order /\ r.title = s.title /\ r.scope = s.scope /\ r.support = s.support
      /\ r.slots = s.slots /\ r.minimum = s.minimum
  BY <1>2 DEF SameBut
<1>5. r.act.order \in Int /\ (r.order = NoOrder => r.act.order = s.act.order)
  BY <1>2, <1>4 DEF InPlace
<1>6. s.act.order # NoOrder => r.act.order = s.act.order
  BY <1>2 DEF Agree
<1>7. r.scope = None => r.act = s.act
  BY <1>2, <1>4
<1>8. InPlace(r)
  BY <1>2, <1>4, <1>5, <1>6, <1>7 DEF InPlace
<1> QED
  BY <1>2, <1>3, <1>8 DEF r

\* The blocks of the modules that take a turn over.
LEMMA ModuleBlock ==
  ASSUME NEW m, Regular(m), NEW id, ServiceBlock(m, id).type # None
  PROVE  LET b == ServiceBlock(m, id)
         IN  b.id # None /\ ServiceBlock(m, b.id) = b
  BY ServiceBlockFound DEF NoBlock

\* What laying the modules over a state leaves of its place.
Laid(c, w) == /\ InPlace(w) /\ Settled(w)
              /\ w.order \in {NoOrder, c.order}
              /\ w.order # NoOrder /\ c.scope # None => w.scope = c.scope
              /\ w.slots = c.slots /\ w.minimum = c.minimum

\* A follow-up module that takes the turn over leaves the step.
LEMMA FollowupLaid ==
  ASSUME NEW t, t.m \in Models, GoodPick(t.m, t.pick), InPlace(Context(t)),
         NEW x, DOMAIN x = SesFields, SamePlace(Context(t), x),
         NEW id, ServiceBlock(t.m, id).type = "followup_module"
  PROVE  Laid(x, EnterFollowup(t, x, ServiceBlock(t.m, id)))
<1> DEFINE b == ServiceBlock(t.m, id)
           w == EnterFollowup(t, x, b)
<1>1. b.type = "followup_module" /\ b.id # None /\ ServiceBlock(t.m, b.id) = b
  BY ModelNumbers, ModuleBlock DEF None
<1>2. x.supAct = Context(t).supAct
  BY DEF SamePlace
<1>3. x.supAct = NoSupport \/ (/\ x.supAct.module = t.pick.support /\ t.pick.support # None
                               /\ ServiceBlock(t.m, t.pick.support).type = "support_module")
  <2>1. Context(t).supAct = IF t.pick.support = None THEN NoSupport
                            ELSE [module |-> t.pick.support, scope |-> t.pick.scope]
    BY ContextFields
  <2>2. t.pick.support # None => ServiceBlock(t.m, t.pick.support).type = "support_module"
    BY DEF GoodPick
  <2> QED
    BY <1>2, <2>1, <2>2
<1>4. x.slots \subseteq SlotWords /\ x.minimum \in Nat
  BY DEF InPlace, SamePlace
<1> HIDE DEF b
<1>5. /\ DOMAIN w = SesFields /\ w.scope = None /\ w.act = NoActivation /\ w.order = NoOrder
      /\ w.title = b.id /\ w.support = b.id /\ w.supAct = x.supAct
      /\ w.slots = x.slots /\ w.minimum = x.minimum
  BY SesFieldsAre DEF EnterFollowup, LeaveStep
<1> HIDE DEF w
<1>6. w.supAct = NoSupport \/ (w.supAct.module # None /\ w.support # w.supAct.module)
  BY <1>1, <1>3, <1>5
<1>7. InPlace(w) /\ Settled(w)
  BY <1>1, <1>4, <1>5, <1>6 DEF InPlace, IsSes, Settled, InStep, NoActivation, NoOrder
<1>8. Laid(x, w)
  BY <1>5, <1>7 DEF Laid
<1> QED
  BY <1>8 DEF w, b

\* So does a turn that stays with the interaction logic.
LEMMA LogicLaid ==
  ASSUME NEW t, NEW x, InPlace(x)
  PROVE  Laid(x, StayWithLogic(t, x))
<1> DEFINE w == StayWithLogic(t, x)
<1>1. DOMAIN x = SesFields /\ x.slots \subseteq SlotWords /\ x.minimum \in Nat
  BY DEF InPlace, IsSes
<1>2. /\ DOMAIN w = SesFields /\ w.scope = None /\ w.act = NoActivation /\ w.order = NoOrder
      /\ w.supAct = NoSupport /\ w.slots = x.slots /\ w.minimum = x.minimum
  BY <1>1, SesFieldsAre DEF StayWithLogic, LeaveStep
<1> HIDE DEF w
<1>3. InPlace(w) /\ Settled(w)
  BY <1>1, <1>2 DEF InPlace, IsSes, Settled, InStep, NoActivation, NoOrder
<1>4. Laid(x, w)
  BY <1>2, <1>3 DEF Laid
<1> QED
  BY <1>4 DEF w

\* A support module opens its procedure's first step, or keeps the one that was chosen.
LEMMA SupportLaid ==
  ASSUME NEW t, t.m \in Models, GoodPick(t.m, t.pick), InPlace(Context(t)), Valid(Context(t)),
         NEW x, DOMAIN x = SesFields, SamePlace(Context(t), x),
         NEW id, ServiceBlock(t.m, id).type = "support_module"
  PROVE  Laid(x, EnterSupport(t, x, ServiceBlock(t.m, id)))
<1> DEFINE c == Context(t)
           p == t.pick
           b == ServiceBlock(t.m, id)
           steps == ProcedureSteps(t.m, ProcedureOfBlock(t.m, b.id).id)
           first == steps[1]
           inside == [x EXCEPT !.block = b.id, !.support = b.id]
           opened == [inside EXCEPT !.supAct = [module |-> b.id, scope |-> first.id]]
           begun == [opened EXCEPT
                !.scope = first.id,
                !.act = [scope |-> first.id, order |-> first.order, title |-> first.id,
                         support |-> b.id],
                !.mode = IF first.mode # None THEN first.mode ELSE @,
                !.bundle = IF first.bundled # <<>> THEN first.bundled ELSE @,
                !.entry = IF first.bundled # <<>> THEN first.bundled[1] ELSE @,
                !.completed = @ /\ first.bundled = <<>>]
           w == EnterSupport(t, x, b)
<1> SUFFICES Laid(x, w)
  OBVIOUS
<1>0. Regular(t.m) /\ Numbers(t.m) \subseteq AllNumbers
  BY ModelNumbers
<1>1. b.id # None
  BY <1>0, ModuleBlock DEF None
<1>2. steps # <<>> => IsDef(t.m, first)
  BY <1>0, ProcedureStepsFound
<1>3. Sound(c) /\ InPlace(c)
  BY ValidIsSound
<1>4. /\ c.scope = p.scope
      /\ c.act = IF p.scope = None THEN NoActivation
                 ELSE [scope |-> p.scope, order |-> p.order, title |-> p.scope, support |-> p.support]
      /\ c.supAct = IF p.support = None THEN NoSupport ELSE [module |-> p.support, scope |-> p.scope]
  BY ContextFields
<1>5. p.scope = None => p.support = None
  BY DEF GoodPick
<1>6. steps # <<>> /\ c.scope \in {None, first.id} /\ first.mode \notin {None, "bundled"}
        => c.bundle = <<>> /\ c.entry = None /\ ~c.completed
  <2>1. LET l == Layered(t.m, p)
        IN  c.bundle = l.bundle /\ c.entry = l.entry /\ c.completed = l.completed /\ c.scope = p.scope
    BY ContextFields
  <2> SUFFICES ASSUME steps # <<>>, c.scope \in {None, first.id}, first.mode \notin {None, "bundled"}
               PROVE  c.bundle = <<>> /\ c.entry = None /\ ~c.completed
    OBVIOUS
  <2> HIDE DEF c, steps
  <2> QED
    BY <1>0, <1>2, <2>1, NoBundleLayered
<1>7. w = IF steps = <<>> THEN inside ELSE IF x.scope \notin {None, first.id} THEN opened ELSE begun
  BY DEF EnterSupport
<1>8. steps # <<>> => /\ first.id # None /\ first.order \in Int /\ <<first.id, first.order>> \in AllNumbers
                      /\ (first.bundled # <<>> => first.mode = "bundled")
  BY <1>0, <1>2, StepDefinitions
<1>9. /\ x.order = c.order /\ x.title = c.title /\ x.mode = c.mode /\ x.bundle = c.bundle
      /\ x.completed = c.completed /\ x.entry = c.entry /\ x.scope = c.scope
      /\ x.support = c.support /\ x.slots = c.slots /\ x.minimum = c.minimum
      /\ x.act = c.act /\ x.supAct = c.supAct
  BY DEF SamePlace
<1> HIDE DEF c, p, b, steps, w
<1>10. /\ DOMAIN inside = SesFields /\ inside.support = b.id
       /\ inside.order = c.order /\ inside.title = c.title /\ inside.mode = c.mode
       /\ inside.bundle = c.bundle /\ inside.completed = c.completed /\ inside.entry = c.entry
       /\ inside.scope = c.scope /\ inside.slots = c.slots /\ inside.minimum = c.minimum
       /\ inside.act = c.act /\ inside.supAct = c.supAct
  BY <1>9, SesFieldsAre
<1> HIDE DEF inside
<1>11. /\ DOMAIN opened = SesFields /\ opened.support = b.id
       /\ opened.order = c.order /\ opened.title = c.title /\ opened.mode = c.mode
       /\ opened.bundle = c.bundle /\ opened.completed = c.completed /\ opened.entry = c.entry
       /\ opened.scope = c.scope /\ opened.slots = c.slots /\ opened.minimum = c.minimum
       /\ opened.act = c.act /\ opened.supAct = [module |-> b.id, scope |-> first.id]
  BY <1>10, SesFieldsAre
<1> HIDE DEF opened
<1>12. CASE w = inside
  <2>1. InPlace(inside)
    BY <1>3, <1>4, <1>5, <1>10 DEF InPlace, IsSes
  <2>2. Settled(inside)
    <3> SUFFICES ASSUME c.scope # None, c.act.support \in {None, b.id}
                 PROVE  Sound(inside)
      BY <1>10 DEF Settled, InStep
    <3>1. c.supAct.module \in {None, b.id}
      BY <1>4 DEF NoSupport
    <3> QED
      BY <1>3, <1>10, <3>1 DEF Sound, Agree
  <2> QED
    BY <1>9, <1>10, <1>12, <2>1, <2>2 DEF Laid
<1>13. CASE w = opened /\ steps # <<>> /\ x.scope \notin {None, first.id}
  <2>1. InPlace(opened)
    BY <1>3, <1>9, <1>11, <1>13 DEF InPlace, IsSes
  <2>2. Settled(opened)
    <3> SUFFICES ASSUME c.act.support \in {None, b.id}
                 PROVE  Sound(opened)
      BY <1>11 DEF Settled
    <3>1. opened.supAct.scope \notin {None, opened.scope}
      BY <1>8, <1>9, <1>11, <1>13
    <3> QED
      BY <1>3, <1>11, <3>1 DEF Sound, Agree
  <2> QED
    BY <1>9, <1>11, <1>13, <2>1, <2>2 DEF Laid
<1>14. CASE w = begun /\ steps # <<>> /\ x.scope \in {None, first.id}
  <2>1. /\ DOMAIN begun = SesFields /\ begun.support = b.id
        /\ begun.order = c.order /\ begun.title = c.title
        /\ begun.mode = IF first.mode # None THEN first.mode ELSE c.mode
        /\ begun.bundle = IF first.bundled # <<>> THEN first.bundled ELSE c.bundle
        /\ begun.completed = (c.completed /\ first.bundled = <<>>)
        /\ begun.entry = IF first.bundled # <<>> THEN first.bundled[1] ELSE c.entry
        /\ begun.scope = first.id /\ begun.slots = c.slots /\ begun.minimum = c.minimum
        /\ begun.act = [scope |-> first.id, order |-> first.order, title |-> first.id, support |-> b.id]
        /\ begun.supAct = [module |-> b.id, scope |-> first.id]
    BY <1>11, SesFieldsAre
  <2>2. first.order \in Int /\ first.id # None
    BY <1>8, <1>14
  <2> HIDE DEF begun
  <2>3. \A n : <<first.id, n>> \in AllNumbers => n = first.order
    BY <1>8, <1>14, OneOrder
  <2>4. DOMAIN begun.act = DOMAIN NoActivation /\ begun.act.order = first.order /\ begun.act.scope = begun.scope
    BY <2>1, <2>2 DEF NoActivation
  <2>5. InPlace(begun)
    BY <1>3, <2>1, <2>2, <2>3, <2>4 DEF InPlace, IsSes
  <2>6. Settled(begun)
    <3> SUFFICES ASSUME begun.title = first.id,
                        begun.order = NoOrder \/ <<first.id, begun.order>> \in AllNumbers
                 PROVE  Sound(begun)
      BY <2>1 DEF Settled, InStep
    <3>1. begun.order \in {NoOrder, first.order}
      BY <2>3
    <3>2. begun.mode # "bundled" => begun.bundle = <<>> /\ begun.entry = None /\ ~begun.completed
      <4> SUFFICES ASSUME begun.mode # "bundled"
                   PROVE  begun.bundle = <<>> /\ begun.entry = None /\ ~begun.completed
        OBVIOUS
      <4>1. first.bundled = <<>>
        BY <1>8, <1>14, <2>1 DEF None
      <4>2. CASE first.mode = None
        BY <1>3, <2>1, <4>1, <4>2 DEF Sound
      <4>3. CASE first.mode # None
        BY <1>6, <1>9, <1>14, <2>1, <4>1, <4>3
      <4> QED
        BY <4>2, <4>3
    <3>3. /\ begun.act.order = first.order /\ begun.act.title = begun.title /\ begun.act.support = begun.support
          /\ begun.supAct.module = begun.support
      <4>1. /\ begun.act = [scope |-> first.id, order |-> first.order, title |-> first.id, support |-> b.id]
            /\ begun.supAct = [module |-> b.id, scope |-> first.id] /\ begun.support = b.id
        BY <2>1
      <4> HIDE DEF first
      <4>2. begun.act.order = first.order /\ begun.act.title = first.id /\ begun.act.support = b.id
        BY <4>1
      <4>3. begun.supAct.module = b.id
        BY <4>1
      <4> QED
        BY <4>1, <4>2, <4>3
    <3> QED
      BY <3>1, <3>2, <3>3 DEF Sound, Agree
  <2> QED
    BY <1>9, <1>14, <2>1, <2>5, <2>6 DEF Laid
<1> QED
  BY <1>7, <1>12, <1>13, <1>14

\* Whatever module takes the turn over, the state is in its place.
LEMMA ModulesLaid ==
  ASSUME NEW t, t.m \in Models, GoodPick(t.m, t.pick), InPlace(Context(t)), Valid(Context(t))
  PROVE  Laid(Context(t), WithModules(t, Context(t)))
<1> DEFINE c == Context(t)
           x == [c EXCEPT !.rule = IF t.rule # None THEN t.rule ELSE @, !.queue = t.queue]
           target == t.target.support
           candidates == (IF target = None THEN <<>> ELSE <<target>>)
                           \o SelectSeq(t.queue, LAMBDA b : b # target)
           Leads(b) == \/ ServiceBlock(t.m, b).type = "support_module"
                       \/ FollowupActivates(t, b)
           id == FirstOr(candidates, Leads, None)
           primary == ServiceBlock(t.m, id)
           y == IF primary.type = "followup_module" THEN EnterFollowup(t, x, primary)
                ELSE IF primary.type = "support_module" THEN EnterSupport(t, x, primary)
                ELSE IF LogicOnly(t) THEN StayWithLogic(t, x)
                ELSE x
<1>1. PrimaryModule(t) = primary
  BY DEF PrimaryModule
<1>2. WithModules(t, c) = Reconcile(y)
  BY <1>1 DEF WithModules
<1> HIDE DEF id
<1>3. InPlace(c) /\ Sound(c) /\ DOMAIN c = SesFields
  BY ValidIsSound DEF InPlace, IsSes
<1>4. DOMAIN x = SesFields /\ SamePlace(c, x)
  <2> HIDE DEF c
  <2> QED
    BY <1>3, SesFieldsAre DEF SamePlace
<1> HIDE DEF x
<1>5. InPlace(x) /\ Settled(x) /\ Laid(x, x)
  <2> HIDE DEF c
  <2>1. InPlace(x)
    BY <1>3, <1>4 DEF InPlace, IsSes, SamePlace
  <2>2. Sound(x)
    BY <1>3, <1>4 DEF Sound, SamePlace
  <2> QED
    BY <2>1, <2>2 DEF Settled, Laid
<1>6. Laid(x, y)
  <2>1. CASE primary.type = "followup_module"
    BY <1>4, <2>1, FollowupLaid
  <2>2. CASE primary.type = "support_module"
    BY <1>4, <2>2, SupportLaid
  <2>3. Laid(x, StayWithLogic(t, x))
    BY <1>5, LogicLaid
  <2> QED
    BY <1>5, <2>1, <2>2, <2>3
<1> HIDE DEF y
<1>7. /\ InPlace(Reconcile(y)) /\ Settled(Reconcile(y)) /\ SameBut(y, Reconcile(y))
  BY <1>6, ReconcileInPlace DEF Laid
<1>8. Laid(c, Reconcile(y))
  <2> HIDE DEF c
  <2> QED
    BY <1>4, <1>6, <1>7 DEF Laid, SamePlace, SameBut
<1> QED
  BY <1>2, <1>8

----------------------------------------------------------------------------
(* The inductive invariant of planning, and what follows from it.          *)
PlanInv ==
    /\ model \in Models
    /\ InPlace(ses) /\ Settled(ses) /\ ProgressInPlace(progress)
    /\ pc \in {"answer", "state"} =>
          InPlace(turn.ses) /\ Settled(turn.ses) /\ ProgressInPlace(turn.progress)

\* What a turn that is planned may be built on, and what it makes.
LEMMA PlanLands ==
  ASSUME PlanInv, NEW words, NEW recalled \in {{}, said}, NEW shadow, Plan(words, recalled, shadow)
  PROVE  LET t == PlannedTurn(TurnFor(words, recalled, shadow))
         IN  /\ GoodTurn(t) /\ t.ses = Before /\ t.progress = progress /\ t.m = model /\ t.asked = asked
             /\ GoodPick(t.m, t.pick) /\ (Unled(t) => UnledPick(t, t.pick))
             /\ Laid(Context(t), turn'.ses) /\ ProgressInPlace(turn'.progress)
             /\ turn'.led = Led(t) /\ turn'.advances = ("advance" \in t.query)
<1> DEFINE before == TurnFor(words, recalled, shadow)
           t == PlannedTurn(before)
<1>1. /\ Valid(Loaded(ses, progress)) /\ Valid(Context(t))
      /\ turn' = [progress |-> NextProgress(t), ses |-> WithModules(t, Context(t)),
                  led |-> Led(t), advances |-> "advance" \in t.query]
  BY DEF Plan
<1>2. /\ t.m = model /\ t.ses = before.ses /\ t.said = said /\ t.words = words
      /\ t.progress = progress /\ t.asked = asked
  BY PlanningKeepsTurn
<1>3. before.ses = Before /\ before.m = model /\ before.progress = progress
  BY DEF TurnFor, Before
<1>4. /\ Before.order \in Int /\ Before.slots = ses.slots /\ Before.minimum = ses.minimum
      /\ Before.scope # None => \A n : <<Before.scope, n>> \in AllNumbers => n \in {NoOrder, Before.order}
  BY <1>1, BeforeTheTurn DEF PlanInv, Before
<1> HIDE DEF before
<1>5. GoodTurn(before) /\ GoodTurn(t)
  BY <1>2, <1>3, <1>4 DEF GoodTurn, PlanInv, InPlace, ProgressInPlace
<1>6. GoodPick(t.m, t.pick) /\ (Unled(t) => UnledPick(t, t.pick))
  BY <1>5, PlannedPick DEF before
<1> HIDE DEF t
<1>7. SlotMap(t) \subseteq SlotWords
  <2>1. \A ws : SlotSignals(ws) \subseteq SlotWords
    BY DEF SlotSignals, SlotWords
  <2> QED
    BY <1>5, <2>1 DEF SlotMap, GoodTurn
<1>8. t.m \in Models /\ t.ses.order \in Int /\ t.ses.minimum \in Nat
  BY <1>5 DEF GoodTurn
<1>9. InPlace(Context(t))
  BY <1>2, <1>3, <1>4, <1>6, <1>7, <1>8, ContextInPlace
<1>10. Laid(Context(t), WithModules(t, Context(t)))
  BY <1>1, <1>6, <1>8, <1>9, ModulesLaid
<1>11. ProgressInPlace(NextProgress(t))
  <2>1. CASE t.wf = NoWorkflow
    BY <1>2, <2>1 DEF NextProgress, PlanInv
  <2>2. CASE t.wf # NoWorkflow
    <3> DEFINE p == NextProgress(t)
    <3>1. /\ DOMAIN p = DOMAIN NoProgress /\ p.order = t.pick.order /\ p.title = t.pick.scope
      BY <2>2 DEF NextProgress, NoProgress
    <3> HIDE DEF p
    <3>2. ProgressInPlace(p)
      BY <1>6, <3>1 DEF ProgressInPlace, GoodPick
    <3> QED
      BY <3>2 DEF p
  <2> QED
    BY <2>1, <2>2
<1>12. /\ turn'.ses = WithModules(t, Context(t)) /\ turn'.progress = NextProgress(t)
       /\ turn'.led = Led(t) /\ turn'.advances = ("advance" \in t.query)
  BY <1>1
<1>13. /\ GoodTurn(t) /\ t.ses = Before /\ t.progress = progress /\ t.m = model /\ t.asked = asked
       /\ GoodPick(t.m, t.pick) /\ (Unled(t) => UnledPick(t, t.pick))
       /\ Laid(Context(t), turn'.ses) /\ ProgressInPlace(turn'.progress)
       /\ turn'.led = Led(t) /\ turn'.advances = ("advance" \in t.query)
  BY <1>2, <1>3, <1>5, <1>6, <1>10, <1>11, <1>12
<1> QED
  BY <1>13 DEF t, before

\* The step the user may advance to.
LEMMA AdvanceTarget ==
  ASSUME model \in Models, NextInProgress # NoStep
  PROVE  GoodStep(model, NextInProgress)
<1> DEFINE I == {i \in DOMAIN model.workflows :
                    model.workflows[i].id = progress.workflow /\ model.workflows[i].id # None}
           wf == FirstAt(model.workflows, I, NoWorkflow)
           steps == WorkflowSteps(wf)
           J == {k \in DOMAIN steps : steps[k].order # 0 /\ steps[k].order = progress.order + 1}
<1>1. NextInProgress = IF progress.order = NoOrder THEN IF steps = <<>> THEN NoStep ELSE steps[1]
                       ELSE FirstAt(steps, J, NoStep)
  BY DEF NextInProgress, FirstOr
<1>2. GoodWorkflow(model, wf)
  BY ModelNumbers, FirstRegistered
<1> HIDE DEF wf
<1>3. DOMAIN steps \subseteq Nat /\ \A k \in DOMAIN steps : GoodStep(model, steps[k])
  BY <1>2, WorkflowStepsFound
<1>4. steps # <<>> => 1 \in DOMAIN steps
  <2>1. PICK n \in Nat : DOMAIN wf.steps = 1 .. n
    BY <1>2 DEF GoodWorkflow
  <2>2. Sortable(wf.steps, DOMAIN wf.steps)
    BY <1>2, <2>1, WorkflowStepsSortable DEF GoodWorkflow, GoodStep
  <2> QED
    BY <2>2, SortedList DEF WorkflowSteps
<1> HIDE DEF steps
<1>5. FirstAt(steps, J, NoStep) = NoStep \/ \E k \in J : FirstAt(steps, J, NoStep) = steps[k]
  <2>1. J \in SUBSET Nat
    BY <1>3
  <2> HIDE DEF J
  <2> QED
    BY <2>1, FirstAtPosition
<1> QED
  BY <1>1, <1>3, <1>4, <1>5

\* Every step keeps the stored and the planned session in their places.
LEMMA PlanInvStep ==
  ASSUME PlanInv, [Next]_vars
  PROVE  PlanInv'
<1>1. ASSUME NEW words \in Messages, NEW recalled \in {{}, said}, NEW shadow \in Shadows,
             Plan(words, recalled, shadow)
      PROVE  PlanInv'
  <2>1. /\ InPlace(turn'.ses) /\ Settled(turn'.ses) /\ ProgressInPlace(turn'.progress)
    BY <1>1, PlanLands DEF Laid
  <2>2. UNCHANGED <<model, progress, ses>>
    BY <1>1 DEF Plan
  <2> QED
    BY <2>1, <2>2 DEF PlanInv
<1>2. CASE PersistAnswer
  BY <1>2 DEF PersistAnswer, PlanInv
<1>3. CASE PersistState
  BY <1>3 DEF PersistState, PlanInv
<1>4. CASE TurnLost
  BY <1>4 DEF TurnLost, PlanInv
<1>5. CASE Advance
  <2> DEFINE s == NextInProgress
  <2>1. /\ s # NoStep /\ progress' = [progress EXCEPT !.order = s.order, !.title = s.scope]
        /\ pc = "idle" /\ pc' = pc /\ model' = model /\ ses' = ses
    BY <1>5 DEF Advance
  <2>2. s.order \in Int
    BY <2>1, AdvanceTarget DEF PlanInv, GoodStep
  <2> HIDE DEF s
  <2>3. DOMAIN progress' = DOMAIN NoProgress /\ progress'.order = s.order
    BY <2>1 DEF PlanInv, ProgressInPlace, NoProgress
  <2>4. ProgressInPlace(progress')
    BY <2>2, <2>3 DEF ProgressInPlace
  <2> QED
    BY <2>1, <2>4 DEF PlanInv
<1>6. CASE \E m \in Models : Republish(m)
  BY <1>6 DEF Republish, PlanInv
<1>7. CASE UNCHANGED vars
  BY <1>7 DEF vars, PlanInv
<1> QED
  BY <1>1, <1>2, <1>3, <1>4, <1>5, <1>6, <1>7 DEF Next

\* A new session is in its place.
LEMMA PlanInvInit == Init => PlanInv
<1> SUFFICES ASSUME Init PROVE PlanInv
  OBVIOUS
<1>1. InPlace(EmptySes)
  BY DEF EmptySes, InPlace, IsSes, SesFields, NoActivation, NoSupport, NoOrder
<1>2. Settled(EmptySes)
  BY DEF EmptySes, Settled, InStep
<1>3. ProgressInPlace(NoProgress)
  BY DEF ProgressInPlace, NoProgress, NoOrder
<1> QED
  BY <1>1, <1>2, <1>3 DEF Init, PlanInv

\* A session stored inside a step can be loaded again, by every later turn.
THEOREM StoredStepResumes == Spec => []Resumable
<1>1. Init => PlanInv
  BY PlanInvInit
<1>2. PlanInv /\ [Next]_vars => PlanInv'
  BY PlanInvStep
<1>3. PlanInv => Resumable
  BY SoundLoads DEF PlanInv, InPlace, Settled, InStep, Resumable, Chosen, Switched
<1> QED
  BY <1>1, <1>2, <1>3, PTL DEF Spec

\* An unled turn goes one step at most, to a first step, or from an input gate to the second.
LEMMA UnledTurnSkipsNothing ==
  ASSUME PlanInv, NEW words, NEW recalled \in {{}, said}, NEW shadow, Plan(words, recalled, shadow)
  PROVE  NoStepSkipped'
<1> DEFINE t == PlannedTurn(TurnFor(words, recalled, shadow))
           c == Context(t)
           w == turn'.ses
<1>1. /\ GoodTurn(t) /\ t.ses = Before /\ t.progress = progress /\ t.m = model
      /\ GoodPick(t.m, t.pick) /\ (Unled(t) => UnledPick(t, t.pick))
      /\ Laid(c, w) /\ turn'.led = Led(t)
  BY PlanLands
<1>2. /\ c.order = IF t.pick.order # NoOrder THEN t.pick.order ELSE t.ses.order
      /\ c.minimum = IF t.pick.gate # 0 THEN t.pick.gate ELSE t.ses.minimum
      /\ c.scope = t.pick.scope
  BY ContextFields
<1> HIDE DEF t, c
<1>3. Before' = Before /\ progress' = progress /\ Reached' = Reached /\ model' = model
  BY DEF Plan, Before, Reached
<1>4. Place(t) = IF Reached > 0 THEN Reached ELSE 0
  BY <1>1 DEF Place, Reached
<1>5. Place(t) \in Nat /\ t.ses.order <= Place(t) /\ t.ses.order \in Int /\ t.pick.order \in Int
  BY <1>1, PlaceReached DEF GoodTurn, GoodPick
<1>6. /\ w.order \in {NoOrder, c.order} /\ w.minimum = c.minimum
      /\ w.order # NoOrder /\ c.scope # None => w.scope = c.scope
  BY <1>1 DEF Laid
<1>7. ~Led(t) => Unled(t)
  BY DEF Led, Unled, SelectsTarget
<1>8. ASSUME ~turn'.led
      PROVE  \/ w.order <= 1 + Place(t)
             \/ w.scope \in FirstSteps(model)
             \/ w.order = 2 /\ w.minimum # 0
  <2>1. UnledPick(t, t.pick)
    BY <1>1, <1>7, <1>8
  <2>2. \/ t.pick.order <= 1 + Place(t)
        \/ t.pick.scope \in FirstSteps(t.m)
        \/ t.pick.order = 2 /\ t.pick.gate > 0
    BY <1>5, <2>1 DEF UnledPick, Legal, GateStep
  <2>3. CASE t.pick.order = NoOrder \/ w.order = NoOrder
    BY <1>2, <1>5, <1>6, <2>3 DEF NoOrder
  <2>4. CASE t.pick.order # NoOrder /\ w.order # NoOrder
    <3>1. w.order = t.pick.order /\ w.scope = t.pick.scope
      BY <1>1, <1>2, <1>6, <2>4 DEF GoodPick
    <3> QED
      BY <1>1, <1>2, <1>6, <2>2, <3>1
  <2> QED
    BY <2>3, <2>4
<1> QED
  BY <1>3, <1>4, <1>8 DEF NoStepSkipped

\* Whatever was lost, republished or advanced before, a turn that nobody leads skips no step.
THEOREM UnledTurnsKeepOrder == Spec => []NoStepSkipped
<1>1. Init => PlanInv /\ NoStepSkipped
  BY PlanInvInit DEF Init, NoStepSkipped
<1>2. PlanInv /\ NoStepSkipped /\ [Next]_vars => PlanInv' /\ NoStepSkipped'
  <2> SUFFICES ASSUME PlanInv, NoStepSkipped, [Next]_vars PROVE PlanInv' /\ NoStepSkipped'
    OBVIOUS
  <2>1. PlanInv'
    BY PlanInvStep
  <2>2. ASSUME NEW words \in Messages, NEW recalled \in {{}, said}, NEW shadow \in Shadows,
               Plan(words, recalled, shadow)
        PROVE  NoStepSkipped'
    BY <2>2, UnledTurnSkipsNothing
  <2>3. CASE PersistAnswer \/ PersistState \/ TurnLost \/ Advance \/ \E m \in Models : Republish(m)
    <3>1. pc' # "answer"
      BY <2>3 DEF PersistAnswer, PersistState, TurnLost, Advance, Republish
    <3>2. NoStepSkipped'
      BY <3>1 DEF NoStepSkipped
    <3> QED
      BY <2>1, <3>2
  <2>4. CASE UNCHANGED vars
    <3>1. pc' = pc /\ turn' = turn /\ ses' = ses /\ progress' = progress /\ model' = model
      BY <2>4 DEF vars
    <3>2. Reached' = Reached
      BY <3>1 DEF Reached, Before
    <3>3. NoStepSkipped'
      BY <3>1, <3>2 DEF NoStepSkipped
    <3> QED
      BY <2>1, <3>3
  <2> QED
    BY <2>1, <2>2, <2>3, <2>4 DEF Next
<1> QED
  BY <1>1, <1>2, PTL DEF Spec

----------------------------------------------------------------------------
(* More slots open no fewer gates.                                         *)
LEMMA MoreSlots ==
  ASSUME NEW b \in SUBSET SlotWords, NEW a \in SUBSET b
  PROVE  /\ Cardinality(EffectiveSlots(a)) \in Nat /\ Cardinality(EffectiveSlots(b)) \in Nat
         /\ Cardinality(EffectiveSlots(a)) <= Cardinality(EffectiveSlots(b))
<1>1. EffectiveSlots(a) \subseteq EffectiveSlots(b)
  BY DEF EffectiveSlots
<1>2. EffectiveSlots(b) \subseteq {"content", "audience", "goal"}
  BY DEF EffectiveSlots, SlotWords
<1>3. IsFiniteSet({"content", "audience", "goal"})
  <2>1. IsFiniteSet({"content"}) /\ IsFiniteSet({"audience"}) /\ IsFiniteSet({"goal"})
    BY FS_Singleton
  <2>2. IsFiniteSet({"content"} \cup {"audience"} \cup {"goal"})
    BY <2>1, FS_Union
  <2>3. {"content", "audience", "goal"} = {"content"} \cup {"audience"} \cup {"goal"}
    OBVIOUS
  <2> QED
    BY <2>2, <2>3
<1>4. IsFiniteSet(EffectiveSlots(b))
  BY <1>2, <1>3, FS_Subset
<1> QED
  BY <1>1, <1>4, FS_Subset, FS_CardinalityType

\* A gate that is satisfied stays so; without a rule, the session's threshold is reached.
LEMMA GateStaysSatisfied ==
  ASSUME NEW b \in SUBSET SlotWords, NEW a \in SUBSET b, NEW minimum \in Nat,
         NEW g, g.minimum \in Nat, GateSatisfied(g, a, minimum)
  PROVE  GateSatisfied(g, b, minimum)
<1>1. /\ Cardinality(EffectiveSlots(a)) \in Nat /\ Cardinality(EffectiveSlots(b)) \in Nat
      /\ Cardinality(EffectiveSlots(a)) <= Cardinality(EffectiveSlots(b))
  BY MoreSlots
<1>2. a # {} => b # {}
  OBVIOUS
<1> QED
  BY <1>1, <1>2 DEF GateSatisfied

\* A gate without a rule is satisfied by the session's threshold, or by three slots.
LEMMA NoRuleSatisfied ==
  ASSUME NEW slots \in SUBSET SlotWords, NEW minimum \in Nat, GateSatisfied(NoGateRule, slots, minimum)
  PROVE  \/ Cardinality(EffectiveSlots(slots)) >= 3
         \/ minimum > 0 /\ Cardinality(EffectiveSlots(slots)) >= minimum
<1>1. NoGateRule.required = {} /\ NoGateRule.minimum = 0
  BY DEF NoGateRule
<1>2. Cardinality(EffectiveSlots(slots)) \in Nat
  BY MoreSlots
<1> QED
  BY <1>1, <1>2 DEF GateSatisfied

\* What Earned asks, of the rules of a model and the last prompt.
EarnedUnder(s, rules, prompt) ==
    \/ Cardinality(EffectiveSlots(s.slots)) >= 3
    \/ s.minimum > 0 /\ Cardinality(EffectiveSlots(s.slots)) >= s.minimum
    \/ \E g \in rules : g.to \in {None, s.scope} /\ GateSatisfied(g, s.slots, s.minimum)
    \/ prompt = "content" /\ "theme" \in s.slots
    \/ prompt = "audience" /\ "audience" \in s.slots

\* BundleIsEarned, before and after a step.
LEMMA EarnedIsUnder ==
  /\ BundleIsEarned <=>
       ((/\ pc = "answer" /\ ~turn.led /\ ~turn.advances
         /\ turn.ses.order > 1 /\ turn.ses.order > Reached
         /\ turn.ses.scope \notin FirstSteps(model))
          => EarnedUnder(turn.ses, ToSet(model.gateRules), asked))
  /\ BundleIsEarned' <=>
       ((/\ pc' = "answer" /\ ~turn'.led /\ ~turn'.advances
         /\ turn'.ses.order > 1 /\ turn'.ses.order > Reached'
         /\ turn'.ses.scope \notin FirstSteps(model'))
          => EarnedUnder(turn'.ses, ToSet(model'.gateRules), asked'))
  BY DEF BundleIsEarned, Earned, EarnedUnder

\* A turn that is neither led nor asked to advance opens a later step only through a gate.
LEMMA UnledTurnEarnsItsBundle ==
  ASSUME PlanInv, NEW words, NEW recalled \in {{}, said}, NEW shadow, Plan(words, recalled, shadow)
  PROVE  BundleIsEarned'
<1> DEFINE t == PlannedTurn(TurnFor(words, recalled, shadow))
           c == Context(t)
           w == turn'.ses
           p == t.pick
           Under(s) == EarnedUnder(s, ToSet(model.gateRules), asked)
<1>1. /\ GoodTurn(t) /\ t.ses = Before /\ t.progress = progress /\ t.m = model /\ t.asked = asked
      /\ GoodPick(t.m, p) /\ (Unled(t) => UnledPick(t, p))
      /\ Laid(c, w) /\ turn'.led = Led(t) /\ turn'.advances = ("advance" \in t.query)
  BY PlanLands
<1>2. t.said = said /\ t.words = words /\ t.query = words \cup recalled
  BY PlanningKeepsTurn
<1>3. /\ c.order = IF p.order # NoOrder THEN p.order ELSE t.ses.order
      /\ c.minimum = IF p.gate # 0 THEN p.gate ELSE t.ses.minimum
      /\ c.slots = SlotMap(t) /\ c.scope = p.scope
  BY ContextFields
<1> HIDE DEF t, c, p, Under
<1>4. model' = model /\ asked' = asked /\ Reached' = Reached
  BY DEF Plan, Before, Reached
<1>5. /\ Place(t) \in Nat /\ t.ses.order \in Int /\ p.order \in Int
      /\ Place(t) = 0 \/ Place(t) = Reached
      /\ t.ses.order <= Reached /\ Reached \in Int
  BY <1>1, PlaceReached DEF GoodTurn, GoodPick, Reached
<1>6. /\ w.order \in {NoOrder, c.order} /\ w.minimum = c.minimum /\ w.slots = c.slots
      /\ w.order # NoOrder /\ c.scope # None => w.scope = c.scope
      /\ w.slots \subseteq SlotWords
  BY <1>1 DEF Laid, InPlace
<1>7. /\ SlotSignals(words) \subseteq SlotMap(t) /\ SlotSignals(t.query) \subseteq SlotMap(t)
      /\ t.ses.slots \subseteq SlotMap(t)
  BY <1>2, SlotSignalsUnion DEF SlotMap, SlotSignals
<1>8. ASSUME ~turn'.led, ~turn'.advances, w.order > 1, w.order > Reached,
             w.scope \notin FirstSteps(model)
      PROVE  Under(w)
  <2> DEFINE filled == Cardinality(EffectiveSlots(w.slots))
  <2>1. UnledPick(t, p)
    BY <1>1, <1>8 DEF Led, Unled, SelectsTarget
  <2>2. w.order = c.order /\ w.order # NoOrder /\ p.order = w.order
    BY <1>3, <1>5, <1>6, <1>8 DEF NoOrder
  <2>3. "advance" \notin t.words \cup t.query
    BY <1>1, <1>2, <1>8
  <2>4. filled \in Nat
    BY <1>6, MoreSlots
  <2>5. CASE GateStep(t, p)
    <3>1. filled >= p.gate /\ p.gate > 0 /\ w.minimum = p.gate
      BY <1>3, <1>6, <1>8, <2>2, <2>5 DEF GateStep
    <3> QED
      BY <3>1 DEF Under, EarnedUnder
  <2>6. CASE p.gate = 0 /\ Legal(t, p)
    <3>0. p.scope # None /\ p.scope \notin FirstSteps(t.m)
      BY <1>1, <1>3, <1>6, <1>8, <2>2 DEF GoodPick
    <3>1. p.scope # None /\ GateOpen(t, p.scope)
      BY <1>5, <1>8, <2>2, <2>3, <2>6, <3>0 DEF Legal
    <3>2. w.scope = p.scope /\ w.minimum = t.ses.minimum /\ w.minimum \in Nat /\ w.slots = SlotMap(t)
      BY <1>1, <1>3, <1>6, <2>2, <2>6, <3>1 DEF GoodTurn
    <3>3. ASSUME NEW g \in ToSet(model.gateRules), g.to \in {None, p.scope},
                 GateSatisfied(g, t.ses.slots, t.ses.minimum)
          PROVE  Under(w)
      <4>1. g.minimum \in Nat
        BY <1>1, ModelNumbers DEF GoodTurn, Regular, Compiled
      <4>2. GateSatisfied(g, w.slots, w.minimum)
        BY <1>6, <1>7, <3>2, <3>3, <4>1, GateStaysSatisfied
      <4> QED
        BY <3>2, <3>3, <4>2 DEF Under, EarnedUnder
    <3>4. CASE GateSatisfied(NoGateRule, t.ses.slots, t.ses.minimum)
      <4>1. NoGateRule.minimum \in Nat
        BY DEF NoGateRule
      <4>2. GateSatisfied(NoGateRule, w.slots, w.minimum)
        BY <1>6, <1>7, <3>2, <3>4, <4>1, GateStaysSatisfied
      <4>3. filled >= 3 \/ (w.minimum > 0 /\ filled >= w.minimum)
        BY <1>6, <3>2, <4>2, NoRuleSatisfied
      <4> QED
        BY <4>3 DEF Under, EarnedUnder
    <3>5. CASE filled >= 3
      BY <3>5 DEF Under, EarnedUnder
    <3>6. ASSUME NEW ws \in {t.words, t.query}, AnswersPrompt(t, ws) PROVE Under(w)
      <4>1. SlotSignals(ws) \subseteq w.slots
        BY <1>2, <1>7, <3>2, <3>6
      <4>2. "audience" \in ws => "audience" \in SlotSignals(ws)
        BY DEF SlotSignals, SlotWords
      <4>3. \/ asked = "content" /\ "theme" \in w.slots
            \/ asked = "audience" /\ "audience" \in w.slots
        BY <1>1, <3>6, <4>1, <4>2 DEF AnswersPrompt
      <4> QED
        BY <4>3 DEF Under, EarnedUnder
    <3> QED
      BY <1>1, <3>1, <3>2, <3>3, <3>4, <3>5, <3>6 DEF GateOpen
  <2> QED
    BY <2>1, <2>5, <2>6 DEF UnledPick
<1> QED
  BY <1>4, <1>8, EarnedIsUnder DEF Under

\* A bundle is earned, in every session of every application.
THEOREM BundlesAreEarned == Spec => []BundleIsEarned
<1>1. Init => PlanInv /\ BundleIsEarned
  BY PlanInvInit DEF Init, BundleIsEarned
<1>2. PlanInv /\ BundleIsEarned /\ [Next]_vars => PlanInv' /\ BundleIsEarned'
  <2> SUFFICES ASSUME PlanInv, BundleIsEarned, [Next]_vars PROVE PlanInv' /\ BundleIsEarned'
    OBVIOUS
  <2>1. PlanInv'
    BY PlanInvStep
  <2>2. ASSUME NEW words \in Messages, NEW recalled \in {{}, said}, NEW shadow \in Shadows,
               Plan(words, recalled, shadow)
        PROVE  BundleIsEarned'
    BY <2>2, UnledTurnEarnsItsBundle
  <2>3. CASE PersistAnswer \/ PersistState \/ TurnLost \/ Advance \/ \E m \in Models : Republish(m)
    <3>1. pc' # "answer"
      BY <2>3 DEF PersistAnswer, PersistState, TurnLost, Advance, Republish
    <3> QED
      BY <2>1, <3>1, EarnedIsUnder
  <2>4. CASE UNCHANGED vars
    <3>1. /\ pc' = pc /\ turn' = turn /\ model' = model /\ asked' = asked
          /\ ses' = ses /\ progress' = progress
      BY <2>4 DEF vars
    <3>2. Reached' = Reached
      BY <3>1 DEF Reached, Before
    <3> QED
      BY <2>1, <3>1, <3>2, EarnedIsUnder
  <2> QED
    BY <2>1, <2>2, <2>3, <2>4 DEF Next
<1> QED
  BY <1>1, <1>2, PTL DEF Spec
----------------------------------------------------------------------------
(* Lists, and what is in them.                                             *)
\* A function of the first positions is a list.
LEMMA FunctionIsList ==
  ASSUME NEW n \in Nat, NEW f, f = [i \in 1 .. n |-> f[i]]
  PROVE  List(f) /\ Len(f) = n /\ DOMAIN f = 1 .. n
<1>1. \A i \in 1 .. n : f[i] \in ToSet(f)
  BY DEF ToSet
<1>2. f \in [1 .. n -> ToSet(f)]
  BY <1>1
<1> QED
  BY <1>2 DEF List

\* A list is the function of its positions.
LEMMA ListIsFunction ==
  ASSUME NEW s, List(s)
  PROVE  /\ Len(s) \in Nat /\ DOMAIN s = 1 .. Len(s) /\ s = [i \in 1 .. Len(s) |-> s[i]]
         /\ \A e \in ToSet(s) : \E i \in DOMAIN s : s[i] = e
         /\ s = <<>> <=> ToSet(s) = {}
<1>1. s \in Seq(ToSet(s))
  BY DEF List
<1>2. Len(s) \in Nat /\ DOMAIN s = 1 .. Len(s) /\ s = [i \in 1 .. Len(s) |-> s[i]]
  BY <1>1
<1>3. \A e \in ToSet(s) : \E i \in DOMAIN s : s[i] = e
  BY DEF ToSet
<1>4. s = <<>> => ToSet(s) = {}
  BY <1>2 DEF ToSet
<1>5. s # <<>> => s[1] \in ToSet(s)
  BY ListFacts
<1> QED
  BY <1>2, <1>3, <1>4, <1>5

\* The elements at some positions are a list of them.
LEMMA SubIsList ==
  ASSUME NEW s, List(s), NEW I, I \subseteq DOMAIN s
  PROVE  List(Sub(s, I)) /\ ToSet(Sub(s, I)) = {s[i] : i \in I}
<1> DEFINE key == [i \in I |-> i]
           r   == Sorted(s, I, key)
<1>1. Keyed(I, key)
  <2>1. Len(s) \in Nat /\ DOMAIN s = 1 .. Len(s)
    BY ListFacts
  <2>2. IsFiniteSet(DOMAIN s) /\ I \in SUBSET Nat
    BY <2>1, FS_Interval
  <2> QED
    BY <2>2, FS_Subset DEF Keyed
<1> HIDE DEF key
<1>2. /\ List(r)
      /\ \A i \in I : \E k \in DOMAIN r : r[k] = s[i]
      /\ \A k \in DOMAIN r : \E i \in I : r[k] = s[i]
  BY <1>1, SortedIsList
<1> HIDE DEF r
<1>3. ToSet(r) = {s[i] : i \in I}
  BY <1>2 DEF ToSet
<1> QED
  BY <1>2, <1>3 DEF Sub, r, key

\* Two lists, one after the other.
LEMMA ConcatIsList ==
  ASSUME NEW s, List(s), NEW r, List(r)
  PROVE  List(s \o r) /\ ToSet(s \o r) = ToSet(s) \cup ToSet(r)
<1> DEFINE T == ToSet(s) \cup ToSet(r)
<1>1. s \in Seq(T) /\ r \in Seq(T)
  <2>1. s \in Seq(ToSet(s)) /\ r \in Seq(ToSet(r))
    BY DEF List
  <2> QED
    BY <2>1, SeqMonotonic
<1>2. /\ s \o r \in Seq(T) /\ Len(s \o r) = Len(s) + Len(r)
      /\ \A i \in 1 .. Len(s) + Len(r) : (s \o r)[i] = IF i <= Len(s) THEN s[i] ELSE r[i - Len(s)]
  BY <1>1, ConcatProperties
<1>3. /\ Len(s) \in Nat /\ DOMAIN s = 1 .. Len(s) /\ Len(r) \in Nat /\ DOMAIN r = 1 .. Len(r)
      /\ DOMAIN (s \o r) = 1 .. Len(s) + Len(r)
  BY <1>1, <1>2
<1>4. s \o r = [i \in 1 .. Len(s) + Len(r) |-> (s \o r)[i]]
  <2> DEFINE q == s \o r
  <2>1. q \in Seq(T) /\ Len(q) = Len(s) + Len(r)
    BY <1>2
  <2> HIDE DEF q
  <2>2. q = [i \in 1 .. Len(q) |-> q[i]]
    BY <2>1
  <2> QED
    BY <2>1, <2>2 DEF q
<1>5. List(s \o r)
  BY <1>3, <1>4, FunctionIsList
<1>6. ToSet(s \o r) \subseteq T
  <2> SUFFICES ASSUME NEW i \in 1 .. Len(s) + Len(r) PROVE (s \o r)[i] \in T
    BY <1>3 DEF ToSet
  <2>1. CASE i <= Len(s)
    <3>1. i \in DOMAIN s /\ (s \o r)[i] = s[i]
      BY <1>2, <1>3, <2>1
    <3> QED
      BY <3>1 DEF ToSet
  <2>2. CASE ~(i <= Len(s))
    <3>1. i - Len(s) \in DOMAIN r /\ (s \o r)[i] = r[i - Len(s)]
      BY <1>2, <1>3, <2>2
    <3> QED
      BY <3>1 DEF ToSet
  <2> QED
    BY <2>1, <2>2
<1>7. ToSet(s) \subseteq ToSet(s \o r)
  <2> SUFFICES ASSUME NEW i \in DOMAIN s PROVE s[i] \in ToSet(s \o r)
    BY DEF ToSet
  <2>1. i \in DOMAIN (s \o r) /\ (s \o r)[i] = s[i]
    BY <1>2, <1>3
  <2> QED
    BY <2>1 DEF ToSet
<1>8. ToSet(r) \subseteq ToSet(s \o r)
  <2> SUFFICES ASSUME NEW i \in DOMAIN r PROVE r[i] \in ToSet(s \o r)
    BY DEF ToSet
  <2>1. i + Len(s) \in DOMAIN (s \o r) /\ (s \o r)[i + Len(s)] = r[i]
    BY <1>2, <1>3
  <2> QED
    BY <2>1 DEF ToSet
<1> QED
  BY <1>5, <1>6, <1>7, <1>8

\* What FlattenSeq's recursion says of its function.
Chained(ss, n, g) == g = [i \in 1 .. n |-> IF i = 1 THEN ss[i] ELSE g[i - 1] \o ss[i]]
\* There is one for every number of lists.
LEMMA ChainExists ==
  ASSUME NEW ss, NEW N \in Nat
  PROVE  \A n \in 1 .. N : \E g : Chained(ss, n, g)
<1> DEFINE I == {n \in 1 .. N : ~\E g : Chained(ss, n, g)}
<1> SUFFICES ASSUME I # {} PROVE FALSE
  OBVIOUS
<1>1. PICK n \in I : \A j \in I : n <= j
  <2>1. I \in SUBSET Nat
    OBVIOUS
  <2> HIDE DEF I
  <2> QED
    BY <2>1, FirstPosition
<1>a. n \in Nat /\ n >= 1
  OBVIOUS
<1>2. CASE n = 1
  <2>1. Chained(ss, n, [i \in 1 .. 1 |-> ss[i]])
    BY <1>2 DEF Chained
  <2> QED
    BY <2>1
<1>3. CASE n # 1
  <2>1. n - 1 \in 1 .. N /\ n - 1 \notin I
    BY <1>1, <1>3
  <2>2. PICK g : Chained(ss, n - 1, g)
    BY <2>1
  <2> DEFINE h == [i \in 1 .. n |-> IF i = n THEN g[n - 1] \o ss[n] ELSE g[i]]
  <2>3. \A i \in 1 .. n : h[i] = IF i = 1 THEN ss[i] ELSE h[i - 1] \o ss[i]
    <3> SUFFICES ASSUME NEW i \in 1 .. n PROVE h[i] = IF i = 1 THEN ss[i] ELSE h[i - 1] \o ss[i]
      OBVIOUS
    <3>1. CASE i = n
      <4>1. n - 1 \in 1 .. n /\ n \in 1 .. n /\ n - 1 # n
        BY <1>3, <1>a
      <4>2. h[n - 1] = g[n - 1] /\ h[n] = g[n - 1] \o ss[n]
        BY <4>1
      <4> HIDE DEF h
      <4> QED
        BY <1>3, <3>1, <4>2
    <3>2. CASE i # n
      <4>1. i \in 1 .. n - 1 /\ h[i] = g[i] /\ (i # 1 => h[i - 1] = g[i - 1])
        BY <3>2
      <4> QED
        BY <2>2, <4>1 DEF Chained
    <3> QED
      BY <3>1, <3>2
  <2>4. Chained(ss, n, h)
    BY <2>3 DEF Chained
  <2> QED
    BY <2>4
<1> QED
  BY <1>2, <1>3

\* The elements of a list of lists, in one list.
LEMMA FlatIsList ==
  ASSUME NEW ss, List(ss), \A i \in DOMAIN ss : List(ss[i])
  PROVE  List(FlattenSeq(ss)) /\ ToSet(FlattenSeq(ss)) = UNION {ToSet(ss[i]) : i \in DOMAIN ss}
<1> DEFINE N == Len(ss)
           f == CHOOSE g : g = [i \in 1 .. N |-> IF i = 1 THEN ss[i] ELSE g[i - 1] \o ss[i]]
           Upto(n) == UNION {ToSet(ss[i]) : i \in 1 .. n}
           I == {n \in 1 .. N : ~(List(f[n]) /\ ToSet(f[n]) = Upto(n))}
<1>1. N \in Nat /\ DOMAIN ss = 1 .. N
  BY ListFacts
<1>2. CASE N = 0
  <2>1. FlattenSeq(ss) = ss
    BY <1>2 DEF FlattenSeq
  <2> QED
    BY <1>1, <1>2, <2>1 DEF ToSet
<1>3. CASE N # 0
  <2>1. FlattenSeq(ss) = f[N]
    BY <1>3 DEF FlattenSeq
  <2>2. Chained(ss, N, f)
    <3>1. \E g : Chained(ss, N, g)
      BY <1>1, <1>3, ChainExists
    <3> QED
      BY <3>1 DEF Chained
  <2> HIDE DEF f
  <2>3. I = {}
    <3> SUFFICES ASSUME I # {} PROVE FALSE
      OBVIOUS
    <3>1. PICK n \in I : \A j \in I : n <= j
      <4>1. I \in SUBSET Nat
        BY <1>1
      <4> HIDE DEF I
      <4> QED
        BY <4>1, FirstPosition
    <3>2. n \in 1 .. N /\ List(ss[n])
      BY <1>1
    <3>3. CASE n = 1
      <4>1. f[n] = ss[n]
        BY <2>2, <3>2, <3>3 DEF Chained
      <4>2. Upto(n) = ToSet(ss[n])
        BY <3>3
      <4> QED
        BY <3>2, <4>1, <4>2
    <3>4. CASE n # 1
      <4>1. f[n] = f[n - 1] \o ss[n]
        BY <2>2, <3>2, <3>4 DEF Chained
      <4>2. n - 1 \in 1 .. N /\ n - 1 \notin I
        BY <1>1, <3>1, <3>2, <3>4
      <4>3. List(f[n - 1]) /\ ToSet(f[n - 1]) = Upto(n - 1)
        BY <4>2
      <4>4. List(f[n]) /\ ToSet(f[n]) = Upto(n - 1) \cup ToSet(ss[n])
        BY <3>2, <4>1, <4>3, ConcatIsList
      <4>5. Upto(n) = Upto(n - 1) \cup ToSet(ss[n])
        <5>1. 1 .. n = 1 .. n - 1 \cup {n}
          BY <3>2
        <5> QED
          BY <5>1
      <4> QED
        BY <4>4, <4>5
    <3> QED
      BY <3>3, <3>4
  <2>4. N \in 1 .. N
    BY <1>1, <1>3
  <2> QED
    BY <1>1, <2>1, <2>3, <2>4
<1> QED
  BY <1>2, <1>3

\* The empty list and the list of one.
LEMMA ShortLists ==
  /\ List(<<>>) /\ ToSet(<<>>) = {}
  /\ \A e : List(<<e>>) /\ ToSet(<<e>>) = {e}
<1>1. List(<<>>) /\ ToSet(<<>>) = {}
  BY DEF List, ToSet
<1>2. ASSUME NEW e PROVE List(<<e>>) /\ ToSet(<<e>>) = {e}
  <2>1. ToSet(<<e>>) = {e}
    BY DEF ToSet
  <2> QED
    BY <2>1 DEF List
<1> QED
  BY <1>1, <1>2

\* What is made of each element of a list is a list.
LEMMA MapIsList ==
  ASSUME NEW s, List(s), NEW f, f = [i \in DOMAIN s |-> f[i]]
  PROVE  /\ List(f) /\ DOMAIN f = DOMAIN s /\ ToSet(f) = {f[i] : i \in DOMAIN s}
         /\ f = <<>> <=> s = <<>>
<1>1. Len(s) \in Nat /\ DOMAIN s = 1 .. Len(s)
  BY ListFacts
<1>2. List(f) /\ DOMAIN f = DOMAIN s
  BY <1>1, FunctionIsList
<1>3. ToSet(f) = {f[i] : i \in DOMAIN s}
  BY <1>2 DEF ToSet
<1>4. f = <<>> <=> s = <<>>
  <2>1. ToSet(f) = {} <=> ToSet(s) = {}
    BY <1>3 DEF ToSet
  <2> QED
    BY <1>2, <2>1, ListIsFunction
<1> QED
  BY <1>2, <1>3, <1>4

\* The positions whose key no earlier one has.
Firsts(s, key) == {i \in DOMAIN s : \A j \in DOMAIN s : j < i => key[j] # key[i]}
\* Of the elements with one key, the first is kept.
LEMMA FirstsAreKept ==
  ASSUME NEW s, List(s), NEW key
  PROVE  /\ List(Sub(s, Firsts(s, key))) /\ ToSet(Sub(s, Firsts(s, key))) \subseteq ToSet(s)
         /\ \A i \in DOMAIN s : \E k \in DOMAIN s :
               k \in Firsts(s, key) /\ key[k] = key[i] /\ s[k] \in ToSet(Sub(s, Firsts(s, key)))
<1> DEFINE I == Firsts(s, key)
<1>1. /\ List(Sub(s, I)) /\ ToSet(Sub(s, I)) = {s[i] : i \in I}
      /\ I \subseteq DOMAIN s
  <2>1. I \subseteq DOMAIN s
    BY DEF Firsts
  <2> QED
    BY <2>1, SubIsList
<1>2. ToSet(Sub(s, I)) \subseteq ToSet(s)
  BY <1>1 DEF ToSet
<1>3. ASSUME NEW i \in DOMAIN s
      PROVE  \E k \in DOMAIN s : k \in I /\ key[k] = key[i] /\ s[k] \in ToSet(Sub(s, I))
  <2> DEFINE J == {j \in DOMAIN s : key[j] = key[i]}
  <2>1. J \in SUBSET Nat /\ J # {}
    BY ListFacts
  <2>2. PICK k \in J : \A j \in J : k <= j
    <3> HIDE DEF J
    <3> QED
      BY <2>1, FirstPosition
  <2>3. DOMAIN s \subseteq Nat
    BY ListFacts
  <2>4. k \in I
    BY <2>2, <2>3 DEF Firsts
  <2> QED
    BY <1>1, <2>4
<1> QED
  BY <1>1, <1>2, <1>3

----------------------------------------------------------------------------
(* What is looked up in the compiled library.                              *)
\* A resource that is found is one of the library's, of the identifier looked for.
LEMMA ResourceFound ==
  ASSUME NEW id
  PROVE  LET r == ResourceById(id)
         IN  r = NoResource \/ (r \in ToSet(Library.resources) /\ r.id = id /\ id # None)
<1> DEFINE I == {j \in DOMAIN Library.resources : Library.resources[j].id = id /\ id # None}
<1>1. I \in SUBSET Nat
  BY LibraryIsCompiled, ListFacts
<1>2. ResourceById(id) = FirstAt(Library.resources, I, NoResource)
  BY DEF ResourceById, FirstOr
<1> HIDE DEF I
<1>3. ResourceById(id) = NoResource \/ \E j \in I : ResourceById(id) = Library.resources[j]
  BY <1>1, <1>2, FirstAtPosition
<1> QED
  BY <1>3 DEF I, ToSet

\* The identifier of a resource finds it.
LEMMA ResourceOfId ==
  ASSUME NEW r \in ToSet(Library.resources)
  PROVE  ResourceById(r.id) = r /\ r # NoResource /\ r.id # None /\ r.domain \in Roles
<1>1. PICK i \in DOMAIN Library.resources : r = Library.resources[i]
  BY DEF ToSet
<1>2. r.id # None /\ r.domain \in Roles
  BY LibraryIsCompiled
<1> DEFINE I == {j \in DOMAIN Library.resources : Library.resources[j].id = r.id /\ r.id # None}
<1>3. I = {i} /\ I \in SUBSET Nat
  BY <1>1, <1>2, LibraryIsCompiled, ListFacts
<1>4. ResourceById(r.id) = FirstAt(Library.resources, I, NoResource)
  BY DEF ResourceById, FirstOr
<1> HIDE DEF I
<1>5. ResourceById(r.id) = r
  BY <1>1, <1>3, <1>4, FirstAtPosition
<1>6. r # NoResource
  BY <1>2 DEF NoResource
<1> QED
  BY <1>2, <1>5, <1>6

\* A resource found by its file has that file.
LEMMA FileFound ==
  ASSUME NEW file
  PROVE  LET r == ResourceByFile(file)
         IN  r = NoResource \/ (r \in ToSet(Library.resources) /\ r.file = file /\ file # None)
<1> DEFINE I == {j \in DOMAIN Library.resources : Library.resources[j].file = file /\ file # None}
<1>1. I \in SUBSET Nat
  BY LibraryIsCompiled, ListFacts
<1>2. ResourceByFile(file) = FirstAt(Library.resources, I, NoResource)
  BY DEF ResourceByFile, FirstOr
<1> HIDE DEF I
<1>3. ResourceByFile(file) = NoResource \/ \E j \in I : ResourceByFile(file) = Library.resources[j]
  BY <1>1, <1>2, FirstAtPosition
<1> QED
  BY <1>3 DEF I, ToSet

\* The resources of a group, the files of a step and of a module are lists.
LEMMA LibraryLists ==
  ASSUME NEW id
  PROVE  /\ List(Group(id).resources)
         /\ List(StepFiles(id).refs) /\ List(StepFiles(id).bundled) /\ List(StepFiles(id).block)
         /\ List(ModuleFiles(id).files) /\ List(ModuleFiles(id).resources)
<1>1. List(Group(id).resources)
  <2> DEFINE none == [id |-> id, resources |-> <<>>]
             I == {j \in DOMAIN Library.groups : Library.groups[j].id = id}
  <2>1. I \in SUBSET Nat
    BY LibraryIsCompiled, ListFacts
  <2>2. Group(id) = FirstAt(Library.groups, I, none)
    BY DEF Group, FirstOr
  <2> HIDE DEF I, none
  <2>3. Group(id) = none \/ \E j \in I : Group(id) = Library.groups[j]
    BY <2>1, <2>2, FirstAtPosition
  <2>4. List(none.resources)
    BY ShortLists DEF none
  <2>5. \A j \in I : Library.groups[j] \in ToSet(Library.groups)
    BY DEF I, ToSet
  <2> QED
    BY <2>3, <2>4, <2>5, LibraryIsCompiled
<1>2. List(StepFiles(id).refs) /\ List(StepFiles(id).bundled) /\ List(StepFiles(id).block)
  <2> DEFINE I == {j \in DOMAIN Library.steps : Library.steps[j].id = id /\ id # None}
  <2>1. I \in SUBSET Nat
    BY LibraryIsCompiled, ListFacts
  <2>2. StepFiles(id) = FirstAt(Library.steps, I, NoStepFiles)
    BY DEF StepFiles, FirstOr
  <2> HIDE DEF I
  <2>3. StepFiles(id) = NoStepFiles \/ \E j \in I : StepFiles(id) = Library.steps[j]
    BY <2>1, <2>2, FirstAtPosition
  <2>4. List(NoStepFiles.refs) /\ List(NoStepFiles.bundled) /\ List(NoStepFiles.block)
    BY ShortLists DEF NoStepFiles
  <2>5. \A j \in I : Library.steps[j] \in ToSet(Library.steps)
    BY DEF I, ToSet
  <2> QED
    BY <2>3, <2>4, <2>5, LibraryIsCompiled
<1>3. List(ModuleFiles(id).files) /\ List(ModuleFiles(id).resources)
  <2> DEFINE I == {j \in DOMAIN Library.modules : Library.modules[j].id = id /\ id # None}
  <2>1. I \in SUBSET Nat
    BY LibraryIsCompiled, ListFacts
  <2>2. ModuleFiles(id) = FirstAt(Library.modules, I, NoModule)
    BY DEF ModuleFiles, FirstOr
  <2> HIDE DEF I
  <2>3. ModuleFiles(id) = NoModule \/ \E j \in I : ModuleFiles(id) = Library.modules[j]
    BY <2>1, <2>2, FirstAtPosition
  <2>4. List(NoModule.files) /\ List(NoModule.resources)
    BY ShortLists DEF NoModule
  <2>5. \A j \in I : Library.modules[j] \in ToSet(Library.modules)
    BY DEF I, ToSet
  <2> QED
    BY <2>3, <2>4, <2>5, LibraryIsCompiled
<1> QED
  BY <1>1, <1>2, <1>3

----------------------------------------------------------------------------
(* What the bindings of the library ask for.                               *)
\* A request has the fields of one.
IsRequest(q) == DOMAIN q = DOMAIN Request

\* Of what a binding itself asks, each request is for one of the library's resources.
LEMMA OwnRequestsAre ==
  ASSUME NEW b \in ToSet(Library.bindings)
  PROVE  /\ List(OwnRequests(b))
         /\ \A q \in ToSet(OwnRequests(b)) : \E id \in ToSet(b.resources) :
               ResourceById(id) # NoResource /\ q = Ask(b, ResourceById(id), id)
<1> DEFINE s == b.resources
           I == {i \in DOMAIN s : ResourceById(s[i]) # NoResource}
           r == Sub(s, I)
           f == OwnRequests(b)
<1>1. List(s)
  BY LibraryIsCompiled
<1>2. List(r) /\ ToSet(r) = {s[i] : i \in I}
  BY <1>1, SubIsList
<1>3. f = [i \in DOMAIN r |-> Ask(b, ResourceById(r[i]), r[i])]
  BY DEF OwnRequests, Map, Select
<1> HIDE DEF f, r
<1>4. /\ List(f) /\ ToSet(f) = {f[i] : i \in DOMAIN r}
  <2>1. f = [i \in DOMAIN r |-> f[i]]
    BY <1>3
  <2> QED
    BY <1>2, <2>1, MapIsList
<1>5. ASSUME NEW q \in ToSet(f)
      PROVE  \E id \in ToSet(s) : ResourceById(id) # NoResource /\ q = Ask(b, ResourceById(id), id)
  <2>1. PICK i \in DOMAIN r : q = Ask(b, ResourceById(r[i]), r[i])
    BY <1>3, <1>4
  <2>2. r[i] \in ToSet(r)
    BY <1>2, ListFacts
  <2>3. PICK k \in I : r[i] = s[k]
    BY <1>2, <2>2
  <2>4. s[k] \in ToSet(s)
    BY DEF ToSet
  <2> QED
    BY <2>1, <2>3, <2>4
<1> QED
  BY <1>4, <1>5 DEF f

\* What the groups of a binding ask for, it asks for in its own name.
LEMMA GroupRequestsAre ==
  ASSUME NEW b \in ToSet(Library.bindings)
  PROVE  /\ List(GroupRequests(b))
         /\ \A q \in ToSet(GroupRequests(b)) : q.binding = b.id /\ IsRequest(q)
         /\ b.groups = <<>> => ToSet(GroupRequests(b)) = {}
<1> DEFINE Of(g) == Map(Group(g).resources, LAMBDA id : [Ask(b, ResourceById(id), id) EXCEPT !.group = g])
           f == [i \in DOMAIN b.groups |-> Of(b.groups[i])]
<1>1. List(b.groups)
  BY LibraryIsCompiled
<1>2. ASSUME NEW g PROVE List(Of(g)) /\ \A q \in ToSet(Of(g)) : q.binding = b.id /\ IsRequest(q)
  <2> DEFINE s == Group(g).resources
             h == Of(g)
  <2>1. List(s)
    BY LibraryLists
  <2>2. h = [i \in DOMAIN s |-> [Ask(b, ResourceById(s[i]), s[i]) EXCEPT !.group = g]]
    BY DEF Map
  <2> HIDE DEF h, s
  <2>3. List(h) /\ ToSet(h) = {h[i] : i \in DOMAIN s}
    <3>1. h = [i \in DOMAIN s |-> h[i]]
      BY <2>2
    <3> QED
      BY <2>1, <3>1, MapIsList
  <2>4. \A i \in DOMAIN s : h[i].binding = b.id
    BY <2>2 DEF Ask, Request
  <2>5. \A i \in DOMAIN s : IsRequest(h[i])
    BY <2>2 DEF Ask, IsRequest
  <2> QED
    BY <2>3, <2>4, <2>5 DEF h
<1>3. GroupRequests(b) = FlattenSeq(f)
  BY DEF GroupRequests, FlatMap, Map
<1> HIDE DEF Of
<1>4. List(f) /\ DOMAIN f = DOMAIN b.groups /\ \A i \in DOMAIN f : List(f[i])
  <2>1. f = [i \in DOMAIN b.groups |-> f[i]]
    OBVIOUS
  <2>2. \A i \in DOMAIN b.groups : List(f[i])
    BY <1>2
  <2> HIDE DEF f
  <2> QED
    BY <1>1, <2>1, <2>2, MapIsList
<1>5. \A i \in DOMAIN f : \A q \in ToSet(f[i]) : q.binding = b.id /\ IsRequest(q)
  BY <1>2
<1> HIDE DEF f
<1>6. List(FlattenSeq(f)) /\ ToSet(FlattenSeq(f)) = UNION {ToSet(f[i]) : i \in DOMAIN f}
  BY <1>4, FlatIsList
<1>7. \A q \in ToSet(FlattenSeq(f)) : q.binding = b.id /\ IsRequest(q)
  BY <1>5, <1>6
<1>8. b.groups = <<>> => DOMAIN f = {}
  BY <1>4
<1> QED
  BY <1>3, <1>6, <1>7, <1>8

\* The uploads that satisfy a gate are a list.
LEMMA GateUploadsAre ==
  ASSUME NEW b, NEW u \in Holdings
  PROVE  List(GateUploads(b, u))
<1> DEFINE I == {i \in DOMAIN u.uploads : u.uploads[i].file \in b.patterns}
           J == {i \in DOMAIN u.gates : u.gates[i].key = b.id /\ b.id # None}
           K == {i \in DOMAIN u.gates : u.gates[i].key = b.role /\ u.gates[i].binding \in {None, b.id}}
           own   == FirstAt(u.gates, J, NoGate)
           other == FirstAt(u.gates, K, NoGate)
           found == Sub(u.uploads, I)
<1>1. List(u.uploads) /\ List(u.gates) /\ \A g \in ToSet(u.gates) : List(g.uploads)
  BY HoldingsAreLists
<1>2. List(found)
  BY <1>1, SubIsList
<1>3. ASSUME NEW P \in SUBSET DOMAIN u.gates PROVE List(FirstAt(u.gates, P, NoGate).uploads)
  <2>1. P \in SUBSET Nat
    BY <1>1, ListFacts
  <2>2. FirstAt(u.gates, P, NoGate) = NoGate \/ \E i \in P : FirstAt(u.gates, P, NoGate) = u.gates[i]
    BY <2>1, FirstAtPosition
  <2>3. List(NoGate.uploads)
    BY ShortLists DEF NoGate
  <2>4. \A i \in P : u.gates[i] \in ToSet(u.gates)
    BY DEF ToSet
  <2> QED
    BY <1>1, <2>2, <2>3, <2>4
<1>4. List(own.uploads) /\ List(other.uploads)
  <2>1. J \in SUBSET DOMAIN u.gates /\ K \in SUBSET DOMAIN u.gates
    OBVIOUS
  <2> HIDE DEF J, K
  <2> QED
    BY <1>3, <2>1
<1>5. GateUploads(b, u) \in {found, own.uploads, other.uploads}
  BY DEF GateUploads, Select, FirstOr
<1> QED
  BY <1>2, <1>4, <1>5

\* What a gate asks for of the uploads, it asks for in its own name.
LEMMA GateRequestsAre ==
  ASSUME NEW b \in ToSet(Library.bindings), NEW u \in Holdings
  PROVE  /\ List(GateRequests(b, u))
         /\ \A q \in ToSet(GateRequests(b, u)) : q.binding = b.id /\ IsRequest(q)
         /\ GateUploads(b, u) = <<>> => ToSet(GateRequests(b, u)) = {}
<1> DEFINE s == GateUploads(b, u)
           f == GateRequests(b, u)
<1>1. List(s)
  BY GateUploadsAre
<1>2. CASE b.trigger # "artifact_gate"
  BY <1>2, ShortLists DEF GateRequests
<1>3. CASE b.trigger = "artifact_gate"
  <2>1. f = [i \in DOMAIN s |->
                [Ask(b, NoResource, s[i].id) EXCEPT !.file = s[i].file, !.role = "knowledge_source",
                                                    !.purpose = "session_upload"]]
    BY <1>3 DEF GateRequests, Map
  <2> HIDE DEF f, s
  <2>2. List(f) /\ ToSet(f) = {f[i] : i \in DOMAIN s}
    <3>1. f = [i \in DOMAIN s |-> f[i]]
      BY <2>1
    <3> QED
      BY <1>1, <3>1, MapIsList
  <2>3. \A i \in DOMAIN s : f[i].binding = b.id
    BY <2>1 DEF Ask, Request
  <2>4. \A i \in DOMAIN s : IsRequest(f[i])
    BY <2>1 DEF Ask, IsRequest
  <2>5. s = <<>> => DOMAIN s = {}
    OBVIOUS
  <2> QED
    BY <2>2, <2>3, <2>4, <2>5 DEF f, s
<1> QED
  BY <1>2, <1>3

\* The bindings that match are the library's.
LEMMA Prioritized ==
  ASSUME NEW I, I \subseteq DOMAIN Library.bindings
  PROVE  LET s == ByPriority(Sub(Library.bindings, I))
         IN  List(s) /\ ToSet(s) \subseteq ToSet(Library.bindings)
<1> DEFINE s == Sub(Library.bindings, I)
           key == [i \in DOMAIN s |-> Priority(s[i])]
           r == Sorted(s, DOMAIN s, key)
<1>1. List(s) /\ ToSet(s) \subseteq ToSet(Library.bindings)
  <2>1. List(Library.bindings)
    BY LibraryIsCompiled
  <2>2. List(s) /\ ToSet(s) = {Library.bindings[i] : i \in I}
    BY <2>1, SubIsList
  <2> QED
    BY <2>2 DEF ToSet
<1> HIDE DEF s
<1>2. Len(s) \in Nat /\ DOMAIN s = 1 .. Len(s) /\ \A i \in DOMAIN s : s[i] \in ToSet(s)
  BY <1>1, ListFacts
<1>3. Keyed(DOMAIN s, key)
  <2>1. \A i \in DOMAIN s : s[i].priority \in Int
    BY <1>1, <1>2, LibraryIsCompiled
  <2>2. \A i \in DOMAIN s : key[i] \in Int
    BY <2>1 DEF Priority
  <2>3. IsFiniteSet(DOMAIN s)
    BY <1>2, FS_Interval
  <2> QED
    BY <1>2, <2>2, <2>3 DEF Keyed
<1> HIDE DEF key
<1>4. List(r) /\ \A k \in DOMAIN r : \E i \in DOMAIN s : r[k] = s[i]
  BY <1>3, SortedIsList
<1>5. ToSet(r) \subseteq ToSet(s)
  BY <1>4 DEF ToSet
<1> QED
  BY <1>1, <1>4, <1>5 DEF ByPriority, s, key

\* The bindings that match a turn are a list of the library's.
LEMMA MatchesAreBindings ==
  ASSUME NEW t, NEW u
  PROVE  List(Matched(t, u)) /\ ToSet(Matched(t, u)) \subseteq ToSet(Library.bindings)
<1> DEFINE s == Library.bindings
<1>1. List(PhaseMatches(t, u)) /\ ToSet(PhaseMatches(t, u)) \subseteq ToSet(s)
  <2> DEFINE I == {i \in DOMAIN s :
                     /\ s[i].trigger \notin {"command_trigger", "artifact_gate"}
                     /\ ScopeMatches(t, s[i], ~(Hybrid(t) /\ t.ses.scope # None))
                     /\ ~StepSpeaks(t, s[i])
                     /\ Signalled(t, u, s[i])}
  <2>1. PhaseMatches(t, u) = ByPriority(Sub(s, I))
    BY DEF PhaseMatches, Select
  <2>2. I \subseteq DOMAIN s
    OBVIOUS
  <2> HIDE DEF I
  <2> QED
    BY <2>1, <2>2, Prioritized
<1>2. List(CommandMatches(t)) /\ ToSet(CommandMatches(t)) \subseteq ToSet(s)
  <2> DEFINE I == {i \in DOMAIN s : s[i].trigger = "command_trigger" /\ SignalMatches(t, s[i])}
  <2>1. CommandMatches(t) = ByPriority(Sub(s, I))
    BY DEF CommandMatches, Select
  <2>2. I \subseteq DOMAIN s
    OBVIOUS
  <2> HIDE DEF I
  <2> QED
    BY <2>1, <2>2, Prioritized
<1>3. List(GateMatches(t, u)) /\ ToSet(GateMatches(t, u)) \subseteq ToSet(s)
  <2> DEFINE I == {i \in DOMAIN s : /\ s[i].trigger = "artifact_gate" /\ ScopeMatches(t, s[i], TRUE)
                                    /\ Signalled(t, u, s[i])}
  <2>1. GateMatches(t, u) = ByPriority(Sub(s, I))
    BY DEF GateMatches, Select
  <2>2. I \subseteq DOMAIN s
    OBVIOUS
  <2> HIDE DEF I
  <2> QED
    BY <2>1, <2>2, Prioritized
<1>4. /\ List(PhaseMatches(t, u) \o CommandMatches(t))
      /\ ToSet(PhaseMatches(t, u) \o CommandMatches(t)) \subseteq ToSet(s)
  BY <1>1, <1>2, ConcatIsList
<1> QED
  BY <1>3, <1>4, ConcatIsList DEF Matched

\* What a binding itself asks, it asks for in its own name.
LEMMA OwnRequestsNameIt ==
  ASSUME NEW b \in ToSet(Library.bindings), NEW q \in ToSet(OwnRequests(b))
  PROVE  /\ q.binding = b.id /\ q.group = None /\ q.required = b.required /\ q.artifact = b.role
         /\ IsRequest(q)
<1>1. PICK id \in ToSet(b.resources) : q = Ask(b, ResourceById(id), id)
  BY OwnRequestsAre
<1>2. q.binding = b.id /\ q.group = None /\ q.required = b.required /\ q.artifact = b.role
  BY <1>1 DEF Ask, Request
<1>3. IsRequest(q)
  BY <1>1 DEF Ask, IsRequest
<1> QED
  BY <1>2, <1>3

\* One request of each binding, group and name is kept of what several bindings ask for.
LEMMA OneOfEachIsKept ==
  ASSUME NEW ss, List(ss), \A i \in DOMAIN ss : List(ss[i])
  PROVE  LET r == KeepFirst(FlattenSeq(ss), BindingKey)
             all == UNION {ToSet(ss[i]) : i \in DOMAIN ss}
         IN  /\ List(r) /\ ToSet(r) \subseteq all
             /\ \A q \in all : \E k \in ToSet(r) : BindingKey(k) = BindingKey(q)
<1> DEFINE s   == FlattenSeq(ss)
           all == UNION {ToSet(ss[i]) : i \in DOMAIN ss}
           key == [i \in DOMAIN s |-> BindingKey(s[i])]
           r   == Sub(s, Firsts(s, key))
<1>1. List(s) /\ ToSet(s) = all
  BY FlatIsList
<1> HIDE DEF s, all
<1>2. KeepFirst(s, BindingKey) = r
  <2>1. Firsts(s, key) = {i \in DOMAIN s : \A j \in DOMAIN s : j < i => BindingKey(s[j]) # BindingKey(s[i])}
    BY DEF Firsts
  <2> QED
    BY <2>1 DEF KeepFirst
<1>a. \A i \in DOMAIN s : key[i] = BindingKey(s[i])
  OBVIOUS
<1> HIDE DEF key
<1>3. /\ List(r) /\ ToSet(r) \subseteq ToSet(s)
      /\ \A i \in DOMAIN s : \E k \in DOMAIN s : key[k] = key[i] /\ s[k] \in ToSet(r)
  BY <1>1, FirstsAreKept
<1> HIDE DEF r
<1>4. ASSUME NEW q \in ToSet(s) PROVE \E k \in ToSet(r) : BindingKey(k) = BindingKey(q)
  <2>1. PICK i \in DOMAIN s : s[i] = q
    BY <1>1, ListIsFunction
  <2>2. PICK k \in DOMAIN s : key[k] = key[i] /\ s[k] \in ToSet(r)
    BY <1>3
  <2>3. BindingKey(s[k]) = BindingKey(s[i])
    BY <1>a, <2>2
  <2> QED
    BY <2>1, <2>2, <2>3
<1> QED
  BY <1>1, <1>2, <1>3, <1>4 DEF s, all

\* A request of the binding c.
AskedBy(q, c, u) ==
    /\ c \in ToSet(Library.bindings) /\ q.binding = c.id /\ IsRequest(q)
    /\ q \in ToSet(GroupRequests(c)) \cup ToSet(OwnRequests(c)) \cup ToSet(GateRequests(c, u))

\* The matched bindings ask for what they themselves, their groups and their gates ask for.
LEMMA ActivationAsks ==
  ASSUME NEW matched, List(matched), ToSet(matched) \subseteq ToSet(Library.bindings), NEW u \in Holdings
  PROVE  LET r == Activation(matched, u).requests
         IN  /\ List(r)
             /\ \A q \in ToSet(r) : \E c \in ToSet(Library.bindings) : AskedBy(q, c, u)
             /\ \A b \in ToSet(matched) : \A q \in ToSet(OwnRequests(b)) :
                   \E k \in ToSet(r) : BindingKey(k) = BindingKey(q)
<1> DEFINE R(b) == GroupRequests(b) \o OwnRequests(b) \o GateRequests(b, u)
           ss == [i \in DOMAIN matched |-> R(matched[i])]
           all == UNION {ToSet(ss[i]) : i \in DOMAIN ss}
           r == KeepFirst(FlattenSeq(ss), BindingKey)
<1>1. Activation(matched, u).requests = r
  BY DEF Activation, FlatMap, Map
<1>2. ASSUME NEW b \in ToSet(Library.bindings)
      PROVE  /\ List(R(b))
             /\ ToSet(R(b)) = ToSet(GroupRequests(b)) \cup ToSet(OwnRequests(b)) \cup ToSet(GateRequests(b, u))
             /\ \A q \in ToSet(R(b)) : AskedBy(q, b, u)
  <2>1. List(GroupRequests(b)) /\ List(OwnRequests(b)) /\ List(GateRequests(b, u))
    BY GroupRequestsAre, OwnRequestsAre, GateRequestsAre
  <2>2. /\ List(GroupRequests(b) \o OwnRequests(b))
        /\ ToSet(GroupRequests(b) \o OwnRequests(b)) = ToSet(GroupRequests(b)) \cup ToSet(OwnRequests(b))
    BY <2>1, ConcatIsList
  <2>3. /\ List(R(b))
        /\ ToSet(R(b)) = ToSet(GroupRequests(b)) \cup ToSet(OwnRequests(b)) \cup ToSet(GateRequests(b, u))
    BY <2>1, <2>2, ConcatIsList
  <2>4. ASSUME NEW q \in ToSet(R(b)) PROVE q.binding = b.id /\ IsRequest(q)
    BY <2>3, GroupRequestsAre, OwnRequestsNameIt, GateRequestsAre
  <2> QED
    BY <2>3, <2>4 DEF AskedBy
<1> HIDE DEF R
<1>3. /\ List(ss) /\ DOMAIN ss = DOMAIN matched /\ \A i \in DOMAIN ss : List(ss[i])
      /\ \A i \in DOMAIN ss : ss[i] = R(matched[i]) /\ matched[i] \in ToSet(matched)
  <2>1. ss = [i \in DOMAIN matched |-> ss[i]]
    OBVIOUS
  <2>2. \A i \in DOMAIN matched : ss[i] = R(matched[i]) /\ matched[i] \in ToSet(matched)
    BY DEF ToSet
  <2>3. \A i \in DOMAIN matched : List(ss[i])
    BY <1>2, <2>2
  <2> HIDE DEF ss
  <2> QED
    BY <2>1, <2>2, <2>3, MapIsList
<1> HIDE DEF ss
<1>4. /\ List(r) /\ ToSet(r) \subseteq all
      /\ \A q \in all : \E k \in ToSet(r) : BindingKey(k) = BindingKey(q)
  BY <1>3, OneOfEachIsKept
<1> HIDE DEF r
<1>5. \A q \in ToSet(r) : \E c \in ToSet(Library.bindings) : AskedBy(q, c, u)
  BY <1>2, <1>3, <1>4
<1>6. ASSUME NEW b \in ToSet(matched), NEW q \in ToSet(OwnRequests(b))
      PROVE  \E k \in ToSet(r) : BindingKey(k) = BindingKey(q)
  <2>1. PICK i \in DOMAIN matched : matched[i] = b
    BY ListIsFunction
  <2>2. q \in ToSet(ss[i])
    BY <1>2, <1>3, <2>1
  <2> QED
    BY <1>3, <1>4, <2>2
<1> QED
  BY <1>1, <1>4, <1>5, <1>6

\* The matched bindings are active.
LEMMA MatchesAreActive ==
  ASSUME NEW matched, List(matched), NEW u
  PROVE  LET a == Activation(matched, u).active
         IN  List(a) /\ \A b \in ToSet(matched) : b.id # None => b.id \in ToSet(a)
<1> DEFINE ss == [i \in DOMAIN matched |-> Some(matched[i].id)]
           s == FlattenSeq(ss)
           key == [i \in DOMAIN s |-> s[i]]
           a == Sub(s, Firsts(s, key))
<1>1. Activation(matched, u).active = a
  <2>1. Firsts(s, key) = {i \in DOMAIN s : \A j \in DOMAIN s : j < i => s[j] # s[i]}
    BY DEF Firsts
  <2> HIDE DEF key
  <2> QED
    BY <2>1 DEF Activation, FlatMap, Map, KeepFirst
<1>2. /\ List(ss) /\ DOMAIN ss = DOMAIN matched /\ \A i \in DOMAIN ss : List(ss[i])
  <2>1. ss = [i \in DOMAIN matched |-> ss[i]]
    OBVIOUS
  <2>2. \A i \in DOMAIN matched : List(ss[i])
    BY ShortLists DEF Some
  <2> HIDE DEF ss
  <2> QED
    BY <2>1, <2>2, MapIsList
<1>3. \A i \in DOMAIN matched : matched[i].id # None => matched[i].id \in ToSet(ss[i])
  BY ShortLists DEF Some
<1> HIDE DEF ss
<1>4. List(s) /\ ToSet(s) = UNION {ToSet(ss[i]) : i \in DOMAIN ss}
  BY <1>2, FlatIsList
<1> HIDE DEF s
<1>5. \A i \in DOMAIN s : key[i] = s[i]
  OBVIOUS
<1> HIDE DEF key
<1>6. List(a) /\ \A i \in DOMAIN s : \E k \in DOMAIN s : key[k] = key[i] /\ s[k] \in ToSet(a)
  BY <1>4, FirstsAreKept
<1> HIDE DEF a
<1>7. ASSUME NEW b \in ToSet(matched), b.id # None PROVE b.id \in ToSet(a)
  <2>1. PICK i \in DOMAIN matched : matched[i] = b
    BY ListIsFunction
  <2>2. b.id \in ToSet(s)
    BY <1>2, <1>3, <1>4, <1>7, <2>1
  <2>3. PICK j \in DOMAIN s : s[j] = b.id
    BY <1>4, <2>2, ListIsFunction
  <2> QED
    BY <1>5, <1>6, <2>3
<1> QED
  BY <1>1, <1>6, <1>7

\* The bindings of a scope ask for what they themselves and their groups ask for.
LEMMA ScopeAsks ==
  ASSUME NEW m, NEW scope, NEW descend, NEW u
  PROVE  LET o == ForScope(m, scope, descend)
         IN  /\ List(o.requests) /\ List(o.active)
             /\ \A q \in ToSet(o.requests) : \E c \in ToSet(Library.bindings) : AskedBy(q, c, u)
<1> DEFINE s == Library.bindings
           I == {i \in DOMAIN s : s[i].scope = scope /\ scope # None}
           own == Sub(s, I)
           J == {i \in DOMAIN s : /\ descend /\ ServiceBlock(m, scope) # NoBlock
                                  /\ s[i].id # None /\ ~Contains(own, s[i]) /\ <<scope, s[i].id>> \in Library.under}
           more == Sub(s, J)
           bs == own \o more
           R(b) == GroupRequests(b) \o OwnRequests(b)
           ss == [i \in DOMAIN bs |-> R(bs[i])]
           ids == [i \in DOMAIN bs |-> Some(bs[i].id)]
           r == KeepFirst(FlattenSeq(ss), BindingKey)
           f == FlattenSeq(ids)
           a == Sub(f, {i \in DOMAIN f : \A j \in DOMAIN f : j < i => f[j] # f[i]})
<1>1. BindingsOf(m, scope, descend) = bs
  BY DEF BindingsOf, Select
<1>2. List(bs) /\ ToSet(bs) \subseteq ToSet(s)
  <2>1. List(s)
    BY LibraryIsCompiled
  <2>2. List(own) /\ ToSet(own) = {s[i] : i \in I}
    BY <2>1, SubIsList
  <2> HIDE DEF own
  <2>3. List(more) /\ ToSet(more) = {s[i] : i \in J}
    BY <2>1, SubIsList
  <2> HIDE DEF more
  <2>4. ToSet(own) \subseteq ToSet(s) /\ ToSet(more) \subseteq ToSet(s)
    BY <2>2, <2>3 DEF ToSet
  <2> QED
    BY <2>2, <2>3, <2>4, ConcatIsList
<1> HIDE DEF bs
<1>3. ForScope(m, scope, descend).requests = r /\ ForScope(m, scope, descend).active = a
  BY <1>1 DEF ForScope, Offered, FlatMap, Map, KeepFirst
<1>4. ASSUME NEW b \in ToSet(s)
      PROVE  List(R(b)) /\ \A q \in ToSet(R(b)) : AskedBy(q, b, u)
  <2>1. List(GroupRequests(b)) /\ List(OwnRequests(b))
    BY GroupRequestsAre, OwnRequestsAre
  <2>2. List(R(b)) /\ ToSet(R(b)) = ToSet(GroupRequests(b)) \cup ToSet(OwnRequests(b))
    BY <2>1, ConcatIsList
  <2>3. \A q \in ToSet(R(b)) : q.binding = b.id /\ IsRequest(q)
    BY <2>2, GroupRequestsAre, OwnRequestsNameIt
  <2> QED
    BY <2>2, <2>3 DEF AskedBy
<1> HIDE DEF R
<1>5. /\ List(ss) /\ \A i \in DOMAIN ss : List(ss[i]) /\ ss[i] = R(bs[i]) /\ bs[i] \in ToSet(s)
      /\ List(ids) /\ \A i \in DOMAIN ids : List(ids[i])
  <2>1. ss = [i \in DOMAIN bs |-> ss[i]] /\ ids = [i \in DOMAIN bs |-> ids[i]]
    OBVIOUS
  <2>2. \A i \in DOMAIN bs : bs[i] \in ToSet(s)
    BY <1>2, ListFacts
  <2>3. \A i \in DOMAIN bs : ss[i] = R(bs[i]) /\ List(ss[i])
    BY <1>4, <2>2
  <2>4. \A i \in DOMAIN bs : List(ids[i])
    BY ShortLists DEF Some
  <2> HIDE DEF ss, ids
  <2>5. List(ss) /\ DOMAIN ss = DOMAIN bs
    BY <1>2, <2>1, MapIsList
  <2>6. List(ids) /\ DOMAIN ids = DOMAIN bs
    BY <1>2, <2>1, MapIsList
  <2> QED
    BY <2>2, <2>3, <2>4, <2>5, <2>6
<1> HIDE DEF ss, ids
<1>6. List(r) /\ ToSet(r) \subseteq UNION {ToSet(ss[i]) : i \in DOMAIN ss}
  BY <1>5, OneOfEachIsKept
<1> HIDE DEF r
<1>7. \A q \in ToSet(r) : \E c \in ToSet(Library.bindings) : AskedBy(q, c, u)
  BY <1>4, <1>5, <1>6
<1>8. List(a)
  <2>1. List(f)
    BY <1>5, FlatIsList
  <2> HIDE DEF f
  <2> QED
    BY <2>1, SubIsList
<1> QED
  BY <1>3, <1>6, <1>7, <1>8

----------------------------------------------------------------------------
(* What the place of a turn asks for.                                      *)
\* A follow-up module asks for files.
LEMMA FollowupAsks ==
  ASSUME NEW m, NEW block
  PROVE  /\ List(FollowupRequests(m, block))
         /\ \A q \in ToSet(FollowupRequests(m, block)) : q.file # None /\ IsRequest(q)
<1> DEFINE files == ModuleFiles(block).files
           I == {i \in DOMAIN files : ResourceByFile(files[i]) # NoResource}
           known == Sub(files, I)
           named == [i \in DOMAIN known |->
                       [Request EXCEPT !.role = RoleFor([kind |-> "instruction_source"], ResourceByFile(known[i])),
                                       !.id = ResourceByFile(known[i]).id, !.file = known[i],
                                       !.purpose = "module"]]
           wanted == ForScope(m, block, TRUE).requests
           J == {i \in DOMAIN wanted : wanted[i].file # None /\ wanted[i].role \in Guidance}
           bound == Sub(wanted, J)
           all == IF named # <<>> THEN named ELSE bound
           key == [i \in DOMAIN all |-> <<all[i].role, all[i].file>>]
           own == Sub(all, Firsts(all, key))
<1>1. FollowupRequests(m, block) = own
  <2>1. FollowupRequests(m, block) = KeepFirst(all, LAMBDA q : <<q.role, q.file>>)
    BY DEF FollowupRequests, Map, Select
  <2> HIDE DEF all
  <2>2. Firsts(all, key) = {i \in DOMAIN all : \A j \in DOMAIN all : j < i =>
                               <<all[j].role, all[j].file>> # <<all[i].role, all[i].file>>}
    BY DEF Firsts
  <2> HIDE DEF key
  <2> QED
    BY <2>1, <2>2 DEF KeepFirst
<1>2. List(known) /\ ToSet(known) = {files[i] : i \in I}
  BY LibraryLists, SubIsList
<1> HIDE DEF known
<1>3. List(named) /\ \A q \in ToSet(named) : q.file # None /\ IsRequest(q)
  <2>1. named = [i \in DOMAIN known |-> named[i]] /\ \A i \in DOMAIN known : named[i].file = known[i]
    BY DEF Request
  <2>a. \A i \in DOMAIN known : IsRequest(named[i])
    BY DEF IsRequest
  <2> HIDE DEF named
  <2>2. List(named) /\ ToSet(named) = {named[i] : i \in DOMAIN known}
    BY <1>2, <2>1, MapIsList
  <2>3. \A i \in DOMAIN known : known[i] # None
    <3>1. \A i \in DOMAIN known : known[i] \in ToSet(known)
      BY <1>2, ListFacts
    <3>2. \A f \in ToSet(known) : ResourceByFile(f) # NoResource
      BY <1>2
    <3> QED
      BY <3>1, <3>2, FileFound
  <2> QED
    BY <2>1, <2>a, <2>2, <2>3
<1> HIDE DEF named
<1>4. List(wanted) /\ \A q \in ToSet(wanted) : IsRequest(q)
  BY ScopeAsks DEF AskedBy
<1> HIDE DEF wanted
<1>5. List(bound) /\ \A q \in ToSet(bound) : q.file # None /\ IsRequest(q)
  <2>1. List(bound) /\ ToSet(bound) = {wanted[i] : i \in J}
    BY <1>4, SubIsList
  <2> QED
    BY <1>4, <2>1 DEF ToSet
<1> HIDE DEF bound
<1>6. List(all) /\ \A q \in ToSet(all) : q.file # None /\ IsRequest(q)
  BY <1>3, <1>5
<1> HIDE DEF all, key
<1>7. List(own) /\ ToSet(own) \subseteq ToSet(all)
  BY <1>6, FirstsAreKept
<1> QED
  BY <1>1, <1>6, <1>7

\* The uploads the user means are a list.
LEMMA UploadsAreSelected ==
  ASSUME NEW t, NEW u \in Holdings
  PROVE  List(SelectedUploads(t, u))
<1> DEFINE s == u.uploads
           sent  == Sub(s, {i \in DOMAIN s : s[i].id \in u.events})
           query == Sub(s, {i \in DOMAIN s : s[i].file \in t.query})
           kept  == Sub(s, {i \in DOMAIN s : Contains(u.active, s[i].id)})
           Says(word, found) == IF word \in t.query THEN found ELSE <<>>
           all == <<sent, Latest(query), Says("latest", Latest(s)), Says("first", Earliest(s)),
                    Says("previous", PreviousUpload(u)), Says("artifact", kept),
                    Says("artifact", Latest(s)), Says("context", Latest(s))>>
           I == {i \in DOMAIN all : all[i] # <<>>}
<1>1. SelectedUploads(t, u) = FirstAt(all, I, <<>>)
  BY DEF SelectedUploads, FirstOr, Select
<1>2. List(s) /\ List(sent) /\ List(query) /\ List(kept)
  <2>1. List(s)
    BY HoldingsAreLists
  <2> QED
    BY <2>1, SubIsList
<1> HIDE DEF sent, query, kept
<1>3. \A e : List(Latest(e)) /\ List(Earliest(e))
  BY ShortLists DEF Latest, Earliest
<1>4. List(PreviousUpload(u))
  BY <1>2, ShortLists DEF PreviousUpload
<1>5. \A word, found : List(found) => List(Says(word, found))
  BY ShortLists
<1> HIDE DEF Says
<1>6. DOMAIN all = 1 .. 8 /\ \A i \in 1 .. 8 : List(all[i])
  <2>1. List(all[1]) /\ List(all[2])
    BY <1>2, <1>3
  <2>2. List(all[3]) /\ List(all[4]) /\ List(all[5]) /\ List(all[6]) /\ List(all[7]) /\ List(all[8])
    BY <1>2, <1>3, <1>4, <1>5
  <2>3. DOMAIN all = 1 .. 8
    OBVIOUS
  <2>4. \A i \in 1 .. 8 : i \in {1, 2, 3, 4, 5, 6, 7, 8}
    OBVIOUS
  <2> HIDE DEF all
  <2> QED
    BY <2>1, <2>2, <2>3, <2>4
<1> HIDE DEF all
<1>7. I \in SUBSET Nat /\ I \subseteq 1 .. 8
  BY <1>6
<1> HIDE DEF I
<1>8. FirstAt(all, I, <<>>) = <<>> \/ \E i \in I : FirstAt(all, I, <<>>) = all[i]
  BY <1>7, FirstAtPosition
<1> QED
  BY <1>1, <1>6, <1>7, <1>8, ShortLists

\* A request of no binding, for a file or an identifier or, if for both, for one of the library's resources.
Unbound(q) ==
    /\ q.binding = None /\ q.artifact = None /\ IsRequest(q)
    /\ q.id = None \/ q.file = None \/ \E r \in ToSet(Library.resources) : q.id = r.id /\ q.file = r.file

\* What the turn asks for of the uploads.
LEMMA UploadsAsk ==
  ASSUME NEW t, NEW u \in Holdings
  PROVE  List(UploadRequests(t, u)) /\ \A q \in ToSet(UploadRequests(t, u)) : Unbound(q)
<1> DEFINE s == SelectedUploads(t, u)
           f == UploadRequests(t, u)
<1>1. f = [i \in DOMAIN s |->
              [Request EXCEPT !.role = "knowledge_source", !.id = s[i].id, !.purpose = "session_upload"]]
  BY DEF UploadRequests, Map
<1>2. List(s)
  BY UploadsAreSelected
<1> HIDE DEF f, s
<1>3. List(f) /\ ToSet(f) = {f[i] : i \in DOMAIN s}
  <2>1. f = [i \in DOMAIN s |-> f[i]]
    BY <1>1
  <2> QED
    BY <1>2, <2>1, MapIsList
<1>4. \A i \in DOMAIN s : Unbound(f[i])
  <2>1. \A i \in DOMAIN s : f[i].binding = None /\ f[i].artifact = None /\ f[i].file = None
    BY <1>1 DEF Request
  <2>2. \A i \in DOMAIN s : IsRequest(f[i])
    BY <1>1 DEF IsRequest
  <2> QED
    BY <2>1, <2>2 DEF Unbound
<1> QED
  BY <1>3, <1>4 DEF f

\* The requests of the bindings that are no phases.
LEMMA SuppliedAre ==
  ASSUME NEW s, List(s)
  PROVE  /\ List(Supplied(s))
         /\ ToSet(Supplied(s)) = {q \in ToSet(s) : \A b \in ToSet(Library.bindings) : b.id = q.binding => ~b.meta}
<1> DEFINE I == {i \in DOMAIN s : \A b \in ToSet(Library.bindings) : b.id = s[i].binding => ~b.meta}
<1>1. Supplied(s) = Sub(s, I)
  BY DEF Supplied, Select
<1>2. List(Sub(s, I)) /\ ToSet(Sub(s, I)) = {s[i] : i \in I}
  BY SubIsList
<1> QED
  BY <1>1, <1>2 DEF ToSet

\* Of nothing or of the library's resources.
Resources(s) == List(s) /\ \A r \in ToSet(s) : r = NoResource \/ r \in ToSet(Library.resources)

\* The resources the library has under some identifiers, or of some files.
LEMMA LookedUp ==
  ASSUME NEW s, List(s), NEW f,
         f = [i \in DOMAIN s |-> f[i]],
         \A i \in DOMAIN s : f[i] = NoResource \/ f[i] \in ToSet(Library.resources)
  PROVE  Resources(f)
<1>1. List(f) /\ ToSet(f) = {f[i] : i \in DOMAIN s}
  BY MapIsList
<1> QED
  BY <1>1 DEF Resources

\* Two lists of resources, one after the other.
LEMMA MoreResources ==
  ASSUME NEW s, Resources(s), NEW r, Resources(r)
  PROVE  Resources(s \o r)
<1>1. List(s) /\ List(r)
  BY DEF Resources
<1>2. List(s \o r) /\ ToSet(s \o r) = ToSet(s) \cup ToSet(r)
  BY <1>1, ConcatIsList
<1> QED
  BY <1>2 DEF Resources

\* The resources of the support modules that a turn is offered.
LEMMA SupportOffers ==
  ASSUME NEW t
  PROVE  Resources(SupportResources(t))
<1> DEFINE s == Library.modules
           I == {i \in DOMAIN s : /\ s[i].resources # <<>>
                                  /\ (s[i].triggers = {} \/ s[i].triggers \cap t.query # {})}
           on == Sub(s, I)
           lists == [i \in DOMAIN on |-> on[i].resources]
           offered == IF t.pick.scope # None THEN ModuleFiles(t.pick.support).resources ELSE FlattenSeq(lists)
           found == [i \in DOMAIN offered |-> ResourceById(offered[i])]
           J == {i \in DOMAIN found : found[i] # NoResource}
           known == Sub(found, J)
           key == [i \in DOMAIN known |-> known[i].id]
           kept == Sub(known, Firsts(known, key))
<1>1. SupportResources(t) = kept
  <2>1. SupportResources(t) = KeepFirst(known, LAMBDA r : r.id)
    BY DEF SupportResources, Map, Select, FlatMap
  <2> HIDE DEF known
  <2>2. Firsts(known, key) = {i \in DOMAIN known : \A j \in DOMAIN known : j < i => known[j].id # known[i].id}
    BY DEF Firsts
  <2> HIDE DEF key
  <2> QED
    BY <2>1, <2>2 DEF KeepFirst
<1>2. List(on) /\ \A x \in ToSet(on) : List(x.resources)
  <2>1. List(s)
    BY LibraryIsCompiled
  <2>2. List(on) /\ ToSet(on) = {s[i] : i \in I}
    BY <2>1, SubIsList
  <2>3. \A x \in ToSet(on) : x \in ToSet(s)
    BY <2>2 DEF ToSet
  <2> QED
    BY <2>2, <2>3, LibraryIsCompiled
<1> HIDE DEF on
<1>3. List(FlattenSeq(lists))
  <2>1. lists = [i \in DOMAIN on |-> lists[i]] /\ \A i \in DOMAIN on : List(lists[i])
    <3>1. \A i \in DOMAIN on : on[i] \in ToSet(on)
      BY <1>2, ListFacts
    <3> QED
      BY <1>2, <3>1
  <2> HIDE DEF lists
  <2>2. List(lists) /\ DOMAIN lists = DOMAIN on
    BY <1>2, <2>1, MapIsList
  <2> QED
    BY <2>1, <2>2, FlatIsList
<1> HIDE DEF lists
<1>4. List(offered)
  BY <1>3, LibraryLists
<1> HIDE DEF offered
<1>5. Resources(found)
  <2>1. found = [i \in DOMAIN offered |-> found[i]]
    OBVIOUS
  <2>2. \A i \in DOMAIN offered : found[i] = NoResource \/ found[i] \in ToSet(Library.resources)
    BY ResourceFound
  <2> HIDE DEF found
  <2> QED
    BY <1>4, <2>1, <2>2, LookedUp
<1> HIDE DEF found
<1>6. List(known) /\ ToSet(known) \subseteq ToSet(found)
  <2>1. List(known) /\ ToSet(known) = {found[i] : i \in J}
    BY <1>5, SubIsList DEF Resources
  <2> QED
    BY <2>1 DEF ToSet
<1> HIDE DEF known, key
<1>7. List(kept) /\ ToSet(kept) \subseteq ToSet(known)
  BY <1>6, FirstsAreKept
<1> QED
  BY <1>1, <1>5, <1>6, <1>7 DEF Resources

\* The resources of the turn's place.
LEMMA PlaceHasResources ==
  ASSUME NEW x
  PROVE  Resources(PlannedResources(x))
<1> DEFINE own == FollowupRequests(x.t.m, x.block.id)
           mine == [i \in DOMAIN own |-> ResourceByFile(own[i].file)]
           primary == PrimaryFile(x.t)
           direct == DirectFiles(x.t)
           I == {i \in DOMAIN direct : direct[i] # primary}
           others == Sub(direct, I)
           files == Some(primary) \o others
           found == [i \in DOMAIN files |-> ResourceByFile(files[i])]
           more == IF ModuleOwnsFiles(x.t) THEN <<>> ELSE SupportResources(x.t)
<1>1. PlannedResources(x) = IF Followup(x) THEN mine ELSE found \o more
  BY DEF PlannedResources, Map, Select
<1>2. Resources(mine)
  <2>1. List(own)
    BY FollowupAsks
  <2> HIDE DEF own
  <2>2. mine = [i \in DOMAIN own |-> mine[i]]
    OBVIOUS
  <2>3. \A i \in DOMAIN own : mine[i] = NoResource \/ mine[i] \in ToSet(Library.resources)
    BY FileFound
  <2> HIDE DEF mine
  <2> QED
    BY <2>1, <2>2, <2>3, LookedUp
<1>3. List(files)
  <2>1. List(direct)
    BY LibraryLists DEF DirectFiles
  <2> HIDE DEF direct
  <2>2. List(others)
    BY <2>1, SubIsList
  <2> HIDE DEF others
  <2>3. List(Some(primary))
    BY ShortLists DEF Some
  <2> QED
    BY <2>2, <2>3, ConcatIsList
<1> HIDE DEF files
<1>4. Resources(found)
  <2>1. found = [i \in DOMAIN files |-> found[i]]
    OBVIOUS
  <2>2. \A i \in DOMAIN files : found[i] = NoResource \/ found[i] \in ToSet(Library.resources)
    BY FileFound
  <2> HIDE DEF found
  <2> QED
    BY <1>3, <2>1, <2>2, LookedUp
<1> HIDE DEF found
<1>5. Resources(more)
  BY SupportOffers, ShortLists DEF Resources
<1> HIDE DEF more
<1> QED
  BY <1>1, <1>2, <1>4, <1>5, MoreResources

\* Those of a domain are the library's.
LEMMA PlannedAreKnown ==
  ASSUME NEW x, Resources(x.resources), NEW domain \in Roles
  PROVE  List(PlannedOf(x, domain)) /\ ToSet(PlannedOf(x, domain)) \subseteq ToSet(Library.resources)
<1> DEFINE s == x.resources
           I == {i \in DOMAIN s : s[i].domain = domain}
<1>1. PlannedOf(x, domain) = Sub(s, I)
  BY DEF PlannedOf, Select
<1>2. List(Sub(s, I)) /\ ToSet(Sub(s, I)) = {s[i] : i \in I}
  BY SubIsList DEF Resources
<1>3. ASSUME NEW i \in I PROVE s[i] \in ToSet(Library.resources)
  <2>1. s[i] = NoResource \/ s[i] \in ToSet(Library.resources)
    BY ListFacts DEF Resources
  <2>2. NoResource.domain \notin Roles
    BY DEF NoResource, Roles, None
  <2>3. s[i].domain \in Roles
    OBVIOUS
  <2> QED
    BY <2>1, <2>2, <2>3
<1> QED
  BY <1>1, <1>2, <1>3

\* What is asked for each of some resources of the library.
LEMMA UnboundRequests ==
  ASSUME NEW s, List(s), NEW f, f = [i \in DOMAIN s |-> f[i]], \A i \in DOMAIN s : Unbound(f[i])
  PROVE  List(f) /\ \A q \in ToSet(f) : Unbound(q)
<1>1. List(f) /\ ToSet(f) = {f[i] : i \in DOMAIN s}
  BY MapIsList
<1> QED
  BY <1>1

\* Of the requests of one name, the first is kept.
LEMMA NamedOnce ==
  ASSUME NEW s, List(s), \A q \in ToSet(s) : Unbound(q)
  PROVE  List(KeepFirst(s, NameOf)) /\ \A q \in ToSet(KeepFirst(s, NameOf)) : Unbound(q)
<1> DEFINE I == {i \in DOMAIN s : \A j \in DOMAIN s : j < i => NameOf(s[j]) # NameOf(s[i])}
<1>1. KeepFirst(s, NameOf) = Sub(s, I)
  BY DEF KeepFirst
<1>2. List(Sub(s, I)) /\ ToSet(Sub(s, I)) = {s[i] : i \in I}
  BY SubIsList
<1> QED
  BY <1>1, <1>2 DEF ToSet

\* The place of a turn asks for no binding.
LEMMA PlaceAsks ==
  ASSUME NEW x, Resources(x.resources)
  PROVE  List(PlaceRequests(x)) /\ \A q \in ToSet(PlaceRequests(x)) : Unbound(q)
<1> DEFINE Fine(s) == List(s) /\ \A q \in ToSet(s) : Unbound(q)
           Known(s) == List(s) /\ ToSet(s) \subseteq ToSet(Library.resources)
           sources == PlannedOf(x, "instruction_source") \o PlannedOf(x, "output_template")
           guidance == [i \in DOMAIN sources |-> For(sources[i], sources[i].domain, "guidance")]
           named == PlannedOf(x, "output_artifact")
           aims == IF named # <<>> THEN named ELSE ResourcesOf("output_artifact")
           targets == [i \in DOMAIN aims |-> For(aims[i], aims[i].domain, "output_target")]
           facts == PlannedOf(x, "knowledge_source")
           grounding == [i \in DOMAIN facts |->
                           [For(facts[i], facts[i].domain, "knowledge") EXCEPT !.id = None]]
           planned == guidance \o KeepFirst(targets, NameOf) \o KeepFirst(grounding, NameOf)
           fallback == IF StepFiles(x.t.pick.scope).block # <<>> THEN StepFiles(x.t.pick.scope).block
                       ELSE Some(PrimaryFile(x.t))
           last == [i \in DOMAIN fallback |-> [Request EXCEPT !.role = "instruction_source", !.file = fallback[i],
                                                              !.purpose = "fallback"]]
<1>1. PlaceRequests(x) = IF planned # <<>> THEN planned ELSE last
  BY DEF PlaceRequests, Map
<1>2. Known(sources) /\ Known(aims) /\ Known(facts)
  <2>1. /\ Known(PlannedOf(x, "instruction_source")) /\ Known(PlannedOf(x, "output_template"))
        /\ Known(named) /\ Known(facts)
    BY PlannedAreKnown DEF Roles
  <2>2. Known(sources)
    BY <2>1, ConcatIsList
  <2>3. Known(ResourcesOf("output_artifact"))
    <3> DEFINE s == Library.resources
               I == {i \in DOMAIN s : s[i].domain = "output_artifact"}
    <3>1. ResourcesOf("output_artifact") = Sub(s, I)
      BY DEF ResourcesOf, Select
    <3>2. List(Sub(s, I)) /\ ToSet(Sub(s, I)) = {s[i] : i \in I}
      BY LibraryIsCompiled, SubIsList
    <3> QED
      BY <3>1, <3>2 DEF ToSet
  <2> QED
    BY <2>1, <2>2, <2>3
<1> HIDE DEF sources, aims, facts
<1>3. \A r \in ToSet(Library.resources) : \A role, purpose :
         Unbound(For(r, role, purpose)) /\ Unbound([For(r, role, purpose) EXCEPT !.id = None])
  <2> SUFFICES ASSUME NEW r \in ToSet(Library.resources), NEW role, NEW purpose
               PROVE  Unbound(For(r, role, purpose)) /\ Unbound([For(r, role, purpose) EXCEPT !.id = None])
    OBVIOUS
  <2> DEFINE q == For(r, role, purpose)
             k == [q EXCEPT !.id = None]
  <2>1. IsRequest(q) /\ IsRequest(k)
    BY DEF For, IsRequest
  <2>2. /\ q.binding = None /\ q.artifact = None /\ q.id = r.id /\ q.file = r.file
        /\ k.binding = None /\ k.artifact = None /\ k.id = None
    BY DEF For, Request
  <2> QED
    BY <2>1, <2>2 DEF Unbound
<1>4. Fine(guidance)
  <2>1. guidance = [i \in DOMAIN sources |-> guidance[i]] /\ \A i \in DOMAIN sources : Unbound(guidance[i])
    <3>1. \A i \in DOMAIN sources : sources[i] \in ToSet(Library.resources)
      BY <1>2, ListFacts
    <3> QED
      BY <1>3, <3>1
  <2> HIDE DEF guidance
  <2> QED
    BY <1>2, <2>1, UnboundRequests
<1> HIDE DEF guidance
<1>5. Fine(targets)
  <2>1. targets = [i \in DOMAIN aims |-> targets[i]] /\ \A i \in DOMAIN aims : Unbound(targets[i])
    <3>1. \A i \in DOMAIN aims : aims[i] \in ToSet(Library.resources)
      BY <1>2, ListFacts
    <3> QED
      BY <1>3, <3>1
  <2> HIDE DEF targets
  <2> QED
    BY <1>2, <2>1, UnboundRequests
<1> HIDE DEF targets
<1>6. Fine(grounding)
  <2>1. grounding = [i \in DOMAIN facts |-> grounding[i]] /\ \A i \in DOMAIN facts : Unbound(grounding[i])
    <3>1. \A i \in DOMAIN facts : facts[i] \in ToSet(Library.resources)
      BY <1>2, ListFacts
    <3> QED
      BY <1>3, <3>1
  <2> HIDE DEF grounding
  <2> QED
    BY <1>2, <2>1, UnboundRequests
<1> HIDE DEF grounding
<1>7. Fine(planned)
  <2> DEFINE a == KeepFirst(targets, NameOf)
             c == KeepFirst(grounding, NameOf)
  <2>1. Fine(a) /\ Fine(c)
    BY <1>5, <1>6, NamedOnce
  <2> HIDE DEF a, c
  <2>2. Fine(guidance \o a)
    BY <1>4, <2>1, ConcatIsList
  <2>3. Fine(guidance \o a \o c)
    BY <2>1, <2>2, ConcatIsList
  <2> QED
    BY <2>3 DEF a, c
<1> HIDE DEF planned
<1>8. Fine(last)
  <2>1. List(fallback)
    BY LibraryLists, ShortLists DEF Some
  <2> HIDE DEF fallback
  <2>2. last = [i \in DOMAIN fallback |-> last[i]] /\ \A i \in DOMAIN fallback : Unbound(last[i])
    <3>1. \A i \in DOMAIN fallback : last[i].binding = None /\ last[i].artifact = None /\ last[i].id = None
      BY DEF Request
    <3>2. \A i \in DOMAIN fallback : IsRequest(last[i])
      BY DEF IsRequest
    <3> QED
      BY <3>1, <3>2 DEF Unbound
  <2> HIDE DEF last
  <2> QED
    BY <2>1, <2>2, UnboundRequests
<1> QED
  BY <1>1, <1>7, <1>8

----------------------------------------------------------------------------
(* One request for each resource in each role.                             *)
\* The first of some requests that says anything in a field.
LEMMA FirstToSay ==
  ASSUME NEW s, List(s), NEW I, I \subseteq DOMAIN s, NEW field
  PROVE  LET e == FirstSome(s, I, field)
         IN  /\ e = None \/ \E i \in I : e = s[i][field] /\ s[i][field] # None
             /\ \A i \in I : s[i][field] # None => e # None
<1> DEFINE f == [i \in DOMAIN s |-> s[i][field]]
           J == {i \in I : s[i][field] # None}
<1>1. J \in SUBSET Nat /\ J \subseteq I /\ \A i \in J : f[i] = s[i][field]
  BY ListFacts
<1>2. \A i \in J : f[i] # None /\ i \in I /\ f[i] = s[i][field]
  BY <1>1
<1>3. \A i \in I : s[i][field] # None => i \in J
  OBVIOUS
<1> HIDE DEF J, f
<1>4. IF J = {} THEN FirstAt(f, J, None) = None
      ELSE \E i \in J : FirstAt(f, J, None) = f[i] /\ \A j \in J : i <= j
  BY <1>1, FirstAtPosition
<1>5. FirstSome(s, I, field) = FirstAt(f, J, None)
  BY DEF FirstSome, f, J
<1> QED
  BY <1>2, <1>3, <1>4, <1>5

\* The requests for the same resource in the same role.
LEMMA SameAre ==
  ASSUME NEW s, NEW i \in DOMAIN s
  PROVE  i \in SameRequest(s, i) /\ SameRequest(s, i) \subseteq DOMAIN s
         /\ \A j \in SameRequest(s, i) : j \in DOMAIN s /\ Identity(s[j]) = Identity(s[i])
  BY DEF SameRequest

\* A merged request keeps the role, and says what one of those for its resource says.
LEMMA MergedSays ==
  ASSUME NEW s, List(s), \A q \in ToSet(s) : IsRequest(q), NEW i \in DOMAIN s
  PROVE  LET q    == Merged(s, i)
             same == SameRequest(s, i)
         IN  /\ q.role = s[i].role
             /\ \E j \in same : q.id = s[j].id \/ q.id = None
             /\ \E j \in same : q.file = s[j].file \/ q.file = None
             /\ q.artifact = None \/ \E j \in same : q.artifact = s[j].artifact
             /\ q.binding = None \/ \E j \in same : q.binding = s[j].binding
             /\ (\E j \in same : s[j].file # None) => q.file # None
             /\ Identity(s[i])[2] # None =>
                   /\ (\E j \in same : s[j].binding # None) => q.binding # None
                   /\ (\E j \in same : s[j].required) => q.required
<1> DEFINE q    == Merged(s, i)
           same == SameRequest(s, i)
           At(field) == FirstSome(s, same, field)
<1>1. i \in same /\ same \subseteq DOMAIN s
  BY SameAre
<1>2. DOMAIN s[i] = DOMAIN Request
  <2>1. s[i] \in ToSet(s)
    BY ListFacts
  <2> QED
    BY <2>1 DEF IsRequest
<1>3. {"role", "id", "file", "binding", "group", "artifact", "required"} \subseteq DOMAIN Request
  BY DEF Request
<1>4. /\ \A field : /\ At(field) = None \/ \E j \in same : At(field) = s[j][field] /\ s[j][field] # None
                    /\ \A j \in same : s[j][field] # None => At(field) # None
  BY <1>1, FirstToSay
<1> HIDE DEF same, At
<1>5. CASE Identity(s[i])[2] = None
  <2>1. q = s[i]
    BY <1>5 DEF Merged
  <2>2. (\E j \in same : s[j].file # None) => s[i].file # None
    <3> SUFFICES ASSUME NEW j \in same, s[j].file # None, s[i].file = None PROVE FALSE
      OBVIOUS
    <3>1. Identity(s[j])[2] = None
      BY <1>5 DEF same, SameRequest
    <3>2. ResourceById(s[j].id) = NoResource /\ ResourceByFile(s[j].file) = NoResource
      BY <3>1, ResourceFound, FileFound, ResourceOfId DEF Identity
    <3> QED
      BY <3>1, <3>2 DEF Identity, Or
  <2> HIDE DEF q
  <2> QED
    BY <1>1, <1>5, <2>1, <2>2 DEF q, same
<1>6. CASE Identity(s[i])[2] # None
  <2>1. q = [s[i] EXCEPT !.id = At("id"), !.file = At("file"), !.binding = At("binding"), !.group = At("group"),
                         !.artifact = At("artifact"), !.required = \E j \in same : s[j].required]
    BY <1>6 DEF Merged, same, At
  <2> HIDE DEF q
  <2>2. /\ q.role = s[i].role /\ q.id = At("id") /\ q.file = At("file") /\ q.binding = At("binding")
        /\ q.artifact = At("artifact") /\ q.required = \E j \in same : s[j].required
    BY <1>2, <1>3, <2>1
  <2> QED
    BY <1>1, <1>4, <2>2 DEF q, same
<1> QED
  BY <1>5, <1>6

\* The merged requests are a list of them, one for each resource in each role.
LEMMA DedupIs ==
  ASSUME NEW s, List(s)
  PROVE  /\ List(Dedup(s))
         /\ \A q \in ToSet(Dedup(s)) : \E i \in DOMAIN s : q = Merged(s, i)
         /\ \A i \in DOMAIN s : Identity(s[i])[2] # None =>
               \E k \in SameRequest(s, i) : Merged(s, k) \in ToSet(Dedup(s))
<1> DEFINE f == [i \in DOMAIN s |-> Merged(s, i)]
           I == {i \in DOMAIN s : Identity(s[i])[2] # None => \A j \in SameRequest(s, i) : i <= j}
<1>1. List(f) /\ DOMAIN f = DOMAIN s
  <2>1. f = [i \in DOMAIN s |-> f[i]]
    OBVIOUS
  <2> HIDE DEF f
  <2> QED
    BY <2>1, MapIsList
<1>2. \A i \in DOMAIN s : f[i] = Merged(s, i)
  OBVIOUS
<1>3. Dedup(s) = Sub(f, I)
  BY DEF Dedup
<1> HIDE DEF f
<1>4. List(Sub(f, I)) /\ ToSet(Sub(f, I)) = {f[i] : i \in I}
  BY <1>1, SubIsList
<1>5. ASSUME NEW i \in DOMAIN s, Identity(s[i])[2] # None
      PROVE  \E k \in SameRequest(s, i) : Merged(s, k) \in ToSet(Dedup(s))
  <2> DEFINE same == SameRequest(s, i)
  <2>1. i \in same /\ same \subseteq DOMAIN s /\ same \in SUBSET Nat
    BY SameAre, ListFacts
  <2>2. PICK k \in same : \A j \in same : k <= j
    <3> HIDE DEF same
    <3> QED
      BY <2>1, FirstPosition
  <2>3. SameRequest(s, k) = same /\ k \in DOMAIN s
    BY <2>2 DEF SameRequest
  <2>4. k \in I
    BY <2>2, <2>3
  <2> QED
    BY <1>2, <1>3, <1>4, <2>2, <2>3, <2>4
<1> QED
  BY <1>2, <1>3, <1>4, <1>5

----------------------------------------------------------------------------
(* What a turn asks for.                                                   *)
\* The reading of a turn, field by field.
LEMMA ReadingFields ==
  ASSUME NEW t, NEW u
  PROVE  LET p == Placed(ReadingFor(t, u))
             x == Planned(t, u)
             s == FinalRequests(p, ModuleRequests(p, TurnRequests(p)))
         IN  /\ p.t = t /\ p.u = u /\ x.t = t /\ x.u = u
             /\ x.matched = Matched(t, u) /\ x.final = p.final /\ x.primary = p.primary
             /\ p.bound = Activation(Matched(t, u), u) /\ x.bound = p.bound
             /\ p.module = ModuleScope(ReadingFor(t, u)) /\ x.module = p.module
             /\ p.resources = PlannedResources(ReadingFor(t, u))
             /\ x.requests = Dedup(s) /\ x.active = ActiveBindings(p)
<1> DEFINE r == ReadingFor(t, u)
           p == Placed(r)
           x == Planned(t, u)
<1>1. /\ DOMAIN r = {"t", "u", "block", "primary", "final", "matched", "resources", "bound", "module",
                     "requests", "active"}
      /\ r.t = t /\ r.u = u /\ r.matched = Matched(t, u)
  BY DEF ReadingFor
<1>2. p = [r EXCEPT !.resources = PlannedResources(r), !.bound = Activation(r.matched, r.u),
                    !.module = ModuleScope(r)]
  BY DEF Placed
<1> HIDE DEF r, p
<1>3. /\ DOMAIN p = DOMAIN r /\ p.t = t /\ p.u = u /\ p.matched = r.matched
      /\ p.resources = PlannedResources(r) /\ p.bound = Activation(Matched(t, u), u)
      /\ p.module = ModuleScope(r)
  BY <1>1, <1>2
<1>4. x = [p EXCEPT !.requests = Dedup(FinalRequests(p, ModuleRequests(p, TurnRequests(p)))),
                    !.active = ActiveBindings(p)]
  BY DEF Planned, Requested, r, p
<1> HIDE DEF x
<1>5. /\ x.t = t /\ x.u = u /\ x.matched = p.matched /\ x.final = p.final /\ x.primary = p.primary
      /\ x.bound = p.bound /\ x.module = p.module
      /\ x.requests = Dedup(FinalRequests(p, ModuleRequests(p, TurnRequests(p))))
      /\ x.active = ActiveBindings(p)
  BY <1>1, <1>3, <1>4
<1> QED
  BY <1>1, <1>3, <1>5 DEF r, p, x

\* What the turn's place, the uploads and the matched bindings ask for.
LEMMA TurnAsks ==
  ASSUME NEW t, NEW u \in Holdings
  PROVE  LET p == Placed(ReadingFor(t, u))
             s == TurnRequests(p)
         IN  /\ List(s) /\ ToSet(Supplied(p.bound.requests)) \subseteq ToSet(s)
             /\ \A q \in ToSet(s) :
                   \/ Unbound(q)
                   \/ q \in ToSet(p.bound.requests) /\ \E c \in ToSet(Library.bindings) : AskedBy(q, c, u)
<1> DEFINE p == Placed(ReadingFor(t, u))
           here == PlaceRequests(p)
           up == UploadRequests(t, u)
           bound == p.bound.requests
<1>1. /\ p.t = t /\ p.u = u /\ p.bound = Activation(Matched(t, u), u)
      /\ p.resources = PlannedResources(ReadingFor(t, u))
  BY ReadingFields
<1> HIDE DEF p
<1>2. List(here) /\ \A q \in ToSet(here) : Unbound(q)
  BY <1>1, PlaceHasResources, PlaceAsks
<1>3. List(up) /\ \A q \in ToSet(up) : Unbound(q)
  BY UploadsAsk
<1>4. List(bound) /\ \A q \in ToSet(bound) : \E c \in ToSet(Library.bindings) : AskedBy(q, c, u)
  BY <1>1, MatchesAreBindings, ActivationAsks
<1>5. List(Supplied(bound)) /\ ToSet(Supplied(bound)) \subseteq ToSet(bound)
  BY <1>4, SuppliedAre
<1>6. TurnRequests(p) = here \o up \o Supplied(bound)
  BY <1>1 DEF TurnRequests
<1> HIDE DEF here, up, bound
<1>7. List(here \o up) /\ ToSet(here \o up) = ToSet(here) \cup ToSet(up)
  BY <1>2, <1>3, ConcatIsList
<1>8. /\ List(TurnRequests(p))
      /\ ToSet(TurnRequests(p)) = ToSet(here) \cup ToSet(up) \cup ToSet(Supplied(bound))
  BY <1>5, <1>6, <1>7, ConcatIsList
<1> QED
  BY <1>2, <1>3, <1>4, <1>5, <1>8 DEF p, bound

\* The hybrid planner's module adds to the requests what it asks for itself.
LEMMA ModuleAsks ==
  ASSUME NEW t, NEW u \in Holdings
  PROVE  LET p == Placed(ReadingFor(t, u))
             s == TurnRequests(p)
             r == ModuleRequests(p, s)
         IN  /\ List(r) /\ \A q \in ToSet(r) : IsRequest(q)
             /\ p.primary.type # "followup_module" =>
                   /\ ToSet(s) \subseteq ToSet(r)
                   /\ \A q \in ToSet(r) :
                         \/ q \in ToSet(s)
                         \/ /\ q \in ToSet(p.module.requests)
                            /\ \E c \in ToSet(Library.bindings) : AskedBy(q, c, u)
<1> DEFINE p == Placed(ReadingFor(t, u))
           s == TurnRequests(p)
           r == ModuleRequests(p, s)
           offer == p.module.requests
           isFollowup == p.primary.type = "followup_module"
           added == Supplied(offer) \o (IF isFollowup THEN FollowupRequests(p.t.m, p.primary.id) ELSE <<>>)
           base == IF isFollowup THEN DropGuidance(s) ELSE s
           more == Unseen(s, added)
<1>1. List(s) /\ \A q \in ToSet(s) : IsRequest(q)
  BY TurnAsks DEF Unbound, AskedBy
<1>2. List(offer) /\ \A q \in ToSet(offer) : \E c \in ToSet(Library.bindings) : AskedBy(q, c, u)
  <2> DEFINE y == ReadingFor(t, u)
  <2>1. p.module = ModuleScope(y)
    BY ReadingFields
  <2> HIDE DEF y
  <2>2. \E m, scope, descend : ModuleScope(y) = ForScope(m, scope, descend)
    BY DEF ModuleScope
  <2> QED
    BY <2>1, <2>2, ScopeAsks
<1>3. r = IF p.primary = NoBlock THEN s ELSE base \o more
  BY DEF ModuleRequests
<1> HIDE DEF p, s, r, offer
<1>4. /\ List(added) /\ \A q \in ToSet(added) : IsRequest(q)
      /\ ~isFollowup => ToSet(added) \subseteq ToSet(offer)
  <2> DEFINE own == IF isFollowup THEN FollowupRequests(p.t.m, p.primary.id) ELSE <<>>
  <2>1. List(Supplied(offer)) /\ ToSet(Supplied(offer)) \subseteq ToSet(offer)
    BY <1>2, SuppliedAre
  <2>2. List(own) /\ (\A q \in ToSet(own) : IsRequest(q)) /\ (~isFollowup => ToSet(own) = {})
    BY FollowupAsks, ShortLists
  <2>3. List(added) /\ ToSet(added) = ToSet(Supplied(offer)) \cup ToSet(own)
    <3> HIDE DEF own
    <3>1. List(Supplied(offer) \o own) /\ ToSet(Supplied(offer) \o own) = ToSet(Supplied(offer)) \cup ToSet(own)
      BY <2>1, <2>2, ConcatIsList
    <3> QED
      BY <3>1 DEF own
  <2> QED
    BY <1>2, <2>1, <2>2, <2>3 DEF AskedBy
<1> HIDE DEF added
<1>5. List(more) /\ ToSet(more) \subseteq ToSet(added)
  <2> DEFINE I == {i \in DOMAIN added : \A o \in ToSet(s) : BindingKey(o) # BindingKey(added[i])}
             new == Sub(added, I)
             J == {i \in DOMAIN new : \A j \in DOMAIN new : j < i => BindingKey(new[j]) # BindingKey(new[i])}
  <2>1. more = Sub(new, J)
    BY DEF Unseen, Select, KeepFirst
  <2>2. List(new) /\ ToSet(new) = {added[i] : i \in I}
    BY <1>4, SubIsList
  <2> HIDE DEF new
  <2>3. List(Sub(new, J)) /\ ToSet(Sub(new, J)) = {new[i] : i \in J}
    BY <2>2, SubIsList
  <2>4. ToSet(new) \subseteq ToSet(added) /\ ToSet(Sub(new, J)) \subseteq ToSet(new)
    BY <2>2, <2>3 DEF ToSet
  <2> QED
    BY <2>1, <2>3, <2>4
<1> HIDE DEF more
<1>6. List(base) /\ ToSet(base) \subseteq ToSet(s) /\ (~isFollowup => base = s)
  <2> DEFINE I == {i \in DOMAIN s : s[i].role \notin Guidance}
  <2>1. DropGuidance(s) = Sub(s, I)
    BY DEF DropGuidance, Select
  <2>2. List(Sub(s, I)) /\ ToSet(Sub(s, I)) = {s[i] : i \in I}
    BY <1>1, SubIsList
  <2>3. ToSet(Sub(s, I)) \subseteq ToSet(s)
    BY <2>2 DEF ToSet
  <2> QED
    BY <1>1, <2>1, <2>2, <2>3
<1> HIDE DEF base
<1>7. List(base \o more) /\ ToSet(base \o more) = ToSet(base) \cup ToSet(more)
  BY <1>5, <1>6, ConcatIsList
<1>8. /\ List(r) /\ \A q \in ToSet(r) : IsRequest(q)
      /\ ~isFollowup => /\ ToSet(s) \subseteq ToSet(r)
                        /\ \A q \in ToSet(r) : q \in ToSet(s) \/ q \in ToSet(offer)
  BY <1>1, <1>3, <1>4, <1>5, <1>6, <1>7
<1> QED
  BY <1>2, <1>8 DEF p, s, r, offer

\* What is loaded was asked for in that role.
LEMMA LoadedWasAsked ==
  ASSUME NEW s, List(s), NEW role
  PROVE  /\ List(LoadPlan(s, role))
         /\ \A f \in ToSet(LoadPlan(s, role)) : \E q \in ToSet(s) :
               q.role = role /\ f = Or(q.file, ResourceById(q.id).file)
<1> DEFINE I == {i \in DOMAIN s : s[i].role = role /\ NameOf(s[i]) # None}
           in == Sub(s, I)
           J == {i \in DOMAIN in : \A j \in DOMAIN in : j < i => <<in[j].file, in[j].id>> # <<in[i].file, in[i].id>>}
           one == Sub(in, J)
           h == [i \in DOMAIN one |-> Or(one[i].file, ResourceById(one[i].id).file)]
<1>1. LoadPlan(s, role) = h
  <2>1. LoadPlan(s, role) = Map(KeepFirst(in, LAMBDA q : <<q.file, q.id>>),
                                LAMBDA q : Or(q.file, ResourceById(q.id).file))
    BY DEF LoadPlan, Select
  <2> HIDE DEF in
  <2> QED
    BY <2>1 DEF Map, KeepFirst
<1>2. List(in) /\ ToSet(in) = {s[i] : i \in I}
  BY SubIsList
<1> HIDE DEF in
<1>3. List(one) /\ ToSet(one) = {in[i] : i \in J}
  BY <1>2, SubIsList
<1> HIDE DEF one
<1>4. \A i \in DOMAIN one : one[i] \in ToSet(s) /\ one[i].role = role
  <2>1. \A i \in DOMAIN one : one[i] \in ToSet(one)
    BY DEF ToSet
  <2>2. \A q \in ToSet(one) : q \in ToSet(in)
    BY <1>3 DEF ToSet
  <2>3. \A q \in ToSet(in) : q \in ToSet(s) /\ q.role = role
    BY <1>2 DEF ToSet
  <2> QED
    BY <2>1, <2>2, <2>3
<1>5. h = [i \in DOMAIN one |-> h[i]] /\ \A i \in DOMAIN one : h[i] = Or(one[i].file, ResourceById(one[i].id).file)
  OBVIOUS
<1> HIDE DEF h
<1>6. List(h) /\ ToSet(h) = {h[i] : i \in DOMAIN one}
  BY <1>3, <1>5, MapIsList
<1> QED
  BY <1>1, <1>4, <1>5, <1>6

\* A follow-up module reads its own files, in every turn.
LEMMA FollowupOwns ==
  ASSUME NEW t, NEW u \in Holdings
  PROVE  OwnOnly(Planned(t, u))
<1> DEFINE x == Planned(t, u)
           p == Placed(ReadingFor(t, u))
           r == ModuleRequests(p, TurnRequests(p))
           own == FollowupRequests(t.m, p.final.id)
           I == {i \in DOMAIN r : r[i].role \notin Guidance}
           dropped == Sub(r, I)
           s == dropped \o own
<1> SUFFICES ASSUME x.final.type = "followup_module", Files(own) # {}
             PROVE  Read(x).guidance \subseteq Files(own)
  BY ReadingFields DEF OwnOnly
<1>1. /\ x.t = t /\ x.final = p.final /\ p.t = t
      /\ x.requests = Dedup(FinalRequests(p, r))
  BY ReadingFields
<1>2. List(r) /\ \A q \in ToSet(r) : IsRequest(q)
  BY ModuleAsks
<1>3. List(own) /\ \A q \in ToSet(own) : q.file # None /\ IsRequest(q)
  BY FollowupAsks
<1> HIDE DEF x, p, r, own
<1>4. own # <<>>
  <2>1. own = <<>> => Files(own) = {}
    BY ShortLists DEF Files
  <2> QED
    BY <2>1
<1>5. FinalRequests(p, r) = s
  BY <1>1, <1>4 DEF FinalRequests, DropGuidance, Select, own
<1>6. List(dropped) /\ ToSet(dropped) = {r[i] : i \in I}
  BY <1>2, SubIsList
<1> HIDE DEF dropped
<1>7. List(s) /\ ToSet(s) = ToSet(dropped) \cup ToSet(own)
  BY <1>3, <1>6, ConcatIsList
<1> HIDE DEF s
<1>8. \A q \in ToSet(s) : IsRequest(q) /\ (q.role \in Guidance => q.file # None /\ q.file \in Files(own))
  <2>1. \A q \in ToSet(dropped) : q.role \notin Guidance /\ q \in ToSet(r)
    BY <1>6 DEF ToSet
  <2>2. \A q \in ToSet(own) : q.file \in Files(own)
    BY <1>3 DEF Files
  <2> QED
    BY <1>2, <1>3, <1>7, <2>1, <2>2
<1>9. ASSUME NEW q \in ToSet(x.requests), q.role \in Guidance
      PROVE  q.file # None /\ q.file \in Files(own)
  <2>1. PICK i \in DOMAIN s : q = Merged(s, i)
    BY <1>1, <1>5, <1>7, DedupIs
  <2> DEFINE same == SameRequest(s, i)
  <2>2. /\ q.role = s[i].role
        /\ \E j \in same : q.file = s[j].file \/ q.file = None
        /\ (\E j \in same : s[j].file # None) => q.file # None
    BY <1>7, <1>8, <2>1, MergedSays
  <2>3. i \in same /\ \A j \in same : j \in DOMAIN s /\ s[j].role = s[i].role
    BY SameAre DEF Identity
  <2>4. \A j \in same : s[j].file # None /\ s[j].file \in Files(own)
    <3>1. \A j \in same : s[j] \in ToSet(s) /\ s[j].role \in Guidance
      BY <1>9, <2>2, <2>3 DEF ToSet
    <3> QED
      BY <1>8, <3>1
  <2> HIDE DEF same
  <2> QED
    BY <2>2, <2>3, <2>4
<1>10. ASSUME NEW role \in Guidance, NEW f \in ToSet(DirectLoads(x, role))
       PROVE  f \in Files(own)
  <2> DEFINE plan == LoadPlan(x.requests, role)
             J == {i \in DOMAIN plan : plan[i] \notin Library.vector /\ plan[i] \in Library.documents}
  <2>1. DirectLoads(x, role) = Sub(plan, J)
    BY DEF DirectLoads, Select
  <2>2. List(x.requests)
    BY <1>1, <1>5, <1>7, DedupIs
  <2>3. f \in ToSet(plan)
    <3>1. List(plan)
      BY <2>2, LoadedWasAsked
    <3> HIDE DEF plan
    <3>2. ToSet(Sub(plan, J)) = {plan[i] : i \in J}
      BY <3>1, SubIsList
    <3> QED
      BY <1>10, <2>1, <3>2 DEF ToSet, plan
  <2>4. PICK q \in ToSet(x.requests) : q.role = role /\ f = Or(q.file, ResourceById(q.id).file)
    BY <2>2, <2>3, LoadedWasAsked
  <2> QED
    BY <1>9, <2>4 DEF Or
<1> QED
  BY <1>10 DEF Read, NothingRead

\* A follow-up module reads its own files: whatever the session, the message and the files it holds,
\* a turn that ends in one that names its files loads no other guidance.
THEOREM FollowupsReadTheirOwn == Spec => []FollowupReadsItsOwn
<1>1. FollowupReadsItsOwn
  BY FollowupOwns DEF FollowupReadsItsOwn, Readings
<1> QED
  BY <1>1, PTL

----------------------------------------------------------------------------
(* What the alternatives of a binding leave.                               *)
\* A choice of some requests is one of them, or all.
LEMMA ChoiceIs ==
  ASSUME NEW s, List(s), s # <<>>
  PROVE  List(Choice(s)) /\ ToSet(Choice(s)) # {} /\ ToSet(Choice(s)) \subseteq ToSet(s)
<1>1. DOMAIN s \subseteq Nat /\ 1 \in DOMAIN s /\ \A i \in DOMAIN s : s[i] \in ToSet(s)
  BY ListFacts
<1> DEFINE I == {i \in DOMAIN s : \A o \in ToSet(s) : Score(o) <= Score(s[i])}
<1>2. Best(s) = FirstAt(s, I, Request)
  BY DEF Best, FirstOr
<1>3. I # {}
  <2>1. \A q : Score(q) \in {0, 10}
    BY DEF Score
  <2>2. CASE \E i \in DOMAIN s : Score(s[i]) = 10
    BY <2>1, <2>2
  <2>3. CASE \A i \in DOMAIN s : Score(s[i]) # 10
    <3>1. \A o \in ToSet(s) : Score(o) = 0
      BY <2>1, <2>3 DEF ToSet
    <3> QED
      BY <1>1, <3>1
  <2> QED
    BY <2>2, <2>3
<1>4. I \in SUBSET Nat /\ I \subseteq DOMAIN s
  BY <1>1
<1> HIDE DEF I
<1>5. Best(s) \in ToSet(s)
  <2>1. \E i \in I : FirstAt(s, I, Request) = s[i]
    <3>1. IF I = {} THEN FirstAt(s, I, Request) = Request
          ELSE \E i \in I : FirstAt(s, I, Request) = s[i] /\ \A j \in I : i <= j
      BY <1>4, FirstAtPosition
    <3> QED
      BY <1>3, <3>1
  <2> QED
    BY <1>1, <1>2, <1>4, <2>1
<1>6. ToSet(s) # {}
  BY <1>1
<1> QED
  BY <1>5, <1>6, ShortLists DEF Choice

\* Of the alternatives, one request at least of each binding stays.
LEMMA AlternativesKeepBindings ==
  ASSUME NEW s, List(s), NEW q \in ToSet(s), q.binding # None
  PROVE  \E k \in ToSet(Alternatives(s)) : k \in ToSet(s) /\ k.binding = q.binding
<1>1. CASE Len(s) <= 1
  <2>1. Alternatives(s) = s
    BY <1>1 DEF Alternatives
  <2> QED
    BY <2>1
<1>2. CASE ~(Len(s) <= 1)
  <2> DEFINE I == {i \in DOMAIN s : s[i].binding # None}
             in == Sub(s, I)
             key == [i \in DOMAIN in |-> in[i].binding]
             bound == Sub(in, Firsts(in, key))
             Of(id) == {i \in DOMAIN s : s[i].binding = id}
             parts == [i \in DOMAIN bound |-> Choice(OfBinding(s, bound[i].binding))]
             all == FlattenSeq(parts)
  <2>1. \A id : OfBinding(s, id) = Sub(s, Of(id))
    BY DEF OfBinding, Select
  <2>2. Alternatives(s) = OfBinding(s, None) \o all
    <3>1. Firsts(in, key) = {i \in DOMAIN in : \A j \in DOMAIN in : j < i => in[j].binding # in[i].binding}
      BY DEF Firsts
    <3> HIDE DEF in, key
    <3> QED
      BY <1>2, <3>1 DEF Alternatives, Select, KeepFirst, FlatMap, Map, in
  <2>3. \A id : List(OfBinding(s, id)) /\ ToSet(OfBinding(s, id)) = {s[i] : i \in Of(id)}
    <3> SUFFICES ASSUME NEW id PROVE List(OfBinding(s, id)) /\ ToSet(OfBinding(s, id)) = {s[i] : i \in Of(id)}
      OBVIOUS
    <3>1. List(Sub(s, Of(id))) /\ ToSet(Sub(s, Of(id))) = {s[i] : i \in Of(id)}
      BY SubIsList
    <3> QED
      BY <2>1, <3>1
  <2>4. List(in) /\ ToSet(in) = {s[i] : i \in I}
    BY SubIsList
  <2> HIDE DEF in
  <2>a. \A i \in DOMAIN in : key[i] = in[i].binding
    OBVIOUS
  <2> HIDE DEF key
  <2>5. /\ List(bound) /\ ToSet(bound) \subseteq ToSet(in)
        /\ \A i \in DOMAIN in : \E k \in DOMAIN in : key[k] = key[i] /\ in[k] \in ToSet(bound)
    BY <2>4, FirstsAreKept
  <2> HIDE DEF bound
  <2>6. PICK c \in ToSet(bound) : c.binding = q.binding
    <3>1. q \in ToSet(in)
      <4>1. PICK i \in DOMAIN s : s[i] = q
        BY ListIsFunction
      <4> QED
        BY <2>4, <4>1
    <3>2. PICK i \in DOMAIN in : in[i] = q
      BY <2>4, <3>1, ListIsFunction
    <3>3. PICK k \in DOMAIN in : key[k] = key[i] /\ in[k] \in ToSet(bound)
      BY <2>5
    <3> QED
      BY <2>a, <3>2, <3>3
  <2>7. \A id : \A k \in ToSet(OfBinding(s, id)) : k \in ToSet(s) /\ k.binding = id
    BY <2>3 DEF ToSet
  <2>8. ASSUME NEW b \in ToSet(bound)
        PROVE  /\ List(Choice(OfBinding(s, b.binding))) /\ ToSet(Choice(OfBinding(s, b.binding))) # {}
               /\ \A k \in ToSet(Choice(OfBinding(s, b.binding))) : k \in ToSet(s) /\ k.binding = b.binding
    <3> DEFINE r == OfBinding(s, b.binding)
    <3>1. b \in ToSet(s)
      BY <2>4, <2>5 DEF ToSet
    <3>2. b \in ToSet(r)
      <4>1. PICK i \in DOMAIN s : s[i] = b
        BY <3>1, ListIsFunction
      <4> QED
        BY <2>3, <4>1
    <3>3. List(r) /\ r # <<>>
      BY <2>3, <3>2, ListIsFunction
    <3>4. \A k \in ToSet(r) : k \in ToSet(s) /\ k.binding = b.binding
      BY <2>7
    <3> HIDE DEF r
    <3>5. List(Choice(r)) /\ ToSet(Choice(r)) # {} /\ ToSet(Choice(r)) \subseteq ToSet(r)
      BY <3>3, ChoiceIs
    <3> QED
      BY <3>4, <3>5 DEF r
  <2>9. /\ List(parts) /\ DOMAIN parts = DOMAIN bound /\ \A i \in DOMAIN parts : List(parts[i])
        /\ \A i \in DOMAIN bound : parts[i] = Choice(OfBinding(s, bound[i].binding))
    <3>1. parts = [i \in DOMAIN bound |-> parts[i]]
      OBVIOUS
    <3>2. \A i \in DOMAIN bound : parts[i] = Choice(OfBinding(s, bound[i].binding)) /\ bound[i] \in ToSet(bound)
      BY DEF ToSet
    <3> HIDE DEF parts
    <3>3. \A i \in DOMAIN bound : List(parts[i])
      BY <2>8, <3>2
    <3> QED
      BY <2>5, <3>1, <3>2, <3>3, MapIsList
  <2> HIDE DEF parts
  <2>10. List(all) /\ ToSet(all) = UNION {ToSet(parts[i]) : i \in DOMAIN parts}
    BY <2>9, FlatIsList
  <2> HIDE DEF all
  <2>11. PICK i \in DOMAIN bound : bound[i] = c
    BY <2>5, <2>6, ListIsFunction
  <2>12. PICK k \in ToSet(Choice(OfBinding(s, c.binding))) : k \in ToSet(s) /\ k.binding = c.binding
    BY <2>6, <2>8
  <2>13. k \in ToSet(all)
    BY <2>9, <2>10, <2>11, <2>12
  <2>14. ToSet(Alternatives(s)) = ToSet(OfBinding(s, None)) \cup ToSet(all)
    BY <2>2, <2>3, <2>10, ConcatIsList
  <2> QED
    BY <2>6, <2>12, <2>13, <2>14
<1> QED
  BY <1>1, <1>2
----------------------------------------------------------------------------
(* A required artifact.                                                    *)
\* A binding itself asks for resources of the library, and is told by them.
LEMMA OwnIdentity ==
  ASSUME NEW b \in ToSet(Library.bindings), NEW q \in ToSet(OwnRequests(b))
  PROVE  \E id \in ToSet(b.resources) :
            /\ id # None /\ ResourceById(id) \in ToSet(Library.resources) /\ ResourceById(id).id = id
            /\ q.id = id /\ q.file = ResourceById(id).file
            /\ q.role \in Roles /\ Identity(q) = <<q.role, id>>
<1>1. PICK id \in ToSet(b.resources) : ResourceById(id) # NoResource /\ q = Ask(b, ResourceById(id), id)
  BY OwnRequestsAre
<1>2. id # None /\ ResourceById(id) \in ToSet(Library.resources) /\ ResourceById(id).id = id
  BY <1>1, ResourceFound
<1>3. q.id = id /\ q.file = ResourceById(id).file /\ q.role = RoleFor(b, ResourceById(id))
  BY <1>1 DEF Ask, Request
<1>4. q.role \in Roles
  BY <1>2, <1>3, ResourceOfId, LibraryIsCompiled DEF RoleFor
<1>5. Identity(q) = <<q.role, id>>
  BY <1>1, <1>2, <1>3 DEF Identity
<1> QED
  BY <1>2, <1>3, <1>4, <1>5

\* A request of no binding for a resource names it, its file, or nothing.
LEMMA UnboundIdentity ==
  ASSUME NEW q, Unbound(q), NEW id, Identity(q)[2] = id, id # None,
         ResourceById(id) \in ToSet(Library.resources), ResourceById(id).id = id
  PROVE  q.id \in {None, id} /\ q.file \in {None, id, ResourceById(id).file}
<1> DEFINE byId   == ResourceById(q.id)
           byFile == ResourceByFile(q.file)
<1>1. byId = NoResource \/ (byId \in ToSet(Library.resources) /\ byId.id = q.id /\ q.id # None)
  BY ResourceFound
<1>2. byFile = NoResource \/ (byFile \in ToSet(Library.resources) /\ byFile.file = q.file /\ q.file # None)
  BY FileFound
<1>3. ResourceById(id) # NoResource
  BY ResourceOfId
<1>4. Identity(q)[2] = IF byId # NoResource THEN byId.id
                       ELSE IF byFile # NoResource THEN byFile.id ELSE Or(q.id, q.file)
  BY <1>1, ResourceOfId DEF Identity
<1>5. CASE byId # NoResource
  <2>1. q.id = id
    BY <1>1, <1>4, <1>5
  <2>2. q.file = None \/ \E r \in ToSet(Library.resources) : q.id = r.id /\ q.file = r.file
    BY <1>1, <1>5 DEF Unbound
  <2>3. \A r \in ToSet(Library.resources) : r.id = id => r = ResourceById(id)
    BY ResourceOfId
  <2> QED
    BY <2>1, <2>2, <2>3
<1>6. CASE byId = NoResource /\ byFile # NoResource
  <2>1. byFile.id = id /\ byFile = ResourceById(id)
    BY <1>2, <1>4, <1>6, ResourceOfId
  <2>2. q.file = ResourceById(id).file /\ q.file # None
    BY <1>2, <1>6, <2>1
  <2>3. q.id = None
    BY <1>6, <2>2, ResourceOfId DEF Unbound
  <2> QED
    BY <2>2, <2>3
<1>7. CASE byId = NoResource /\ byFile = NoResource
  <2>1. Or(q.id, q.file) = id /\ q.id # id
    BY <1>3, <1>4, <1>7
  <2>2. q.id = None /\ q.file = id
    BY <2>1 DEF Or
  <2> QED
    BY <2>2
<1> QED
  BY <1>5, <1>6, <1>7

\* The bindings that match are active in the turn.
LEMMA TurnIsActive ==
  ASSUME NEW t, NEW u, NEW b \in ToSet(Matched(t, u)), b.id # None
  PROVE  Contains(Planned(t, u).active, b.id)
<1> DEFINE p == Placed(ReadingFor(t, u))
           more == IF p.primary = NoBlock THEN <<>> ELSE p.module.active
           s == p.bound.active \o more
           key == [i \in DOMAIN s |-> s[i]]
           a == Sub(s, Firsts(s, key))
<1>1. /\ p.bound = Activation(Matched(t, u), u) /\ p.module = ModuleScope(ReadingFor(t, u))
      /\ Planned(t, u).active = ActiveBindings(p)
  BY ReadingFields
<1>2. List(more)
  <2> DEFINE y == ReadingFor(t, u)
  <2>1. p.module = ModuleScope(y)
    BY <1>1
  <2> HIDE DEF y, p
  <2>2. \E m, scope, descend : ModuleScope(y) = ForScope(m, scope, descend)
    BY DEF ModuleScope
  <2>3. List(p.module.active)
    BY <2>1, <2>2, ScopeAsks
  <2> QED
    BY <2>3, ShortLists
<1>3. List(p.bound.active) /\ b.id \in ToSet(p.bound.active)
  BY <1>1, MatchesAreBindings, MatchesAreActive
<1> HIDE DEF p, more
<1>4. List(s) /\ b.id \in ToSet(s)
  BY <1>2, <1>3, ConcatIsList
<1>5. ActiveBindings(p) = a
  <2>1. ActiveBindings(p) = KeepFirst(s, LAMBDA id : id)
    BY DEF ActiveBindings, more
  <2> HIDE DEF s
  <2>2. Firsts(s, key) = {i \in DOMAIN s : \A j \in DOMAIN s : j < i => s[j] # s[i]}
    BY DEF Firsts
  <2> HIDE DEF key
  <2> QED
    BY <2>1, <2>2 DEF KeepFirst
<1> HIDE DEF s
<1>6. \A i \in DOMAIN s : key[i] = s[i]
  OBVIOUS
<1> HIDE DEF key
<1>7. List(a) /\ \A i \in DOMAIN s : \E k \in DOMAIN s : key[k] = key[i] /\ s[k] \in ToSet(a)
  BY <1>4, FirstsAreKept
<1> HIDE DEF a
<1>8. b.id \in ToSet(a)
  <2>1. PICK i \in DOMAIN s : s[i] = b.id
    BY <1>4, ListIsFunction
  <2> QED
    BY <1>6, <1>7, <2>1
<1>9. \E i \in 1 .. Len(a) : a[i] = b.id
  BY <1>7, <1>8, ListIsFunction
<1> QED
  BY <1>1, <1>5, <1>9 DEF Contains

\* While a required artifact is missing, the turn is blocked.
LEMMA MissingHolds ==
  ASSUME NEW t, NEW u \in Holdings, NEW b \in ToSet(Matched(t, u)),
         Waits(b, u), Alone(b, Planned(t, u)),
         Planned(t, u).final.type # "followup_module", Planned(t, u).primary.type # "followup_module"
  PROVE  Blocked(Planned(t, u))
<1> DEFINE x == Planned(t, u)
           p == Placed(ReadingFor(t, u))
           r == TurnRequests(p)
           s == ModuleRequests(p, r)
           own == OwnRequests(b)
           bound == p.bound.requests
           Same(i) == SameRequest(s, i)
<1>1. /\ x.u = u /\ x.final = p.final /\ x.primary = p.primary
      /\ p.bound = Activation(Matched(t, u), u) /\ x.bound = p.bound /\ x.module = p.module
      /\ x.requests = Dedup(FinalRequests(p, s))
  BY ReadingFields
<1>2. x.requests = Dedup(s)
  BY <1>1 DEF FinalRequests
<1>3. b \in ToSet(Library.bindings) /\ b.id # None /\ List(own)
  BY MatchesAreBindings, OwnRequestsAre, LibraryIsCompiled
<1>4. Contains(x.active, b.id)
  BY <1>3, TurnIsActive
<1>5. List(s) /\ \A q \in ToSet(s) : IsRequest(q)
  BY ModuleAsks
<1>6. \A q \in ToSet(s) :
         \/ Unbound(q)
         \/ /\ q \in ToSet(bound) \/ q \in ToSet(p.module.requests)
            /\ \E c \in ToSet(Library.bindings) : AskedBy(q, c, u)
  BY <1>1, ModuleAsks, TurnAsks
<1>7. ToSet(Supplied(bound)) \subseteq ToSet(s)
  BY <1>1, ModuleAsks, TurnAsks
<1>8. List(bound) /\ List(p.module.requests)
  <2>1. List(bound)
    BY <1>1, MatchesAreBindings, ActivationAsks
  <2> DEFINE y == ReadingFor(t, u)
  <2>2. p.module = ModuleScope(y)
    BY ReadingFields
  <2> HIDE DEF y, p
  <2>3. \E m, scope, descend : ModuleScope(y) = ForScope(m, scope, descend)
    BY DEF ModuleScope
  <2> QED
    BY <2>1, <2>2, <2>3, ScopeAsks
<1>9. \E o \in ToSet(own) : \E k \in ToSet(bound) : BindingKey(k) = BindingKey(o)
  <2>1. PICK o \in ToSet(own) : TRUE
    BY <1>3, ListIsFunction DEF Waits
  <2> QED
    BY <1>1, <2>1, MatchesAreBindings, ActivationAsks
\* What is asked for in the binding's name, the binding itself asks for.
<1>10. ASSUME NEW q, NEW c \in ToSet(Library.bindings), AskedBy(q, c, u), q.binding = b.id
       PROVE  q \in ToSet(own)
  <2>1. c = b
    BY <1>10 DEF AskedBy, Waits
  <2>2. ToSet(GroupRequests(b)) = {} /\ ToSet(GateRequests(b, u)) = {}
    BY <1>3, GroupRequestsAre, GateRequestsAre DEF Waits
  <2> QED
    BY <1>10, <2>1, <2>2 DEF AskedBy
<1> HIDE DEF x, p, r, s, own, bound
\* No other binding asks for the same resource.
<1>11. ASSUME NEW q \in ToSet(s), NEW o \in ToSet(own), Identity(q) = Identity(o)
       PROVE  Unbound(q) \/ q \in ToSet(own)
  <2> SUFFICES ASSUME ~Unbound(q) PROVE q \in ToSet(own)
    OBVIOUS
  <2>1. /\ q \in ToSet(bound) \/ q \in ToSet(p.module.requests)
        /\ \E c \in ToSet(Library.bindings) : AskedBy(q, c, u)
    BY <1>6
  <2>2. q \in ToSet(bound \o p.module.requests)
    BY <1>8, <2>1, ConcatIsList
  <2>3. q.binding = b.id
    BY <1>1, <1>11, <2>2 DEF Alone, x, bound, own
  <2> QED
    BY <1>10, <2>1, <2>3
\* The binding's request of a resource, wherever it is merged.
<1>12. ASSUME NEW i \in DOMAIN s, NEW l \in Same(i), s[l] \in ToSet(own)
       PROVE  LET e == Merged(s, i)
              IN  e.binding = b.id /\ e.required /\ ~Present(e, u) /\ e.role \in Roles
  <2> DEFINE e == Merged(s, i)
             o == s[l]
  <2>1. PICK id \in ToSet(b.resources) :
            /\ id # None /\ ResourceById(id) \in ToSet(Library.resources) /\ ResourceById(id).id = id
            /\ o.role \in Roles /\ Identity(o) = <<o.role, id>>
    BY <1>3, <1>12, OwnIdentity DEF own
  <2>2. /\ o.binding = b.id /\ o.required
    BY <1>3, <1>12, OwnRequestsNameIt DEF own, Waits
  <2>3. Same(i) \subseteq DOMAIN s /\ \A j \in Same(i) : Identity(s[j]) = Identity(o)
    BY SameAre
  <2>4. Identity(s[i]) = Identity(o)
    BY <2>3, SameAre
  <2>5. \A j \in Same(i) :
           /\ s[j].id \in {None, id} /\ s[j].file \in {None, id, ResourceById(id).file}
           /\ s[j].artifact \in {None, b.role} /\ s[j].binding \in {None, b.id}
    <3> SUFFICES ASSUME NEW j \in Same(i)
                 PROVE  /\ s[j].id \in {None, id} /\ s[j].file \in {None, id, ResourceById(id).file}
                        /\ s[j].artifact \in {None, b.role} /\ s[j].binding \in {None, b.id}
      OBVIOUS
    <3>1. s[j] \in ToSet(s) /\ Identity(s[j]) = Identity(o)
      BY <2>3 DEF ToSet
    <3>2. CASE Unbound(s[j])
      <4>1. Identity(s[j])[2] = id
        BY <2>1, <3>1
      <4> QED
        BY <2>1, <3>2, <4>1, UnboundIdentity DEF Unbound
    <3>3. CASE s[j] \in ToSet(own)
      <4>1. s[j].artifact = b.role /\ s[j].binding = b.id
        BY <1>3, <3>3, OwnRequestsNameIt DEF own
      <4>2. PICK n \in ToSet(b.resources) :
                s[j].id = n /\ s[j].file = ResourceById(n).file /\ Identity(s[j]) = <<s[j].role, n>>
        BY <1>3, <3>3, OwnIdentity DEF own
      <4>3. n = id
        BY <2>1, <3>1, <4>2
      <4> QED
        BY <4>1, <4>2, <4>3
    <3> QED
      BY <1>11, <1>12, <3>1, <3>2, <3>3
  <2>6. /\ e.role = s[i].role
        /\ \E j \in Same(i) : e.id = s[j].id \/ e.id = None
        /\ \E j \in Same(i) : e.file = s[j].file \/ e.file = None
        /\ e.artifact = None \/ \E j \in Same(i) : e.artifact = s[j].artifact
        /\ e.binding = None \/ \E j \in Same(i) : e.binding = s[j].binding
        /\ Identity(s[i])[2] # None =>
              /\ (\E j \in Same(i) : s[j].binding # None) => e.binding # None
              /\ (\E j \in Same(i) : s[j].required) => e.required
    BY <1>5, MergedSays
  <2> HIDE DEF e, Same
  <2>7. e.binding = b.id /\ e.required
    <3>1. Identity(s[i])[2] # None
      BY <2>1, <2>4
    <3>2. e.binding # None /\ e.required
      BY <1>3, <1>12, <2>2, <2>6, <3>1
    <3> QED
      BY <2>5, <2>6, <3>2
  <2>8. e.id \in {None, id} /\ e.file \in {None, id, ResourceById(id).file} /\ e.artifact \in {None, b.role}
    BY <2>5, <2>6
  <2>9. ~Present(e, u)
    <3>1. \A y \in ToSet(u.uploads) : {y.id, y.file, y.role} \cap {id, ResourceById(id).file, b.role} \subseteq {None}
      BY <2>1 DEF Waits, Missing
    <3>2. Or(e.artifact, e.file) \in {None, id, ResourceById(id).file, b.role}
      BY <2>8 DEF Or
    <3> QED
      BY <2>8, <3>1, <3>2 DEF Present
  <2>10. e.role \in Roles
    <3>1. Identity(s[i])[1] = s[i].role
      BY DEF Identity
    <3> QED
      BY <2>1, <2>4, <2>6, <3>1
  <2> QED
    BY <2>7, <2>9, <2>10 DEF e
<1>13. PICK d \in ToSet(x.requests) : d.binding = b.id /\ d.role \in Roles
  <2>1. PICK o \in ToSet(own), k \in ToSet(bound) : BindingKey(k) = BindingKey(o)
    BY <1>9
  <2>2. k.binding = b.id
    <3>1. o.binding = b.id
      BY <1>3, <2>1, OwnRequestsNameIt DEF own
    <3> QED
      BY <2>1, <3>1 DEF BindingKey
  <2>3. k \in ToSet(own)
    <3>1. \E c \in ToSet(Library.bindings) : AskedBy(k, c, u)
      BY <1>1, <2>1, MatchesAreBindings, ActivationAsks DEF bound
    <3> QED
      BY <1>10, <2>2, <3>1
  <2>4. k \in ToSet(s)
    <3>1. \A c \in ToSet(Library.bindings) : c.id = k.binding => ~c.meta
      BY <2>2 DEF Waits
    <3>2. k \in ToSet(Supplied(bound))
      BY <1>8, <2>1, <3>1, SuppliedAre
    <3> QED
      BY <1>7, <3>2
  <2>5. PICK i \in DOMAIN s : s[i] = k
    BY <1>5, <2>4, ListIsFunction
  <2>6. Identity(k)[2] # None
    BY <1>3, <2>3, OwnIdentity DEF own
  <2>7. PICK j \in Same(i) : Merged(s, j) \in ToSet(Dedup(s))
    BY <1>5, <2>5, <2>6, DedupIs
  <2>8. j \in DOMAIN s /\ i \in Same(j)
    BY <2>7 DEF SameRequest
  <2>9. Merged(s, j).binding = b.id /\ Merged(s, j).role \in Roles
    BY <1>12, <2>3, <2>5, <2>8
  <2> QED
    BY <1>2, <2>7, <2>9
<1>14. \A e \in ToSet(x.requests) : e.binding = b.id => e.required /\ ~Present(e, u)
  <2> SUFFICES ASSUME NEW e \in ToSet(x.requests), e.binding = b.id PROVE e.required /\ ~Present(e, u)
    OBVIOUS
  <2>1. PICK i \in DOMAIN s : e = Merged(s, i)
    BY <1>2, <1>5, DedupIs
  <2>2. PICK l \in Same(i) : e.binding = s[l].binding
    BY <1>3, <1>5, <2>1, MergedSays
  <2>3. s[l] \in ToSet(s)
    BY <2>2, SameAre DEF ToSet
  <2>4. s[l] \in ToSet(own)
    BY <1>3, <1>6, <1>10, <2>2, <2>3 DEF Unbound
  <2> QED
    BY <1>12, <2>1, <2>2, <2>4
<1>15. PICK e \in ToSet(RequestsFor(x, d.role)) : e \in ToSet(x.requests) /\ e.binding = b.id
  <2> DEFINE all == x.requests
             I == {i \in DOMAIN all :
                     all[i].role = d.role /\ (x.active = <<>> \/ all[i].binding = None
                                                              \/ Contains(x.active, all[i].binding))}
             in == Sub(all, I)
  <2>1. RequestsFor(x, d.role) = Alternatives(in)
    BY DEF RequestsFor, Select
  <2>2. List(all)
    BY <1>2, <1>5, DedupIs
  <2>3. List(in) /\ ToSet(in) = {all[i] : i \in I}
    BY <2>2, SubIsList
  <2>4. d \in ToSet(in)
    <3>1. PICK i \in DOMAIN all : all[i] = d
      BY <1>13, <2>2, ListIsFunction
    <3>2. i \in I
      BY <1>4, <1>13, <3>1
    <3> QED
      BY <2>3, <3>1, <3>2
  <2> HIDE DEF in
  <2>5. \E k \in ToSet(Alternatives(in)) : k \in ToSet(in) /\ k.binding = d.binding
    BY <1>3, <1>13, <2>3, <2>4, AlternativesKeepBindings
  <2>6. ToSet(in) \subseteq ToSet(all)
    BY <2>3 DEF ToSet
  <2> QED
    BY <1>13, <2>1, <2>5, <2>6
<1> QED
  BY <1>1, <1>13, <1>14, <1>15 DEF Blocked, x

\* A required artifact holds the turn: whatever the session, the message and the files it holds.
THEOREM RequiredArtifactsHold == Spec => []RequiredHoldsTheTurn
<1>1. ASSUME NEW t, t.routing # "out", NEW u \in Holdings, NEW b \in ToSet(Planned(t, u).matched),
             Waits(b, Planned(t, u).u), Alone(b, Planned(t, u))
      PROVE  Held(Planned(t, u), b)
  <2>1. Planned(t, u).matched = Matched(t, u) /\ Planned(t, u).t = t /\ Planned(t, u).u = u
    BY ReadingFields
  <2>2. SUFFICES ASSUME Planned(t, u).final.type # "followup_module", Planned(t, u).primary.type # "followup_module"
                 PROVE  Read(Planned(t, u)).blocked
    BY DEF Held
  <2>3. Blocked(Planned(t, u))
    BY <1>1, <2>1, <2>2, MissingHolds
  <2> QED
    BY <1>1, <2>1, <2>3 DEF Read, NothingRead
<1>2. RequiredHoldsTheTurn
  BY <1>1 DEF RequiredHoldsTheTurn, Readings
<1> QED
  BY <1>2, PTL
----------------------------------------------------------------------------
(* What the executor does, one thing after another (TurnExecution).        *)
\* A step of one of its folds; the action whose artifacts are logged has the given id.
Work(kind, id, e, w) ==
  CASE kind = "sync"  -> SyncRequest(e, w)
    [] kind = "note"  -> Note(e, w)
    [] kind = "store" -> Store(e, w)
    [] kind = "log"   -> Log(e, w.id, id)
    [] OTHER          -> Perform(Consume(e, w), w, <<>>)
\* What FoldLeft's recursion says of its function, over the first n positions.
Folded(kind, id, e, s, n, g) ==
  g = [x \in SUBSET (1 .. n) |-> IF x = {} THEN e ELSE Work(kind, id, g[x \ {Max(x)}], s[Max(x)])]

\* The last of some positions.
LEMMA LastPosition ==
  ASSUME NEW n \in Nat, n >= 1, NEW x \in SUBSET (1 .. n)
  PROVE  /\ n \in x => Max(x) = n
         /\ n \notin x => x \in SUBSET (1 .. n - 1)
         /\ x \ {n} \in SUBSET (1 .. n - 1)
<1>1. n \in x => Max(x) = n
  <2> SUFFICES ASSUME n \in x PROVE Max(x) = n
    OBVIOUS
  <2>1. n \in x /\ \A y \in x : n >= y
    OBVIOUS
  <2>2. \A m \in x : (\A y \in x : m >= y) => m = n
    <3> SUFFICES ASSUME NEW m \in x, \A y \in x : m >= y PROVE m = n
      OBVIOUS
    <3>1. m \in 1 .. n /\ m >= n
      BY <2>1
    <3> QED
      BY <3>1
  <2> QED
    BY <2>1, <2>2 DEF Max
<1>2. \A y \in x : y # n => y \in 1 .. n - 1
  OBVIOUS
<1> QED
  BY <1>1, <1>2

\* A property of the first position and of each next one is one of the last.
LEMMA Upwards ==
  ASSUME NEW N \in Nat, NEW G, 0 \in G, \A n \in 1 .. N : n - 1 \in G => n \in G
  PROVE  N \in G
<1> DEFINE I == {n \in 0 .. N : n \notin G}
<1> SUFFICES ASSUME I # {} PROVE FALSE
  OBVIOUS
<1>1. PICK n \in I : \A j \in I : n <= j
  <2>1. I \in SUBSET Nat
    OBVIOUS
  <2> HIDE DEF I
  <2> QED
    BY <2>1, FirstPosition
<1>2. n # 0 /\ n \in 1 .. N
  OBVIOUS
<1>3. n - 1 \in 0 .. N /\ n - 1 \notin I
  BY <1>1, <1>2
<1> QED
  BY <1>2, <1>3

\* There is such a function for every number of positions.
LEMMA FoldExists ==
  ASSUME NEW kind, NEW id, NEW e, NEW s, NEW N \in Nat
  PROVE  \E g : Folded(kind, id, e, s, N, g)
<1> DEFINE G == {n \in 0 .. N : \E g : Folded(kind, id, e, s, n, g)}
<1>1. 0 \in G
  <2> DEFINE g == [x \in SUBSET (1 .. 0) |-> e]
  <2>1. \A x \in SUBSET (1 .. 0) : x = {}
    OBVIOUS
  <2>2. Folded(kind, id, e, s, 0, g)
    BY <2>1 DEF Folded
  <2> QED
    BY <2>2
<1>2. ASSUME NEW n \in 1 .. N, n - 1 \in G PROVE n \in G
  <2>1. PICK g : Folded(kind, id, e, s, n - 1, g)
    BY <1>2
  <2> DEFINE h == [x \in SUBSET (1 .. n) |-> IF n \in x THEN Work(kind, id, g[x \ {n}], s[n]) ELSE g[x]]
             F(f, x) == IF x = {} THEN e ELSE Work(kind, id, f[x \ {Max(x)}], s[Max(x)])
  <2>2. \A x \in SUBSET (1 .. n) : h[x] = F(h, x)
    <3> SUFFICES ASSUME NEW x \in SUBSET (1 .. n) PROVE h[x] = F(h, x)
      OBVIOUS
    <3>0. n \in Nat /\ n >= 1
      OBVIOUS
    <3>1. CASE n \in x
      <4>1. Max(x) = n /\ x \ {n} \in SUBSET (1 .. n) /\ n \notin x \ {n} /\ x # {}
        BY <3>0, <3>1, LastPosition
      <4>2. h[x] = Work(kind, id, g[x \ {n}], s[n]) /\ h[x \ {n}] = g[x \ {n}]
        BY <3>1, <4>1
      <4> HIDE DEF h
      <4> QED
        BY <4>1, <4>2
    <3>2. CASE n \notin x
      <4>1. x \in SUBSET (1 .. n - 1)
        BY <3>0, <3>2, LastPosition
      <4>2. h[x] = g[x] /\ h[x \ {Max(x)}] = g[x \ {Max(x)}]
        BY <3>2
      <4>3. g[x] = F(g, x)
        BY <2>1, <4>1 DEF Folded
      <4> HIDE DEF h
      <4> QED
        BY <4>2, <4>3
    <3> QED
      BY <3>1, <3>2
  <2>3. Folded(kind, id, e, s, n, h)
    BY <2>2 DEF Folded
  <2> QED
    BY <2>3
<1> HIDE DEF G
<1>3. N \in G
  BY <1>1, <1>2, Upwards
<1> QED
  BY <1>3 DEF G

\* Its value at the first positions, from the value before.
LEMMA FoldSteps ==
  ASSUME NEW kind, NEW id, NEW e, NEW s, NEW N \in Nat, NEW g, Folded(kind, id, e, s, N, g)
  PROVE  /\ g[1 .. 0] = e
         /\ \A n \in 1 .. N : g[1 .. n] = Work(kind, id, g[1 .. n - 1], s[n])
<1>1. 1 .. 0 = {}
  OBVIOUS
<1>2. g[1 .. 0] = e
  BY <1>1 DEF Folded
<1>3. ASSUME NEW n \in 1 .. N PROVE g[1 .. n] = Work(kind, id, g[1 .. n - 1], s[n])
  <2>1. 1 .. n \in SUBSET (1 .. N) /\ 1 .. n # {} /\ n \in 1 .. n /\ (1 .. n) \ {n} = 1 .. n - 1
    OBVIOUS
  <2>2. Max(1 .. n) = n
    BY <2>1, LastPosition
  <2> QED
    BY <2>1, <2>2 DEF Folded
<1> QED
  BY <1>2, <1>3
\* The executor's folds are such functions.
LEMMA FoldsAre ==
  ASSUME NEW e, NEW s, List(s), NEW id
  PROVE  /\ \E g : Folded("sync", id, e, s, Len(s), g) /\ FoldLeft(SyncRequest, e, s) = g[1 .. Len(s)]
         /\ \E g : Folded("note", id, e, s, Len(s), g) /\ FoldLeft(Note, e, s) = g[1 .. Len(s)]
         /\ \E g : Folded("store", id, e, s, Len(s), g) /\ FoldLeft(Store, e, s) = g[1 .. Len(s)]
<1>1. Len(s) \in Nat /\ DOMAIN s = 1 .. Len(s)
  BY ListFacts
<1>2. \E g : Folded("sync", id, e, s, Len(s), g) /\ FoldLeft(SyncRequest, e, s) = g[1 .. Len(s)]
  <2> DEFINE f == CHOOSE g : g = [x \in SUBSET DOMAIN s |->
                                    IF x = {} THEN e ELSE SyncRequest(g[x \ {Max(x)}], s[Max(x)])]
  <2>1. FoldLeft(SyncRequest, e, s) = f[DOMAIN s]
    BY DEF FoldLeft, MapThenFoldSet
  <2>2. \A g : Folded("sync", id, e, s, Len(s), g) <=>
               g = [x \in SUBSET DOMAIN s |-> IF x = {} THEN e ELSE SyncRequest(g[x \ {Max(x)}], s[Max(x)])]
    BY <1>1 DEF Folded, Work
  <2>3. Folded("sync", id, e, s, Len(s), f)
    BY <1>1, <2>2, FoldExists
  <2> QED
    BY <1>1, <2>1, <2>3
<1>3. \E g : Folded("note", id, e, s, Len(s), g) /\ FoldLeft(Note, e, s) = g[1 .. Len(s)]
  <2> DEFINE f == CHOOSE g : g = [x \in SUBSET DOMAIN s |->
                                    IF x = {} THEN e ELSE Note(g[x \ {Max(x)}], s[Max(x)])]
  <2>1. FoldLeft(Note, e, s) = f[DOMAIN s]
    BY DEF FoldLeft, MapThenFoldSet
  <2>2. \A g : Folded("note", id, e, s, Len(s), g) <=>
               g = [x \in SUBSET DOMAIN s |-> IF x = {} THEN e ELSE Note(g[x \ {Max(x)}], s[Max(x)])]
    BY <1>1 DEF Folded, Work
  <2>3. Folded("note", id, e, s, Len(s), f)
    BY <1>1, <2>2, FoldExists
  <2> QED
    BY <1>1, <2>1, <2>3
<1>4. \E g : Folded("store", id, e, s, Len(s), g) /\ FoldLeft(Store, e, s) = g[1 .. Len(s)]
  <2> DEFINE f == CHOOSE g : g = [x \in SUBSET DOMAIN s |->
                                    IF x = {} THEN e ELSE Store(g[x \ {Max(x)}], s[Max(x)])]
  <2>1. FoldLeft(Store, e, s) = f[DOMAIN s]
    BY DEF FoldLeft, MapThenFoldSet
  <2>2. \A g : Folded("store", id, e, s, Len(s), g) <=>
               g = [x \in SUBSET DOMAIN s |-> IF x = {} THEN e ELSE Store(g[x \ {Max(x)}], s[Max(x)])]
    BY <1>1 DEF Folded, Work
  <2>3. Folded("store", id, e, s, Len(s), f)
    BY <1>1, <2>2, FoldExists
  <2> QED
    BY <1>1, <2>1, <2>3
<1> QED
  BY <1>2, <1>3, <1>4
\* d has the gates of e.
Kept(d, e) == "gates" \in DOMAIN d /\ d.gates = e.gates

\* Each step of a fold keeps the gates.
Keeping(kind, id, s) == \A n \in 1 .. Len(s) : \A d : "gates" \in DOMAIN d => Kept(Work(kind, id, d, s[n]), d)

\* A fold whose steps keep the gates keeps them.
LEMMA FoldKeeps ==
  ASSUME NEW kind, NEW id, NEW e, "gates" \in DOMAIN e, NEW s, List(s), NEW g,
         Folded(kind, id, e, s, Len(s), g), Keeping(kind, id, s)
  PROVE  Kept(g[1 .. Len(s)], e)
<1> DEFINE N == Len(s)
<1>a. N \in Nat
  BY ListFacts
<1> DEFINE G == {n \in 0 .. N : Kept(g[1 .. n], e)}
<1>0. /\ g[1 .. 0] = e
      /\ \A n \in 1 .. N : g[1 .. n] = Work(kind, id, g[1 .. n - 1], s[n])
  <2>1. Folded(kind, id, e, s, N, g)
    OBVIOUS
  <2> HIDE DEF N
  <2> QED
    BY <1>a, <2>1, FoldSteps
<1>1. 0 \in G
  <2>1. Kept(g[1 .. 0], e)
    BY <1>0 DEF Kept
  <2> QED
    BY <2>1
<1>2. ASSUME NEW n \in 1 .. N, n - 1 \in G PROVE n \in G
  <2>1. Kept(g[1 .. n - 1], e)
    BY <1>2
  <2>2. g[1 .. n] = Work(kind, id, g[1 .. n - 1], s[n])
    BY <1>0
  <2>3. Kept(Work(kind, id, g[1 .. n - 1], s[n]), g[1 .. n - 1])
    BY <2>1 DEF Kept, Keeping
  <2>4. Kept(g[1 .. n], e)
    BY <2>1, <2>2, <2>3 DEF Kept
  <2> QED
    BY <2>4
<1> HIDE DEF G
<1>3. N \in G
  BY <1>1, <1>2, <1>a, Upwards
<1> QED
  BY <1>3 DEF G

\* A claim that names no role leaves the gates alone.
LEMMA NoteKeeps ==
  ASSUME NEW e, "gates" \in DOMAIN e, NEW c, c.roles = <<>>, ~c.required
  PROVE  Kept(Note(e, c), e)
<1> DEFINE optional == FoldLeft(LAMBDA gates, role : ForRole(gates, role, c.verdict), e.gates, <<>>)
           F(g) == [x \in SUBSET DOMAIN <<>> |->
                      IF x = {} THEN e.gates ELSE ForRole(g[x \ {Max(x)}], <<>>[Max(x)], c.verdict)]
           f == CHOOSE g : g = F(g)
<1>1. optional = f[DOMAIN <<>>]
  BY DEF FoldLeft, MapThenFoldSet
<1>2. \E g : g = F(g)
  <2> DEFINE g == [x \in SUBSET DOMAIN <<>> |-> e.gates]
  <2>1. \A x \in SUBSET DOMAIN <<>> : x = {}
    OBVIOUS
  <2>2. g = F(g)
    BY <2>1
  <2> QED
    BY <2>2
<1>3. f = F(f)
  BY <1>2
<1>4. DOMAIN <<>> = {}
  OBVIOUS
<1>5. optional = e.gates
  BY <1>1, <1>3, <1>4
<1> HIDE DEF optional, F, f
<1>6. Note(e, c).gates = optional /\ "gates" \in DOMAIN Note(e, c)
  BY DEF Note, optional
<1> QED
  BY <1>5, <1>6 DEF Kept

\* What is stored and logged leaves the gates alone.
LEMMA StoreKeeps ==
  ASSUME NEW e, "gates" \in DOMAIN e
  PROVE  /\ \A p : Kept(Store(e, p), e)
         /\ \A kind, id : Kept(Log(e, kind, id), e)
         /\ \A a : Kept(Consume(e, a), e)
         /\ Kept(Record(e), e)
<1>1. \A o : Kept(Keep(e, o), e)
  BY DEF Keep, Kept
<1>2. \A d, o : "gates" \in DOMAIN d => Kept(Show(d, o), d)
  BY DEF Show, Kept
<1>3. \A p : Kept(Store(e, p), e)
  <2> TAKE p
  <2> DEFINE o == [NoOutput EXCEPT !.id = p.id, !.visible = p.visible, !.content = p.content, !.status = p.status]
  <2>1. Store(e, p) = Show(Keep(e, o), o)
    BY DEF Store
  <2> HIDE DEF o
  <2> QED
    BY <1>1, <1>2, <2>1 DEF Kept
<1> QED
  BY <1>3 DEF Log, Consume, Record, Kept
\* It names no role and requires nothing.
Silent(c) == c.roles = <<>> /\ ~c.required

\* What the built-in assembler and validator return leaves the gates alone.
LEMMA ApplyKeeps ==
  ASSUME NEW e, "gates" \in DOMAIN e, NEW a, Silent(a), NEW r, NEW kind,
         r \in {AssemblerResult(e, a), ValidatorResult(e, a)}
  PROVE  Kept(Apply(e, a, r, kind), e)
<1> DEFINE out == r.outputs \o r.shown \o r.hidden
           stored == FoldLeft(Store, e, out)
           logged == FoldLeft(LAMBDA s, p : Log(s, p.id, a.id), stored, r.artifacts)
           merged == [Log(logged, kind, a.id) EXCEPT
                         !.assembly.status = Or(r.assembly.status, @),
                         !.validation = Or(r.validation, @),
                         !.pending = IF r.validation = None THEN @ ELSE r.pending]
<1>1. /\ r.outputs = <<>> /\ r.shown = <<>>
      /\ \E p : r.hidden = <<p>> /\ Silent(p) /\ {"roles", "required"} \subseteq DOMAIN p
      /\ \E p : r.artifacts = <<p>> /\ Silent(p)
  <2> DEFINE plan == [Payload EXCEPT !.id = "assembly_plan", !.status = "complete"]
             planned == [Payload EXCEPT !.id = "assembly_plan", !.targets = a.targets]
             report == [Payload EXCEPT !.id = "validation_report", !.status = "complete"]
             reported == [Payload EXCEPT !.id = "validation_report", !.targets = a.targets]
  <2>1. \A p \in {plan, planned, report, reported} : Silent(p) /\ {"roles", "required"} \subseteq DOMAIN p
    BY DEF Payload, Silent
  <2>2. CASE r = AssemblerResult(e, a)
    <3> HIDE DEF report, reported
    <3>1. r.outputs = <<>> /\ r.shown = <<>> /\ r.hidden = <<plan>> /\ r.artifacts = <<planned>>
      BY <2>2 DEF AssemblerResult, Result
    <3> HIDE DEF plan, planned
    <3> QED
      BY <2>1, <3>1
  <2>3. CASE r = ValidatorResult(e, a)
    <3> HIDE DEF plan, planned
    <3>1. r.outputs = <<>> /\ r.shown = <<>> /\ r.hidden = <<report>> /\ r.artifacts = <<reported>>
      BY <2>3 DEF ValidatorResult, Result
    <3> HIDE DEF report, reported
    <3> QED
      BY <2>1, <3>1
  <2> QED
    BY <2>2, <2>3
<1>2. List(out) /\ \A p \in ToSet(out) : Silent(p) /\ {"roles", "required"} \subseteq DOMAIN p
  <2>1. PICK p : r.hidden = <<p>> /\ Silent(p) /\ {"roles", "required"} \subseteq DOMAIN p
    BY <1>1
  <2>2. List(r.outputs \o r.shown) /\ ToSet(r.outputs \o r.shown) = {}
    BY <1>1, ShortLists, ConcatIsList
  <2>3. List(out) /\ ToSet(out) = {p}
    BY <2>1, <2>2, ShortLists, ConcatIsList
  <2> QED
    BY <2>1, <2>3
<1>3. List(r.artifacts) /\ \A p \in ToSet(r.artifacts) : Silent(p)
  <2>1. PICK p : r.artifacts = <<p>> /\ Silent(p)
    BY <1>1
  <2> QED
    BY <2>1, ShortLists
<1>4. Kept(stored, e)
  <2>1. PICK g : Folded("store", a.id, e, out, Len(out), g) /\ stored = g[1 .. Len(out)]
    BY <1>2, FoldsAre
  <2> HIDE DEF out, stored
  <2>2. Keeping("store", a.id, out)
    BY StoreKeeps DEF Work, Keeping
  <2> QED
    BY <1>2, <2>1, <2>2, FoldKeeps
<1>5. Kept(logged, e)
  <2> HIDE DEF stored
  <2>0. "gates" \in DOMAIN stored
    BY <1>4 DEF Kept
  <2> DEFINE s == r.artifacts
             f == CHOOSE g : g = [x \in SUBSET DOMAIN s |->
                                    IF x = {} THEN stored ELSE Log(g[x \ {Max(x)}], s[Max(x)].id, a.id)]
  <2>1. logged = f[DOMAIN s]
    BY DEF FoldLeft, MapThenFoldSet
  <2>2. Len(s) \in Nat /\ DOMAIN s = 1 .. Len(s)
    BY <1>3, ListFacts
  <2>3. \A g : Folded("log", a.id, stored, s, Len(s), g) <=>
               g = [x \in SUBSET DOMAIN s |->
                      IF x = {} THEN stored ELSE Log(g[x \ {Max(x)}], s[Max(x)].id, a.id)]
    BY <2>2 DEF Folded, Work
  <2>5. Folded("log", a.id, stored, s, Len(s), f)
    BY <2>2, <2>3, FoldExists
  <2> HIDE DEF f, logged
  <2>6. Keeping("log", a.id, s)
    BY StoreKeeps DEF Work, Keeping
  <2>4. Kept(logged, stored)
    BY <1>3, <2>0, <2>1, <2>2, <2>5, <2>6, FoldKeeps
  <2> QED
    BY <1>4, <2>4 DEF Kept
<1>6. Kept(merged, e)
  <2> HIDE DEF logged
  <2>0. "gates" \in DOMAIN logged
    BY <1>5 DEF Kept
  <2>1. Kept(Log(logged, kind, a.id), logged)
    BY <2>0, StoreKeeps
  <2> QED
    BY <1>5, <2>1 DEF Kept
<1>7. List(Claims(a, r)) /\ \A c \in ToSet(Claims(a, r)) : Silent(c)
  <2> DEFINE s1 == Map(out, LAMBDA p : Claim([p EXCEPT !.targets = <<>>, !.source = None], "yes"))
             c2 == Claim([Payload EXCEPT !.targets = r.assembly.targets, !.source = r.assembly.source], None)
             s3 == Map(r.artifacts, LAMBDA p : Claim(p, "yes"))
             c4 == Claim(a, "yes")
  <2>1. Claims(a, r) = s1 \o <<c2>> \o s3 \o <<c4>>
    BY DEF Claims
  <2>2. List(s1) /\ \A c \in ToSet(s1) : Silent(c)
    <3>1. s1 = [i \in DOMAIN out |-> Claim([out[i] EXCEPT !.targets = <<>>, !.source = None], "yes")]
      BY DEF Map
    <3>2. \A i \in DOMAIN out : out[i] \in ToSet(out)
      BY DEF ToSet
    <3> HIDE DEF s1, out
    <3>3. \A p : Silent(p) /\ {"roles", "required"} \subseteq DOMAIN p
                  => Silent(Claim([p EXCEPT !.targets = <<>>, !.source = None], "yes"))
      BY DEF Claim, Silent
    <3>4. List(s1) /\ ToSet(s1) = {s1[i] : i \in DOMAIN out}
      <4>1. s1 = [i \in DOMAIN out |-> s1[i]]
        BY <3>1
      <4> QED
        BY <1>2, <4>1, MapIsList
    <3>5. \A i \in DOMAIN out : Silent(s1[i])
      BY <1>2, <3>1, <3>2, <3>3
    <3> QED
      BY <3>4, <3>5
  <2>3. Silent(c2)
    BY DEF Claim, Payload, Silent
  <2>4. List(s3) /\ \A c \in ToSet(s3) : Silent(c)
    <3>1. s3 = [i \in DOMAIN r.artifacts |-> Claim(r.artifacts[i], "yes")]
      BY DEF Map
    <3>2. \A i \in DOMAIN r.artifacts : r.artifacts[i] \in ToSet(r.artifacts)
      BY DEF ToSet
    <3> HIDE DEF s3
    <3>3. List(s3) /\ ToSet(s3) = {s3[i] : i \in DOMAIN r.artifacts}
      BY <1>3, <3>1, MapIsList
    <3>4. \A i \in DOMAIN r.artifacts : Silent(s3[i])
      BY <1>3, <3>1, <3>2 DEF Claim, Silent
    <3> QED
      BY <3>3, <3>4
  <2>5. Silent(c4)
    BY DEF Claim, Silent
  <2> HIDE DEF s1, c2, s3, c4
  <2>6. List(s1 \o <<c2>>) /\ ToSet(s1 \o <<c2>>) = ToSet(s1) \cup {c2}
    BY <2>2, ShortLists, ConcatIsList
  <2>7. List(s1 \o <<c2>> \o s3) /\ ToSet(s1 \o <<c2>> \o s3) = ToSet(s1) \cup {c2} \cup ToSet(s3)
    BY <2>4, <2>6, ConcatIsList
  <2>8. List(Claims(a, r)) /\ ToSet(Claims(a, r)) = ToSet(s1) \cup {c2} \cup ToSet(s3) \cup {c4}
    BY <2>1, <2>7, ShortLists, ConcatIsList
  <2> QED
    BY <2>2, <2>3, <2>4, <2>5, <2>8
<1>8. Apply(e, a, r, kind) = FoldLeft(Note, merged, Claims(a, r))
  BY DEF Apply
<1> HIDE DEF merged
<1>9. Kept(FoldLeft(Note, merged, Claims(a, r)), merged)
  <2> DEFINE s == Claims(a, r)
  <2>0. "gates" \in DOMAIN merged
    BY <1>6 DEF Kept
  <2>1. PICK g : Folded("note", a.id, merged, s, Len(s), g) /\ FoldLeft(Note, merged, s) = g[1 .. Len(s)]
    BY <1>7, FoldsAre
  <2>2. \A n \in 1 .. Len(s) : Silent(s[n])
    <3>1. DOMAIN s = 1 .. Len(s)
      BY <1>7, ListFacts
    <3> QED
      BY <1>7, <3>1 DEF ToSet
  <2>3. Keeping("note", a.id, s)
    <3> HIDE DEF s
    <3> QED
      BY <2>2, NoteKeeps DEF Work, Keeping, Silent
  <2> QED
    BY <1>7, <2>0, <2>1, <2>3, FoldKeeps
<1> QED
  BY <1>6, <1>8, <1>9 DEF Kept
\* An action of a plan: it says nothing of artifact roles, and has no executor but the built-in two.
Planable(a) ==
  /\ Silent(a) /\ ~a.content /\ {"roles", "required"} \subseteq DOMAIN a
  /\ \/ a.type \in {"load_resource", "retrieve_knowledge", "update_session_state", "respond_to_user"}
     \/ a.type = "assemble_output" /\ a.target = "output_artifact_assembler"
     \/ a.type = "validate_output" /\ a.target = "output_artifact_validator"

LEMMA ActionsAre ==
  ASSUME NEW x
  PROVE  List(Actions(x)) /\ \A a \in ToSet(Actions(x)) : Planable(a)
<1> DEFINE targets == OutputTargets(x)
           Final(id, type, target) ==
              [Action EXCEPT !.id = id, !.type = type, !.target = target, !.targets = targets,
                             !.source = "final_answer"]
           a1 == [Action EXCEPT !.id = "prepare", !.type = "load_resource"]
           a2 == [Action EXCEPT !.id = "retrieve", !.type = "retrieve_knowledge"]
           a3 == Final("assemble", "assemble_output", "output_artifact_assembler")
           a4 == Final("validate", "validate_output", "output_artifact_validator")
           a5 == [Action EXCEPT !.id = "respond", !.type = "respond_to_user", !.key = "final_answer",
                                !.visible = TRUE]
           a6 == [Action EXCEPT !.id = "update", !.type = "update_session_state"]
           s1 == When(ReadsAnything(x), <<a1>>)
           s2 == When(SearchesKnowledge(x), <<a2>>)
           s3 == When(targets # <<>>, <<a3, a4>>)
           s4 == <<a5, a6>>
<1>1. Actions(x) = s1 \o s2 \o s3 \o s4
  BY DEF Actions
<1> HIDE DEF targets
<1>2. Planable(a1) /\ Planable(a2) /\ Planable(a3) /\ Planable(a4) /\ Planable(a5) /\ Planable(a6)
  BY DEF Planable, Silent, Action
<1> HIDE DEF a1, a2, a3, a4, a5, a6, Final
<1>3. \A a, b : List(<<a, b>>) /\ ToSet(<<a, b>>) = {a, b}
  <2> TAKE a, b
  <2>1. ToSet(<<a, b>>) = {a, b}
    BY DEF ToSet
  <2> QED
    BY <2>1 DEF List
<1>4. \A c \in BOOLEAN : \A s : List(s) => List(When(c, s)) /\ ToSet(When(c, s)) \subseteq ToSet(s)
  BY ShortLists DEF When
<1>5. ReadsAnything(x) \in BOOLEAN /\ SearchesKnowledge(x) \in BOOLEAN
  BY DEF ReadsAnything, SearchesKnowledge
<1>6. List(s1) /\ ToSet(s1) \subseteq {a1}
  BY <1>4, <1>5, ShortLists
<1>7. List(s2) /\ ToSet(s2) \subseteq {a2}
  BY <1>4, <1>5, ShortLists
<1>8. List(s3) /\ ToSet(s3) \subseteq {a3, a4}
  BY <1>3, <1>4
<1>9. List(s4) /\ ToSet(s4) = {a5, a6}
  BY <1>3
<1> HIDE DEF s1, s2, s3, s4
<1>10. List(s1 \o s2) /\ ToSet(s1 \o s2) \subseteq {a1, a2}
  BY <1>6, <1>7, ConcatIsList
<1>11. List(s1 \o s2 \o s3) /\ ToSet(s1 \o s2 \o s3) \subseteq {a1, a2, a3, a4}
  BY <1>8, <1>10, ConcatIsList
<1>12. List(s1 \o s2 \o s3 \o s4) /\ ToSet(s1 \o s2 \o s3 \o s4) \subseteq {a1, a2, a3, a4, a5, a6}
  BY <1>9, <1>11, ConcatIsList
<1> QED
  BY <1>1, <1>2, <1>12

\* No action of a plan touches the gates.
LEMMA PerformKeeps ==
  ASSUME NEW e, "gates" \in DOMAIN e, NEW a, Planable(a)
  PROVE  Kept(Perform(Consume(e, a), a, <<>>), e)
<1> DEFINE c == Consume(e, a)
<1>1. "gates" \in DOMAIN c /\ c.gates = e.gates
  BY StoreKeeps DEF Kept
<1> HIDE DEF c
<1>2. \A kind, id : Kept(Log(c, kind, id), c)
  BY <1>1, StoreKeeps
<1>3. DOMAIN KindOf = {"invoke_tool", "invoke_skill", "assemble_output", "validate_output"}
  BY DEF KindOf
<1>4. Kept(Perform(c, a, <<>>), c)
  <2>1. CASE a.type \in {"load_resource", "retrieve_knowledge"}
    <3>1. Perform(c, a, <<>>) = Log(c, "action_observed", a.id)
      BY <1>3, <2>1 DEF Perform
    <3> QED
      BY <1>2, <3>1
  <2>2. CASE a.type = "update_session_state"
    <3>1. Perform(c, a, <<>>) = Log(c, "session_state_update", a.id)
      BY <1>3, <2>2 DEF Perform
    <3> QED
      BY <1>2, <3>1
  <2>3. CASE a.type = "respond_to_user"
    <3>1. Perform(c, a, <<>>) = Log(c, "response_action", a.id)
      BY <1>3, <2>3 DEF Perform, Planable
    <3> QED
      BY <1>2, <3>1
  <2>4. CASE a.type = "assemble_output" /\ a.target = "output_artifact_assembler"
    <3>1. Perform(c, a, <<>>) = Invoke(c, a, <<>>)
      BY <1>3, <2>4 DEF Perform
    <3>2. Invoke(c, a, <<>>) = Apply(c, a, AssemblerResult(c, a), KindOf[a.type])
      BY <2>4 DEF Invoke, BuiltIn, Outcome
    <3> QED
      BY <1>1, <3>1, <3>2, ApplyKeeps DEF Planable
  <2>5. CASE a.type = "validate_output" /\ a.target = "output_artifact_validator"
    <3>1. Perform(c, a, <<>>) = Record(Invoke(c, a, <<>>))
      BY <1>3, <2>5 DEF Perform
    <3>2. Invoke(c, a, <<>>) = Apply(c, a, ValidatorResult(c, a), KindOf[a.type])
      BY <2>5 DEF Invoke, BuiltIn, Outcome
    <3> DEFINE done == Invoke(c, a, <<>>)
    <3>3. Kept(done, c)
      BY <1>1, <3>2, ApplyKeeps DEF Planable
    <3> HIDE DEF done
    <3>4. "gates" \in DOMAIN done
      BY <3>3 DEF Kept
    <3>5. Kept(Record(done), done)
      BY <3>4, StoreKeeps
    <3>6. Perform(c, a, <<>>) = Record(done)
      BY <3>1 DEF done
    <3> QED
      BY <3>3, <3>5, <3>6 DEF Kept
  <2> QED
    BY <2>1, <2>2, <2>3, <2>4, <2>5 DEF Planable
<1> QED
  BY <1>1, <1>4 DEF c, Kept
\* The gates have a gate for the key, and the gates for it are shut.
HasFields(g) == {"key", "role", "required", "satisfied", "status"} \subseteq DOMAIN g
Closed(gates, key) ==
  /\ List(gates) /\ \A g \in ToSet(gates) : HasFields(g)
  /\ \E g \in ToSet(gates) : g.key = key
  /\ \A g \in ToSet(gates) : g.key = key => g.required /\ ~g.satisfied

\* The first gate of a key, or a new one.
LEMMA GateAtIs ==
  ASSUME NEW gates, List(gates), NEW key
  PROVE  LET g == GateAt(gates, key)
         IN  \/ g \in ToSet(gates) /\ g.key = key
             \/ /\ \A k \in ToSet(gates) : k.key # key
                /\ g = [NoGate EXCEPT !.key = key]
<1> DEFINE I == {i \in DOMAIN gates : gates[i].key = key}
           new == [NoGate EXCEPT !.key = key]
<1>1. I \in SUBSET Nat
  BY ListFacts
<1>2. GateAt(gates, key) = FirstAt(gates, I, new)
  BY DEF GateAt, FirstOr
<1> HIDE DEF I, new
<1>3. IF I = {} THEN GateAt(gates, key) = new ELSE \E i \in I : GateAt(gates, key) = gates[i]
  BY <1>1, <1>2, FirstAtPosition
<1>4. ToSet(gates) = {gates[i] : i \in DOMAIN gates}
  BY ListIsFunction DEF ToSet
<1>5. CASE I = {}
  BY <1>3, <1>4, <1>5 DEF I, new
<1>6. CASE I # {}
  <2>1. PICK i \in I : GateAt(gates, key) = gates[i]
    BY <1>3, <1>6
  <2>2. gates[i] \in ToSet(gates) /\ gates[i].key = key
    BY <1>4 DEF I
  <2> QED
    BY <2>1, <2>2
<1> QED
  BY <1>5, <1>6

\* It is shut when the gates for the key are.
LEMMA ClosedIsShut ==
  ASSUME NEW gates, NEW b, Closed(gates, b.id)
  PROVE  Shut(gates, b)
<1>1. GateAt(gates, b.id) \in ToSet(gates) /\ GateAt(gates, b.id).key = b.id
  BY GateAtIs DEF Closed
<1> QED
  BY <1>1 DEF Closed, Shut

\* What replaces a gate or joins them keeps the gates for a key shut, unless it opens one.
LEMMA PutCloses ==
  ASSUME NEW gates, NEW key, Closed(gates, key), NEW g, HasFields(g), g.key = key => g.required /\ ~g.satisfied
  PROVE  Closed(Put(gates, g), key)
<1>1. List(gates) /\ ToSet(gates) = {gates[i] : i \in DOMAIN gates}
  BY ListIsFunction DEF Closed, ToSet
<1>2. CASE \E k \in ToSet(gates) : k.key = g.key
  <2> DEFINE f == [i \in DOMAIN gates |-> IF gates[i].key = g.key THEN g ELSE gates[i]]
  <2>1. Put(gates, g) = f
    BY <1>2 DEF Put, Map
  <2>2. \A i \in DOMAIN gates : f[i] = (IF gates[i].key = g.key THEN g ELSE gates[i])
    OBVIOUS
  <2>3. List(f) /\ ToSet(f) = {f[i] : i \in DOMAIN gates}
    <3>1. f = [i \in DOMAIN gates |-> f[i]]
      OBVIOUS
    <3> HIDE DEF f
    <3> QED
      BY <1>1, <3>1, MapIsList
  <2> HIDE DEF f
  <2>4. \A k \in ToSet(f) : k \in ToSet(gates) \/ k = g
    BY <1>1, <2>2, <2>3
  <2>5. \E k \in ToSet(f) : k.key = key
    <3>1. PICK i \in DOMAIN gates : gates[i].key = key
      BY <1>1 DEF Closed
    <3>2. f[i].key = key /\ f[i] \in ToSet(f)
      BY <2>2, <2>3, <3>1
    <3> QED
      BY <3>2
  <2> QED
    BY <2>1, <2>3, <2>4, <2>5 DEF Closed
<1>3. CASE ~ \E k \in ToSet(gates) : k.key = g.key
  <2>1. Put(gates, g) = gates \o <<g>>
    <3>1. Put(gates, g) = Append(gates, g)
      BY <1>3 DEF Put
    <3>2. gates \in Seq(ToSet(gates) \cup {g}) /\ g \in ToSet(gates) \cup {g}
      BY <1>1 DEF List
    <3> QED
      BY <3>1, <3>2
  <2>2. List(gates \o <<g>>) /\ ToSet(gates \o <<g>>) = ToSet(gates) \cup {g}
    BY <1>1, ShortLists, ConcatIsList
  <2> QED
    BY <2>1, <2>2 DEF Closed
<1> QED
  BY <1>2, <1>3

\* Nor does a request of the turn open one.
LEMMA SyncCloses ==
  ASSUME NEW e, "gates" \in DOMAIN e, NEW key, Closed(e.gates, key), NEW q
  PROVE  "gates" \in DOMAIN SyncRequest(e, q) /\ Closed(SyncRequest(e, q).gates, key)
<1> DEFINE role == Or(q.artifact, q.file)
           name == Or(q.binding, role)
           old  == GateAt(e.gates, name)
           seen == [e EXCEPT !.roles = Join(@, Some(role))]
           new  == [old EXCEPT !.role = Or(role, @), !.required = TRUE,
                               !.status = Or(@, IF old.satisfied THEN "satisfied" ELSE "awaiting_artifact")]
<1>1. SyncRequest(e, q) = IF ~q.required \/ name = None THEN seen ELSE [seen EXCEPT !.gates = Put(@, new)]
  BY DEF SyncRequest
<1>2. "gates" \in DOMAIN seen /\ seen.gates = e.gates
  OBVIOUS
<1>3. HasFields(old) /\ (old.key = key => ~old.satisfied)
  <2>1. HasFields([NoGate EXCEPT !.key = name])
    BY DEF NoGate, HasFields
  <2>2. \/ old \in ToSet(e.gates) /\ old.key = name
        \/ old = [NoGate EXCEPT !.key = name]
    BY GateAtIs DEF Closed
  <2>3. ~[NoGate EXCEPT !.key = name].satisfied
    BY DEF NoGate
  <2> HIDE DEF old
  <2> QED
    BY <2>1, <2>2, <2>3 DEF Closed
<1>4. HasFields(new) /\ new.key = old.key /\ new.satisfied = old.satisfied /\ new.required = TRUE
  <2> HIDE DEF old, role
  <2> QED
    BY <1>3 DEF HasFields
<1> HIDE DEF seen, new, old, name
<1>5. Closed(Put(e.gates, new), key)
  BY <1>3, <1>4, PutCloses
<1> QED
  BY <1>1, <1>2, <1>5
\* The requests of a turn keep the gates for a key shut.
LEMMA RequestsClose ==
  ASSUME NEW e, "gates" \in DOMAIN e, NEW key, Closed(e.gates, key), NEW s, List(s)
  PROVE  LET d == FoldLeft(SyncRequest, e, s)
         IN  "gates" \in DOMAIN d /\ Closed(d.gates, key)
<1> DEFINE N == Len(s)
           d == FoldLeft(SyncRequest, e, s)
<1>1. PICK g : Folded("sync", None, e, s, N, g) /\ d = g[1 .. N]
  BY FoldsAre
<1>2. N \in Nat
  BY ListFacts
<1> HIDE DEF N, d
<1>3. g[1 .. 0] = e /\ \A n \in 1 .. N : g[1 .. n] = SyncRequest(g[1 .. n - 1], s[n])
  <2>1. \A a, w : Work("sync", None, a, w) = SyncRequest(a, w)
    BY DEF Work
  <2> QED
    BY <1>1, <1>2, <2>1, FoldSteps
<1> DEFINE G == {n \in 0 .. N : "gates" \in DOMAIN g[1 .. n] /\ Closed(g[1 .. n].gates, key)}
<1>4. 0 \in G
  <2>1. "gates" \in DOMAIN g[1 .. 0] /\ Closed(g[1 .. 0].gates, key)
    BY <1>3
  <2> QED
    BY <1>2, <2>1
<1>5. ASSUME NEW n \in 1 .. N, n - 1 \in G PROVE n \in G
  <2>1. "gates" \in DOMAIN g[1 .. n - 1] /\ Closed(g[1 .. n - 1].gates, key)
    BY <1>5
  <2>2. g[1 .. n] = SyncRequest(g[1 .. n - 1], s[n])
    BY <1>3
  <2>3. "gates" \in DOMAIN g[1 .. n] /\ Closed(g[1 .. n].gates, key)
    BY <2>1, <2>2, SyncCloses
  <2> QED
    BY <1>2, <2>3
<1> HIDE DEF G
<1>6. N \in G
  BY <1>2, <1>4, <1>5, Upwards
<1> QED
  BY <1>1, <1>6 DEF G, d

\* What the plan claims leaves the gates alone.
LEMMA ClaimsKeep ==
  ASSUME NEW e, "gates" \in DOMAIN e, NEW s, List(s), \A a \in ToSet(s) : Planable(a)
  PROVE  Kept(FoldLeft(Note, e, PlanClaims(s)), e)
<1> DEFINE F(a) == Claim(a, IF a.required THEN "no" ELSE None)
           assembling == FirstOr(s, LAMBDA a : a.type = "assemble_output" /\ (a.targets # <<>> \/ a.source # None),
                                 Action)
           f == [i \in DOMAIN s |-> F(s[i])]
           last == Claim([Payload EXCEPT !.targets = assembling.targets, !.source = assembling.source], None)
           r == f \o <<last>>
<1>1. PlanClaims(s) = r
  BY DEF PlanClaims, Map
<1>2. Silent(last)
  BY DEF last, Silent, Claim, Payload
<1>3. \A i \in DOMAIN s : f[i] = F(s[i]) /\ s[i] \in ToSet(s)
  BY ListFacts
<1>4. f = [i \in DOMAIN s |-> f[i]]
  OBVIOUS
<1> HIDE DEF f, last
<1>5. \A a : Silent(a) => Silent(F(a))
  BY DEF Silent, Claim
<1>6. List(f) /\ \A c \in ToSet(f) : Silent(c)
  <2>1. List(f) /\ ToSet(f) = {f[i] : i \in DOMAIN s}
    BY <1>4, MapIsList
  <2>2. \A i \in DOMAIN s : Silent(f[i])
    <3> HIDE DEF F
    <3> QED
      BY <1>3, <1>5 DEF Planable
  <2> QED
    BY <2>1, <2>2
<1>7. List(r) /\ \A c \in ToSet(r) : Silent(c)
  <2>1. List(r) /\ ToSet(r) = ToSet(f) \cup {last}
    BY <1>6, ShortLists, ConcatIsList
  <2> QED
    BY <1>2, <1>6, <2>1
<1> HIDE DEF r
<1>8. PICK g : Folded("note", None, e, r, Len(r), g) /\ FoldLeft(Note, e, r) = g[1 .. Len(r)]
  BY <1>7, FoldsAre
<1>9. Keeping("note", None, r)
  <2>1. \A n \in 1 .. Len(r) : Silent(r[n])
    BY <1>7, ListFacts
  <2> QED
    BY <2>1, NoteKeeps DEF Work, Keeping, Silent
<1> QED
  BY <1>1, <1>7, <1>8, <1>9, FoldKeeps

\* What a plan without artifact roles executes keeps shut gates shut.
LEMMA ExecuteCloses ==
  ASSUME NEW e, "gates" \in DOMAIN e, NEW key, Closed(e.gates, key), NEW wanted, List(wanted),
         NEW s, List(s), \A a \in ToSet(s) : Planable(a)
  PROVE  Closed(Execute(e, wanted, s, <<>>).gates, key)
<1> DEFINE e1 == FoldLeft(SyncRequest, e, wanted)
           e2 == FoldLeft(Note, e1, PlanClaims(s))
           e3 == SyncAssembly(e2, s)
           e4 == FoldLeft(LAMBDA d, a : Perform(Consume(d, a), a, <<>>), e3, s)
<1>1. Execute(e, wanted, s, <<>>) = e4
  BY DEF Execute
<1>2. "gates" \in DOMAIN e1 /\ Closed(e1.gates, key)
  BY RequestsClose
<1> HIDE DEF e1
<1>3. Kept(e2, e1)
  BY <1>2, ClaimsKeep
<1> HIDE DEF e2
<1>4. Kept(e3, e2)
  BY <1>3 DEF SyncAssembly, Kept
<1> HIDE DEF e3
<1>5. Kept(e4, e3)
  <2>0. "gates" \in DOMAIN e3
    BY <1>4 DEF Kept
  <2> DEFINE F(g) == [x \in SUBSET DOMAIN s |->
                        IF x = {} THEN e3 ELSE Perform(Consume(g[x \ {Max(x)}], s[Max(x)]), s[Max(x)], <<>>)]
             f == CHOOSE g : g = F(g)
  <2>1. e4 = f[DOMAIN s]
    BY DEF FoldLeft, MapThenFoldSet
  <2>2. Len(s) \in Nat /\ DOMAIN s = 1 .. Len(s)
    BY ListFacts
  <2>3. \A g : Folded("do", None, e3, s, Len(s), g) <=> g = F(g)
    BY <2>2 DEF Folded, Work
  <2>4. Folded("do", None, e3, s, Len(s), f)
    <3> HIDE DEF F
    <3> QED
      BY <2>2, <2>3, FoldExists
  <2> HIDE DEF f, e4
  <2>5. Keeping("do", None, s)
    <3>1. \A n \in 1 .. Len(s) : Planable(s[n])
      BY ListFacts
    <3>2. \A d, w : Work("do", None, d, w) = Perform(Consume(d, w), w, <<>>)
      BY DEF Work
    <3> QED
      BY <3>1, <3>2, PerformKeeps DEF Keeping
  <2> QED
    BY <2>0, <2>1, <2>2, <2>4, <2>5, FoldKeeps
<1> HIDE DEF e4
<1> QED
  BY <1>1, <1>2, <1>3, <1>4, <1>5 DEF Kept
\* The requests of a turn are a list.
LEMMA RequestsAreAList ==
  ASSUME NEW t, NEW u \in Holdings
  PROVE  List(Planned(t, u).requests)
<1> DEFINE x == Planned(t, u)
           p == Placed(ReadingFor(t, u))
           r == ModuleRequests(p, TurnRequests(p))
           own == FollowupRequests(p.t.m, p.final.id)
           dropped == Sub(r, {i \in DOMAIN r : r[i].role \notin Guidance})
<1>1. x.requests = Dedup(FinalRequests(p, r))
  BY ReadingFields
<1>2. List(r)
  BY ModuleAsks
<1>3. List(own)
  BY FollowupAsks
<1>4. FinalRequests(p, r) \in {r, dropped \o own}
  BY DEF FinalRequests, DropGuidance, Select
<1> HIDE DEF x, p, r, own
<1>5. List(dropped \o own)
  <2>1. List(dropped)
    BY <1>2, SubIsList
  <2> HIDE DEF dropped
  <2> QED
    BY <1>3, <2>1, ConcatIsList
<1>6. List(FinalRequests(p, r))
  BY <1>2, <1>4, <1>5
<1>7. List(x.requests)
  BY <1>1, <1>6, DedupIs
<1> QED
  BY <1>7 DEF x

\* A turn begins with the gates of the artifacts it waits for shut.
LEMMA ActivationCloses ==
  ASSUME NEW matched, List(matched), ToSet(matched) \subseteq ToSet(Library.bindings),
         NEW u, NEW b \in ToSet(matched), Waits(b, u)
  PROVE  Closed(Activation(matched, u).gates, b.id)
<1> DEFINE I == {i \in DOMAIN matched :
                   matched[i].trigger = "artifact_gate" /\ (matched[i].id # None \/ matched[i].role # None)}
           r == Sub(matched, I)
           gates == [i \in DOMAIN r |-> GateState(r[i], u)]
<1>1. Activation(matched, u).gates = gates
  BY DEF Activation, Map, Select
<1>2. \A c \in ToSet(matched) : c.id # None
  BY LibraryIsCompiled
<1>3. List(r) /\ ToSet(r) = {matched[i] : i \in I}
  BY SubIsList
<1>4. b \in ToSet(r) /\ ToSet(r) \subseteq ToSet(matched)
  <2>1. PICK i \in DOMAIN matched : matched[i] = b
    BY ListIsFunction
  <2>2. i \in I
    BY <1>2, <2>1 DEF Waits
  <2> QED
    BY <1>3, <2>1, <2>2 DEF ToSet
<1> HIDE DEF I, r
<1>5. List(gates) /\ ToSet(gates) = {gates[i] : i \in DOMAIN r}
  <2>1. gates = [i \in DOMAIN r |-> gates[i]]
    OBVIOUS
  <2> HIDE DEF gates
  <2> QED
    BY <1>3, <2>1, MapIsList
<1>6. \A i \in DOMAIN r : gates[i] = GateState(r[i], u) /\ r[i] \in ToSet(r)
  BY <1>3, ListFacts
<1> HIDE DEF gates
<1>7. \A c \in ToSet(r) : HasFields(GateState(c, u)) /\ GateState(c, u).key = c.id
  BY <1>2, <1>4 DEF HasFields, GateState
<1>8. GateState(b, u).required /\ ~GateState(b, u).satisfied
  BY DEF GateState, Waits
<1>9. \A c \in ToSet(r) : c.id = b.id => c = b
  BY <1>4 DEF Waits
<1>10. \A g \in ToSet(gates) : HasFields(g) /\ (g.key = b.id => g.required /\ ~g.satisfied)
  <2> TAKE g \in ToSet(gates)
  <2>1. PICK i \in DOMAIN r : g = GateState(r[i], u) /\ r[i] \in ToSet(r)
    BY <1>5, <1>6
  <2> QED
    BY <1>7, <1>8, <1>9, <2>1
<1>11. \E g \in ToSet(gates) : g.key = b.id
  <2>1. PICK i \in DOMAIN r : r[i] = b
    BY <1>3, <1>4, ListIsFunction
  <2>2. gates[i] \in ToSet(gates) /\ gates[i].key = b.id
    BY <1>4, <1>5, <1>6, <1>7, <2>1
  <2> QED
    BY <2>2
<1> QED
  BY <1>1, <1>5, <1>10, <1>11 DEF Closed

\* A gate stays shut: whatever the session, the message, its requests and the files the session holds,
\* what the turn executes opens no required gate of which the session has no artifact.
THEOREM GatesStayShut == Spec => []GateStaysShut
<1>1. ASSUME NEW t, NEW u \in Holdings, NEW b \in ToSet(Planned(t, u).matched), Waits(b, Planned(t, u).u)
      PROVE  Shut(Executed(Planned(t, u), NothingDone).gates, b)
  <2> DEFINE x == Planned(t, u)
             before == [NothingDone EXCEPT !.outputs = NothingDone.outputs, !.assembly = NothingDone.assembly,
                                           !.gates = x.bound.gates, !.targets = OutputTargets(x)]
  <2>1. x.matched = Matched(t, u) /\ x.u = u /\ x.bound = Activation(Matched(t, u), u)
    BY ReadingFields
  <2>2. List(x.requests)
    BY RequestsAreAList
  <2>3. List(Actions(x)) /\ \A a \in ToSet(Actions(x)) : Planable(a)
    BY ActionsAre
  <2>4. b \in ToSet(x.matched) /\ Waits(b, x.u)
    BY <1>1
  <2> HIDE DEF x
  <2>5. Closed(x.bound.gates, b.id)
    BY <2>1, <2>4, MatchesAreBindings, ActivationCloses
  <2>6. "gates" \in DOMAIN before /\ before.gates = x.bound.gates
    BY DEF NothingDone
  <2>7. Executed(x, NothingDone) = Execute(before, x.requests, Actions(x), <<>>)
    BY DEF Executed
  <2> HIDE DEF before
  <2>8. Closed(Executed(x, NothingDone).gates, b.id)
    BY <2>2, <2>3, <2>5, <2>6, <2>7, ExecuteCloses
  <2>9. Shut(Executed(x, NothingDone).gates, b)
    BY <2>8, ClosedIsShut
  <2> QED
    BY <2>9 DEF x
<1>2. GateStaysShut
  BY <1>1 DEF GateStaysShut, Readings
<1> QED
  BY <1>2, PTL
=============================================================================
