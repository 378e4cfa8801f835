-------------------------- MODULE PlanOrderProofs --------------------------
(***************************************************************************)
(* What the topological sort of PlanOrder guarantees for every set of      *)
(* manifests and every graph of dependencies.  SortSound is the            *)
(* strengthening: indeg counts the dependencies not yet in the order, and  *)
(* the nodes whose count is zero are exactly those in the order, in the    *)
(* queue or just freed, each of them once.                                 *)
(***************************************************************************)
EXTENDS PlanOrder, TLAPS, FiniteSetTheorems, SequenceTheorems,
        WellFoundedInduction

OneToOne(s) == \A i, j \in 1 .. Len(s) : s[i] = s[j] => i = j

-----------------------------------------------------------------------------
(***************************************************************************)
(* Sequences of nodes.                                                     *)
(***************************************************************************)

(* Appending adds one element and, if it is new, keeps the others distinct. *)
LEMMA Appending ==
  ASSUME NEW s \in Seq(Node), NEW x \in Node
  PROVE  /\ Append(s, x) \in Seq(Node)
         /\ Len(Append(s, x)) = Len(s) + 1
         /\ Elements(Append(s, x)) = Elements(s) \cup {x}
         /\ OneToOne(s) /\ x \notin Elements(s) => OneToOne(Append(s, x))
<1>1. /\ Append(s, x) \in Seq(Node)
      /\ Len(Append(s, x)) = Len(s) + 1
      /\ \A i \in 1 .. Len(s) : Append(s, x)[i] = s[i]
      /\ Append(s, x)[Len(s) + 1] = x
  BY AppendProperties
<1>2. Len(s) \in Nat
  BY LenProperties
<1>3. Elements(Append(s, x)) = Elements(s) \cup {x}
  <2>1. \A i \in 1 .. Len(s) + 1 :
          Append(s, x)[i] = IF i = Len(s) + 1 THEN x ELSE s[i]
    BY <1>1, <1>2
  <2>2. Elements(Append(s, x)) \subseteq Elements(s) \cup {x}
    BY <1>1, <1>2, <2>1 DEF Elements
  <2>3. Elements(s) \cup {x} \subseteq Elements(Append(s, x))
    BY <1>1, <1>2, <2>1 DEF Elements
  <2> QED
    BY <2>2, <2>3
<1>4. ASSUME OneToOne(s), x \notin Elements(s)
      PROVE  OneToOne(Append(s, x))
  BY <1>1, <1>2, <1>4 DEF OneToOne, Elements
<1> QED
  BY <1>1, <1>3, <1>4

(* Taking the head leaves the other elements.                              *)
LEMMA Taking ==
  ASSUME NEW s \in Seq(Node), s # <<>>
  PROVE  /\ Head(s) \in Node
         /\ Tail(s) \in Seq(Node)
         /\ Elements(s) = {Head(s)} \cup Elements(Tail(s))
         /\ OneToOne(s) => OneToOne(Tail(s)) /\ Head(s) \notin Elements(Tail(s))
<1>1. /\ Head(s) \in Node
      /\ Tail(s) \in Seq(Node)
      /\ Len(Tail(s)) = Len(s) - 1
      /\ \A i \in 1 .. Len(Tail(s)) : Tail(s)[i] = s[i + 1]
  BY HeadTailProperties
<1>2. Len(s) \in Nat \ {0} /\ Head(s) = s[1]
  BY EmptySeq
<1>3. Elements(s) \subseteq {Head(s)} \cup Elements(Tail(s))
  <2> SUFFICES ASSUME NEW i \in 1 .. Len(s), i # 1
               PROVE  s[i] \in Elements(Tail(s))
    BY <1>2 DEF Elements
  <2>1. i - 1 \in 1 .. Len(Tail(s)) /\ s[i] = Tail(s)[i - 1]
    BY <1>1, <1>2
  <2> QED
    BY <2>1 DEF Elements
<1>4. {Head(s)} \cup Elements(Tail(s)) \subseteq Elements(s)
  <2>1. 1 \in 1 .. Len(s) /\ \A i \in 1 .. Len(Tail(s)) : i + 1 \in 1 .. Len(s)
    BY <1>1, <1>2
  <2> QED
    BY <1>1, <1>2, <2>1 DEF Elements
<1>5. ASSUME OneToOne(s)
      PROVE  OneToOne(Tail(s)) /\ Head(s) \notin Elements(Tail(s))
  BY <1>1, <1>2, <1>5 DEF OneToOne, Elements
<1> QED
  BY <1>1, <1>3, <1>4, <1>5

(* Concatenation, of sequences without a common element.                   *)
LEMMA Joining ==
  ASSUME NEW s \in Seq(Node), NEW t \in Seq(Node)
  PROVE  /\ s \o t \in Seq(Node)
         /\ Elements(s \o t) = Elements(s) \cup Elements(t)
         /\ OneToOne(s) /\ OneToOne(t) /\ Elements(s) \cap Elements(t) = {}
              => OneToOne(s \o t)
<1>1. /\ s \o t \in Seq(Node)
      /\ Len(s \o t) = Len(s) + Len(t)
      /\ \A i \in 1 .. Len(s) + Len(t) :
           (s \o t)[i] = IF i <= Len(s) THEN s[i] ELSE t[i - Len(s)]
  BY ConcatProperties
<1>2. Len(s) \in Nat /\ Len(t) \in Nat
  BY LenProperties
<1>3. Elements(s \o t) \subseteq Elements(s) \cup Elements(t)
  <2> SUFFICES ASSUME NEW i \in 1 .. Len(s) + Len(t)
               PROVE  (s \o t)[i] \in Elements(s) \cup Elements(t)
    BY <1>1 DEF Elements
  <2>1. CASE i <= Len(s)
    BY <1>1, <1>2, <2>1 DEF Elements
  <2>2. CASE ~(i <= Len(s))
    <3>1. i - Len(s) \in 1 .. Len(t)
      BY <1>2, <2>2
    <3> QED
      BY <1>1, <2>2, <3>1 DEF Elements
  <2> QED
    BY <2>1, <2>2
<1>4. Elements(s) \subseteq Elements(s \o t)
  BY <1>1, <1>2 DEF Elements
<1>5. Elements(t) \subseteq Elements(s \o t)
  <2> SUFFICES ASSUME NEW i \in 1 .. Len(t)
               PROVE  t[i] \in Elements(s \o t)
    BY DEF Elements
  <2>1. /\ i + Len(s) \in 1 .. Len(s) + Len(t)
        /\ ~(i + Len(s) <= Len(s))
        /\ (i + Len(s)) - Len(s) = i
    BY <1>2
  <2>2. (s \o t)[i + Len(s)] = t[i]
    BY <1>1, <2>1
  <2> QED
    BY <1>1, <2>1, <2>2 DEF Elements
<1>6. ASSUME OneToOne(s), OneToOne(t), Elements(s) \cap Elements(t) = {}
      PROVE  OneToOne(s \o t)
  <2> SUFFICES ASSUME NEW i \in 1 .. Len(s) + Len(t),
                      NEW j \in 1 .. Len(s) + Len(t),
                      (s \o t)[i] = (s \o t)[j]
               PROVE  i = j
    BY <1>1 DEF OneToOne
  <2>1. CASE i <= Len(s) /\ j <= Len(s)
    BY <1>1, <1>2, <1>6, <2>1 DEF OneToOne
  <2>2. CASE i > Len(s) /\ j > Len(s)
    <3>1. i - Len(s) \in 1 .. Len(t) /\ j - Len(s) \in 1 .. Len(t)
      BY <1>2, <2>2
    <3>2. t[i - Len(s)] = t[j - Len(s)]
      BY <1>1, <1>2, <2>2
    <3>3. i - Len(s) = j - Len(s)
      BY <1>6, <3>1, <3>2 DEF OneToOne
    <3> QED
      BY <1>2, <3>3
  <2>3. CASE i <= Len(s) /\ j > Len(s)
    <3>1. i \in 1 .. Len(s) /\ j - Len(s) \in 1 .. Len(t)
      BY <1>2, <2>3
    <3>2. s[i] = t[j - Len(s)]
      BY <1>1, <1>2, <2>3
    <3> QED
      BY <1>6, <3>1, <3>2 DEF Elements
  <2>4. CASE i > Len(s) /\ j <= Len(s)
    <3>1. j \in 1 .. Len(s) /\ i - Len(s) \in 1 .. Len(t)
      BY <1>2, <2>4
    <3>2. s[j] = t[i - Len(s)]
      BY <1>1, <1>2, <2>4
    <3> QED
      BY <1>6, <3>1, <3>2 DEF Elements
  <2> QED
    BY <1>2, <2>1, <2>2, <2>3, <2>4
<1> QED
  BY <1>1, <1>3, <1>4, <1>5, <1>6

-----------------------------------------------------------------------------
(***************************************************************************)
(* Increasing enumerations.  Induction over the size of a set goes by its  *)
(* least counterexample.                                                   *)
(***************************************************************************)

(* A set of naturals with an element has a least one.                      *)
LEMMA LeastNatural ==
  ASSUME NEW T \in SUBSET Nat, T # {}
  PROVE  \E x \in T : \A y \in T : x <= y
<1>1. IsWellFoundedOn(OpToRel(<, Nat), Nat)
  BY NatLessThanWellFounded
<1>2. \E x \in T : \A y \in T : ~(<<y, x>> \in OpToRel(<, Nat))
  BY <1>1, WFMin
<1>3. \A x, y \in Nat : ~(<<y, x>> \in OpToRel(<, Nat)) => x <= y
  BY DEF OpToRel
<1> QED
  BY <1>2, <1>3

(* An increasing enumeration has every element of its set, once.           *)
LEMMA Enumeration ==
  ASSUME NEW S \in SUBSET Nat, IsFiniteSet(S), NEW s \in SortedSeqs(S)
  PROVE  /\ s \in Seq(S) /\ Len(s) = Cardinality(S)
         /\ Elements(s) = S /\ OneToOne(s)
         /\ \A i, j \in 1 .. Len(s) : i < j => s[i] < s[j]
<1> DEFINE n == Cardinality(S)
<1>1. n \in Nat
  BY FS_CardinalityType
<1>2. s \in [1 .. n -> S] /\ \A i, j \in 1 .. n : i < j => s[i] < s[j]
  BY DEF SortedSeqs
<1>3. s \in Seq(S) /\ Len(s) = n
  BY <1>1, <1>2, SeqDef
<1>4. \A i, j \in 1 .. n : s[i] = s[j] => i = j
  <2> SUFFICES ASSUME NEW i \in 1 .. n, NEW j \in 1 .. n, i # j
               PROVE  s[i] # s[j]
    OBVIOUS
  <2>1. s[i] \in Nat /\ s[j] \in Nat
    BY <1>2
  <2> QED
    BY <1>1, <1>2, <2>1
<1>5. s \in Injection(1 .. n, S)
  BY <1>2, <1>4 DEF Injection, IsInjective
<1>6. IsFiniteSet(1 .. n) /\ Cardinality(1 .. n) = n
  BY <1>1, FS_Interval
<1>7. s \in Surjection(1 .. n, S)
  BY <1>1, <1>5, <1>6, FS_Injection
<1>8. Elements(s) = S
  BY <1>2, <1>3, <1>7 DEF Elements, Surjection
<1> QED
  BY <1>2, <1>3, <1>4, <1>8 DEF OneToOne

LEMMA Enumerating ==
  ASSUME NEW S \in SUBSET Node, NEW s \in SortedSeqs(S)
  PROVE  s \in Seq(Node) /\ Elements(s) = S /\ OneToOne(s)
<1>1. IsFiniteSet(S) /\ S \in SUBSET Nat
  BY PlanOrderAssumption, FS_Subset
<1>2. s \in Seq(S)
  BY <1>1, Enumeration
<1>3. s \in Seq(Node)
  BY <1>2, SeqDef
<1> QED
  BY <1>1, <1>3, Enumeration

(* Every finite set of naturals has such an enumeration: neither the sort  *)
(* nor the team filter is ever without a sequence to go on with.           *)
THEOREM EnumerationExists ==
  \A S \in SUBSET Nat : IsFiniteSet(S) => SortedSeqs(S) # {}
<1> DEFINE Bad(k) == \E S \in SUBSET Nat :
              IsFiniteSet(S) /\ Cardinality(S) = k /\ SortedSeqs(S) = {}
           T == {k \in Nat : Bad(k)}
<1>1. ASSUME T # {} PROVE FALSE
  <2>1. PICK k \in T : \A y \in T : k <= y
    BY <1>1, LeastNatural
  <2>2. PICK S \in SUBSET Nat :
          IsFiniteSet(S) /\ Cardinality(S) = k /\ SortedSeqs(S) = {}
    BY <2>1
  <2>3. S # {}
    <3> SUFFICES ASSUME S = {} PROVE FALSE
      OBVIOUS
    <3>1. Cardinality(S) = 0
      BY FS_EmptySet
    <3>2. [i \in 1 .. 0 |-> i] \in SortedSeqs(S)
      BY <3>1 DEF SortedSeqs
    <3> QED
      BY <2>2, <3>2
  <2>4. PICK x \in S : \A y \in S : x <= y
    BY <2>2, <2>3, LeastNatural
  <2> DEFINE R == S \ {x}
  <2>5. /\ k \in Nat \ {0} /\ R \in SUBSET Nat /\ IsFiniteSet(R)
        /\ Cardinality(R) = k - 1
    BY <2>2, <2>4, FS_RemoveElement, FS_CardinalityType, FS_EmptySet
  <2>6. PICK r : r \in SortedSeqs(R)
    <3>1. k - 1 \in Nat /\ k - 1 \notin T
      BY <2>1, <2>5
    <3> QED
      BY <2>5, <3>1
  <2>7. /\ r \in [1 .. k - 1 -> R]
        /\ \A i, j \in 1 .. k - 1 : i < j => r[i] < r[j]
    BY <2>5, <2>6 DEF SortedSeqs
  <2> DEFINE s == [i \in 1 .. k |-> IF i = 1 THEN x ELSE r[i - 1]]
  <2>8. \A i \in 1 .. k : i # 1 => i - 1 \in 1 .. k - 1
    BY <2>5
  <2>9. s \in [1 .. k -> S]
    BY <2>4, <2>7, <2>8
  <2>10. \A y \in R : x < y
    BY <2>2, <2>4
  <2>11. ASSUME NEW i \in 1 .. k, NEW j \in 1 .. k, i < j
         PROVE  s[i] < s[j]
    <3>1. j # 1 /\ j - 1 \in 1 .. k - 1 /\ s[j] = r[j - 1]
      BY <2>5, <2>8, <2>11
    <3>2. CASE i = 1
      BY <2>7, <2>10, <3>1, <3>2
    <3>3. CASE i # 1
      <4>1. i - 1 \in 1 .. k - 1 /\ s[i] = r[i - 1] /\ i - 1 < j - 1
        BY <2>5, <2>8, <2>11, <3>3
      <4> QED
        BY <2>7, <3>1, <4>1
    <3> QED
      BY <3>2, <3>3
  <2>12. s \in SortedSeqs(S)
    BY <2>2, <2>9, <2>11 DEF SortedSeqs
  <2> QED
    BY <2>2, <2>12
<1>2. ASSUME NEW S \in SUBSET Nat, IsFiniteSet(S) PROVE SortedSeqs(S) # {}
  <2>1. Cardinality(S) \in Nat /\ Cardinality(S) \notin T
    BY <1>1, <1>2, FS_CardinalityType
  <2> QED
    BY <1>2, <2>1
<1> QED
  BY <1>2

-----------------------------------------------------------------------------
(***************************************************************************)
(* The invariant of the sort.                                              *)
(***************************************************************************)

(* The type of what the sort works with.                                   *)
SortTypes ==
  /\ declared \in [Node -> SUBSET Node]
  /\ reads \in [Node -> SUBSET (Node \cup Outside)]
  /\ deps \in [Node -> SUBSET (Node \cup Outside)]
  /\ indeg \in [Node -> Nat]
  /\ queue \in Seq(Node) /\ order \in Seq(Node)
  /\ visiting \subseteq Node /\ freed \subseteq Node
  /\ result \in {"enrich", "sort", "cycle", "refused", "deploy", "done"}

(* Before the sort nothing is queued; after it nothing is left, and the    *)
(* outcome is the one the length of the order asks for.                    *)
Stages ==
  /\ result \in {"enrich", "refused"} =>
       /\ queue = <<>> /\ order = <<>> /\ visiting = {} /\ freed = {}
       /\ \A n \in Node : deps[n] = {}
  /\ result \in {"cycle", "deploy", "done"} =>
       queue = <<>> /\ visiting = {} /\ freed = {}
  /\ result = "cycle" => Len(order) # Cardinality(Node)
  /\ result \in {"deploy", "done"} => Len(order) = Cardinality(Node)

(* The dependencies of a node that the order does not have yet.  The node  *)
(* taken last is in the order before its dependents are visited.           *)
Waiting(n) == (deps[n] \cap Node) \ Elements(order)

Counts ==
  \A n \in Node :
    indeg[n] = Cardinality(Waiting(n)) + (IF n \in visiting THEN 1 ELSE 0)

Ready ==
  result \notin {"enrich", "refused"} =>
    \A n \in Node :
      indeg[n] = 0 <=> n \in Elements(order) \cup Elements(queue) \cup freed

Distinct ==
  /\ OneToOne(order) /\ OneToOne(queue)
  /\ Elements(queue) \cap Elements(order) = {}
  /\ freed \cap (Elements(queue) \cup Elements(order)) = {}

Measured == Cardinality(Elements(order)) = Len(order)

(* Manifests that wait for each other never enter the order.               *)
CyclesStayOut ==
  \A S \in SUBSET Node :
    (\A n \in S : deps[n] \cap S # {}) => S \cap Elements(order) = {}

SortSound ==
  Stages /\ Counts /\ Ready /\ Distinct /\ Measured /\ CyclesStayOut

Inv == SortTypes /\ SortSound /\ DependenciesFirst

-----------------------------------------------------------------------------

LEMMA ElementsAreNodes ==
  ASSUME NEW s \in Seq(Node)
  PROVE  Elements(s) \subseteq Node /\ IsFiniteSet(Elements(s))
<1>1. Elements(s) \subseteq Node
  BY ElementOfSeq DEF Elements
<1> QED
  BY <1>1, PlanOrderAssumption, FS_Subset

LEMMA NoElements == Elements(<<>>) = {} /\ OneToOne(<<>>)
BY EmptySeq DEF Elements, OneToOne

LEMMA InitInv == Init => Inv
<1> SUFFICES ASSUME Init PROVE Inv
  OBVIOUS
<1> USE DEF Init
<1>1. SortTypes
  BY EmptySeq DEF SortTypes
<1>2. Stages
  BY DEF Stages
<1>3. \A n \in Node : Waiting(n) = {}
  BY DEF Waiting
<1>4. Counts /\ Ready
  <2>1. \A n \in Node : Cardinality(Waiting(n)) = 0
    BY <1>3, FS_EmptySet
  <2> QED
    BY <2>1 DEF Counts, Ready
<1>5. Distinct /\ Measured /\ CyclesStayOut
  BY NoElements, FS_EmptySet, EmptySeq DEF Distinct, Measured, CyclesStayOut
<1>6. DependenciesFirst
  BY EmptySeq DEF DependenciesFirst
<1> QED
  BY <1>1, <1>2, <1>4, <1>5, <1>6 DEF Inv, SortSound

(* The sort starts with every count at the number of dependencies, and     *)
(* queues those without any.                                               *)
LEMMA StartSortInv == Inv /\ StartSort => Inv'
<1> SUFFICES ASSUME Inv, StartSort PROVE Inv'
  OBVIOUS
<1> USE DEF Inv, SortTypes, SortSound, StartSort
<1> DEFINE Zero == {n \in Node : indeg'[n] = 0}
<1>1. /\ order = <<>> /\ visiting = {} /\ freed = {}
      /\ order' = <<>> /\ visiting' = {} /\ freed' = {}
  BY DEF Stages
<1>2. deps' \in [Node -> SUBSET (Node \cup Outside)]
  BY DEF Enriched
<1>3. \A n \in Node : /\ indeg'[n] = Cardinality(deps'[n] \cap Node)
                      /\ Cardinality(deps'[n] \cap Node) \in Nat
  <2> SUFFICES ASSUME NEW n \in Node
               PROVE  Cardinality(deps'[n] \cap Node) \in Nat
    OBVIOUS
  <2>1. IsFiniteSet(deps'[n] \cap Node)
    BY PlanOrderAssumption, FS_Subset
  <2> QED
    BY <2>1, FS_CardinalityType
<1>4. queue' \in SortedSeqs(Zero)
  OBVIOUS
<1> HIDE DEF Zero
<1>5. queue' \in Seq(Node) /\ Elements(queue') = Zero /\ OneToOne(queue')
  BY <1>4, Enumerating DEF Zero
<1>6. SortTypes'
  <2>1. indeg' \in [Node -> Nat]
    BY <1>3
  <2> QED
    BY <1>1, <1>2, <1>5, <2>1, EmptySeq DEF input
<1>7. Stages'
  BY DEF Stages
<1>8. Counts'
  <2>1. \A n \in Node : Waiting(n)' = deps'[n] \cap Node
    BY <1>1, NoElements DEF Waiting
  <2>2. \A n \in Node : n \notin visiting'
    BY <1>1
  <2> HIDE DEF Inv, SortTypes, SortSound, StartSort
  <2> SUFFICES ASSUME NEW n \in Node
               PROVE  indeg'[n] = Cardinality(Waiting(n)')
                                    + (IF n \in visiting' THEN 1 ELSE 0)
    BY DEF Counts
  <2>3. indeg'[n] = Cardinality(Waiting(n)') /\ indeg'[n] \in Nat
    BY <1>3, <2>1
  <2> QED
    BY <2>2, <2>3
<1>9. Ready'
  BY <1>1, <1>5, NoElements DEF Ready, Zero
<1>10. Distinct' /\ Measured' /\ CyclesStayOut'
  BY <1>1, <1>5, NoElements, FS_EmptySet, EmptySeq
     DEF Distinct, Measured, CyclesStayOut
<1>11. DependenciesFirst'
  BY <1>1, EmptySeq DEF DependenciesFirst
<1> QED
  BY <1>6, <1>7, <1>8, <1>9, <1>10, <1>11

(* The node taken has no dependency left outside the order, and waits in   *)
(* the queue only.                                                         *)
LEMMA TakeNodeInv == Inv /\ TakeNode => Inv'
<1> SUFFICES ASSUME Inv, TakeNode PROVE Inv'
  OBVIOUS
<1> DEFINE h == Head(queue)
<1> USE DEF Inv, SortTypes, SortSound
<1>1. /\ h \in Node /\ Tail(queue) \in Seq(Node)
      /\ Elements(queue) = {h} \cup Elements(Tail(queue))
      /\ OneToOne(Tail(queue)) /\ h \notin Elements(Tail(queue))
  BY Taking DEF TakeNode, Distinct
<1>2. h \notin Elements(order)
  BY <1>1 DEF Distinct
<1>3. /\ order' = Append(order, h)
      /\ queue' = Tail(queue)
      /\ visiting = {} /\ visiting' = {n \in Node : h \in deps[n]}
      /\ freed = {} /\ freed' = {}
      /\ result = "sort"
      /\ UNCHANGED <<declared, reads, deps, indeg, result>>
  BY DEF TakeNode, input
<1> HIDE DEF h
<1>4. /\ order' \in Seq(Node) /\ Len(order') = Len(order) + 1
      /\ Elements(order') = Elements(order) \cup {h}
      /\ OneToOne(order')
  BY <1>1, <1>2, <1>3, Appending DEF Distinct
<1>5. SortTypes'
  BY <1>1, <1>3, <1>4
<1>6. Stages'
  BY <1>3 DEF Stages
<1>7. Counts'
  <2> SUFFICES ASSUME NEW n \in Node
               PROVE  indeg[n] = Cardinality(Waiting(n)')
                                   + (IF n \in visiting' THEN 1 ELSE 0)
    BY <1>3 DEF Counts
  <2>1. Waiting(n)' = Waiting(n) \ {h}
    BY <1>3, <1>4 DEF Waiting
  <2>2. IsFiniteSet(Waiting(n))
    BY PlanOrderAssumption, FS_Subset DEF Waiting
  <2>3. Cardinality(Waiting(n)) \in Nat
    BY <2>2, FS_CardinalityType
  <2>4. h \in Waiting(n) <=> n \in visiting'
    BY <1>1, <1>2, <1>3 DEF Waiting
  <2>5. Cardinality(Waiting(n)')
          = IF n \in visiting' THEN Cardinality(Waiting(n)) - 1
                               ELSE Cardinality(Waiting(n))
    BY <2>1, <2>2, <2>4, FS_RemoveElement
  <2>6. indeg[n] = Cardinality(Waiting(n))
    BY <1>3, <2>3 DEF Counts
  <2> QED
    BY <2>3, <2>5, <2>6
<1>8. Ready'
  BY <1>1, <1>3, <1>4 DEF Ready
<1>9. Distinct'
  BY <1>1, <1>3, <1>4 DEF Distinct
<1>10. Measured'
  BY <1>2, <1>4, ElementsAreNodes, FS_AddElement DEF Measured
<1>11. deps[h] \cap Node \subseteq Elements(order)
  <2>1. indeg[h] = 0
    BY <1>1, <1>3 DEF Ready
  <2>2. IsFiniteSet(Waiting(h))
    BY PlanOrderAssumption, FS_Subset DEF Waiting
  <2>3. Cardinality(Waiting(h)) = 0
    BY <1>1, <1>3, <2>1, <2>2, FS_CardinalityType DEF Counts
  <2>4. Waiting(h) = {}
    BY <2>2, <2>3, FS_EmptySet
  <2> QED
    BY <2>4 DEF Waiting
<1>12. CyclesStayOut'
  <2>1. CyclesStayOut
    OBVIOUS
  <2> HIDE DEF Inv, SortTypes, SortSound
  <2> SUFFICES ASSUME NEW S \in SUBSET Node,
                      \A n \in S : deps[n] \cap S # {}
               PROVE  S \cap Elements(order') = {}
    BY <1>3 DEF CyclesStayOut
  <2>2. S \cap Elements(order) = {}
    BY <2>1 DEF CyclesStayOut
  <2>3. ASSUME h \in S PROVE FALSE
    <3>1. deps[h] \cap S # {}
      BY <2>3
    <3> QED
      BY <1>11, <2>2, <3>1
  <2> QED
    BY <1>4, <2>2, <2>3
<1>13. DependenciesFirst'
  <2>1. deps[h] \cap Node \subseteq {order[j] : j \in 1 .. Len(order)}
    BY <1>11 DEF Elements
  <2>2. Len(order) \in Nat
    BY LenProperties
  <2>3. \A i \in 1 .. Len(order) : order'[i] = order[i]
    BY <1>1, <1>3, AppendProperties
  <2>4. order'[Len(order) + 1] = h
    BY <1>1, <1>3, AppendProperties
  <2> SUFFICES ASSUME NEW i \in 1 .. Len(order) + 1
               PROVE  deps[order'[i]] \cap Node
                        \subseteq {order'[j] : j \in 1 .. i - 1}
    BY <1>3, <1>4 DEF DependenciesFirst
  <2>5. {order'[j] : j \in 1 .. i - 1} = {order[j] : j \in 1 .. i - 1}
    <3>1. \A j \in 1 .. i - 1 : j \in 1 .. Len(order)
      BY <2>2
    <3> QED
      BY <2>3, <3>1
  <2>6. CASE i = Len(order) + 1
    <3>1. i - 1 = Len(order)
      BY <2>2, <2>6
    <3> QED
      BY <2>1, <2>4, <2>5, <2>6, <3>1
  <2>7. CASE i # Len(order) + 1
    <3>1. i \in 1 .. Len(order)
      BY <2>2, <2>7
    <3> QED
      BY <2>3, <2>5, <3>1 DEF DependenciesFirst
  <2> QED
    BY <2>6, <2>7
<1> QED
  BY <1>5, <1>6, <1>7, <1>8, <1>9, <1>10, <1>12, <1>13

(* A dependent that is visited loses one dependency; it is freed exactly   *)
(* when that was the last.                                                 *)
LEMMA VisitDependentInv == Inv /\ VisitDependent => Inv'
<1> SUFFICES ASSUME Inv, VisitDependent PROVE Inv'
  OBVIOUS
<1> USE DEF Inv, SortTypes, SortSound
<1>1. PICK n \in visiting :
        /\ visiting' = visiting \ {n}
        /\ indeg' = [indeg EXCEPT ![n] = @ - 1]
        /\ freed' = IF LastDependency(n) THEN freed \cup {n} ELSE freed
  BY DEF VisitDependent
<1>2. UNCHANGED <<declared, reads, deps, queue, order, result>>
  BY DEF VisitDependent, input
<1>3. \A m \in Node : Cardinality(Waiting(m)) \in Nat
  <2> SUFFICES ASSUME NEW m \in Node PROVE Cardinality(Waiting(m)) \in Nat
    OBVIOUS
  <2>1. IsFiniteSet(Waiting(m))
    BY PlanOrderAssumption, FS_Subset DEF Waiting
  <2> QED
    BY <2>1, FS_CardinalityType
<1>4. n \in Node /\ indeg[n] \in Nat /\ indeg[n] = Cardinality(Waiting(n)) + 1
  BY DEF Counts
<1>5. result = "sort"
  BY DEF Stages
<1>6. n \notin Elements(order) \cup Elements(queue) \cup freed
  BY <1>3, <1>4, <1>5 DEF Ready
<1>7. \A m \in Node : indeg'[m] = IF m = n THEN indeg[n] - 1 ELSE indeg[m]
  BY <1>1
<1>8. SortTypes'
  BY <1>1, <1>2, <1>3, <1>4
<1>9. Stages'
  BY <1>2, <1>5 DEF Stages
<1>10. Counts'
  <2>1. \A m \in Node : Waiting(m)' = Waiting(m)
    BY <1>2 DEF Waiting
  <2> QED
    BY <1>1, <1>3, <1>4, <1>7, <2>1 DEF Counts
<1>11. Ready'
  <2> SUFFICES ASSUME NEW m \in Node
               PROVE  indeg'[m] = 0
                        <=> m \in Elements(order) \cup Elements(queue) \cup freed'
    BY <1>2 DEF Ready
  <2>1. CASE m = n
    BY <1>1, <1>3, <1>4, <1>6, <1>7, <2>1 DEF LastDependency
  <2>2. CASE m # n
    BY <1>1, <1>5, <1>7, <2>2 DEF Ready
  <2> QED
    BY <2>1, <2>2
<1>12. Distinct' /\ Measured' /\ CyclesStayOut'
  <2>1. Distinct /\ Measured /\ CyclesStayOut
    OBVIOUS
  <2>2. freed' \subseteq freed \cup {n}
    BY <1>1
  <2> HIDE DEF Inv, SortTypes, SortSound
  <2>3. Distinct'
    BY <1>2, <1>6, <2>1, <2>2 DEF Distinct
  <2>4. Measured'
    BY <1>2, <2>1 DEF Measured
  <2>5. CyclesStayOut'
    BY <1>2, <2>1 DEF CyclesStayOut
  <2> QED
    BY <2>3, <2>4, <2>5
<1>13. DependenciesFirst'
  BY <1>2 DEF DependenciesFirst
<1> QED
  BY <1>8, <1>9, <1>10, <1>11, <1>12, <1>13

LEMMA EnqueueFreedInv == Inv /\ EnqueueFreed => Inv'
<1> SUFFICES ASSUME Inv, EnqueueFreed PROVE Inv'
  OBVIOUS
<1> USE DEF Inv, SortTypes, SortSound
<1>1. PICK s \in SortedSeqs(freed) : queue' = queue \o s
  BY DEF EnqueueFreed
<1>2. /\ freed # {} /\ freed' = {}
      /\ UNCHANGED <<declared, reads, deps, indeg, order, visiting, result>>
  BY DEF EnqueueFreed, input
<1>3. s \in Seq(Node) /\ Elements(s) = freed /\ OneToOne(s)
  BY Enumerating
<1>4. /\ queue' \in Seq(Node)
      /\ Elements(queue') = Elements(queue) \cup freed
      /\ OneToOne(queue')
  BY <1>1, <1>3, Joining DEF Distinct
<1>5. SortTypes'
  BY <1>2, <1>4
<1>6. Stages'
  BY <1>2 DEF Stages
<1>7. Counts'
  BY <1>2 DEF Counts, Waiting
<1>8. Ready'
  BY <1>2, <1>4 DEF Ready
<1>9. Distinct' /\ Measured' /\ CyclesStayOut'
  BY <1>2, <1>4 DEF Distinct, Measured, CyclesStayOut
<1>10. DependenciesFirst'
  BY <1>2 DEF DependenciesFirst
<1> QED
  BY <1>5, <1>6, <1>7, <1>8, <1>9, <1>10

(* The other steps leave the sort alone and change at most the stage.      *)
LEMMA OutcomeInv ==
  ASSUME Inv,
         \/ EnrichmentFails \/ CycleFound \/ StartDeploy
         \/ DeployStep \/ DeployEnds \/ UNCHANGED vars
  PROVE  Inv'
<1> USE DEF Inv, SortTypes, SortSound
<1>1. UNCHANGED <<declared, reads, deps, indeg, queue, order, visiting, freed>>
  BY DEF EnrichmentFails, CycleFound, StartDeploy, DeployStep, DeployEnds,
         vars, input, sorting
<1>2. /\ Counts' /\ Distinct' /\ Measured' /\ CyclesStayOut'
      /\ DependenciesFirst'
  <2>1. Counts'
    BY <1>1 DEF Counts, Waiting
  <2>2. Distinct' /\ Measured' /\ CyclesStayOut'
    BY <1>1 DEF Distinct, Measured, CyclesStayOut
  <2>3. DependenciesFirst'
    BY <1>1 DEF DependenciesFirst
  <2> QED
    BY <2>1, <2>2, <2>3
<1>3. \/ result = "enrich" /\ result' = "refused"
      \/ SortEnds /\ Len(order) # Cardinality(Node) /\ result' = "cycle"
      \/ SortEnds /\ Len(order) = Cardinality(Node) /\ result' = "deploy"
      \/ result = "deploy" /\ result' = "done"
      \/ result' = result
  BY DEF EnrichmentFails, CycleFound, StartDeploy, DeployStep, DeployEnds, vars
<1>4. Ready'
  BY <1>1, <1>3 DEF Ready, SortEnds
<1>5. Stages'
  BY <1>1, <1>3 DEF Stages, SortEnds
<1>6. result' \in {"enrich", "sort", "cycle", "refused", "deploy", "done"}
  BY <1>3
<1> QED
  BY <1>1, <1>2, <1>4, <1>5, <1>6

LEMMA AlwaysInv == Spec => []Inv
<1>1. Inv /\ [Next]_vars => Inv'
  BY StartSortInv, TakeNodeInv, VisitDependentInv, EnqueueFreedInv, OutcomeInv
     DEF Next
<1> QED
  BY <1>1, InitInv, PTL DEF Spec

-----------------------------------------------------------------------------

(* topo.Sort places every dependency of a node before it, for any graph    *)
(* and whatever the order in which Go's maps yield the dependents.         *)
THEOREM SortedByDependencies == Spec => []DependenciesFirst
BY AlwaysInv, PTL DEF Inv

(* topo.Sort places no node twice: one that is in the queue has no count   *)
(* left to lose.                                                           *)
THEOREM NeverPlannedTwice == Spec => []PlannedOnce
<1>1. Inv => PlannedOnce
  BY DEF Inv, SortSound, Distinct, OneToOne, PlannedOnce
<1> QED
  BY <1>1, AlwaysInv, PTL

(* The length comparison at the end of topo.Sort finds exactly the cycles: *)
(* what is left out waits for something left out, and an order of all      *)
(* manifests cannot exist when some wait for each other.                   *)
THEOREM CyclesAreReported == Spec => []CycleReported
<1>1. Inv => CycleReported
  <2> SUFFICES ASSUME Inv PROVE CycleReported
    OBVIOUS
  <2> USE DEF Inv, SortTypes, SortSound
  <2>1. Elements(order) \subseteq Node /\ IsFiniteSet(Node)
    BY ElementsAreNodes, PlanOrderAssumption
  <2>2. ASSUME result = "cycle" PROVE Cyclic
    <3> DEFINE Rest == Node \ Elements(order)
    <3>1. Rest # {}
      BY <2>1, <2>2 DEF Stages, Measured
    <3>2. ASSUME NEW n \in Rest PROVE deps[n] \cap Rest # {}
      <4>1. indeg[n] # 0 /\ n \notin visiting
        BY <2>2, NoElements DEF Stages, Ready
      <4>2. Cardinality(Waiting(n)) # 0
        <5>1. IsFiniteSet(Waiting(n))
          BY <2>1, FS_Subset DEF Waiting
        <5>2. Cardinality(Waiting(n)) \in Nat
          BY <5>1, FS_CardinalityType
        <5> QED
          BY <4>1, <5>2 DEF Counts
      <4>3. Waiting(n) # {}
        BY <4>2, FS_EmptySet
      <4> QED
        BY <4>3 DEF Waiting
    <3> QED
      BY <3>1, <3>2 DEF Cyclic
  <2>3. ASSUME result \in {"deploy", "done"}
        PROVE  Elements(order) = Node
    BY <2>1, <2>3, FS_Subset DEF Stages, Measured
  <2>4. ASSUME result \in {"deploy", "done"}, Cyclic
        PROVE  FALSE
    <3>1. PICK S \in (SUBSET Node) \ {{}} : \A n \in S : deps[n] \cap S # {}
      BY <2>4 DEF Cyclic
    <3>2. S \cap Elements(order) = {}
      BY <3>1 DEF CyclesStayOut
    <3> QED
      BY <2>3, <2>4, <3>1, <3>2
  <2> QED
    BY <2>2, <2>3, <2>4 DEF CycleReported
<1> QED
  BY <1>1, AlwaysInv, PTL
-----------------------------------------------------------------------------
(***************************************************************************)
(* The deploy.  What is deployed and what is left to deploy are together   *)
(* the selection, in the order of the plan.                                *)
(***************************************************************************)

DeployTypes ==
  team \in Owner \cup {NoTeam} /\ steps \in Seq(Node) /\ deployed \in Seq(Node)

(* The sort is given every dependency, declared or read.                   *)
Inferred ==
  result \in {"sort", "cycle", "deploy", "done"} =>
    \A n \in Node : declared[n] \cup reads[n] \subseteq deps[n]

Narrowed ==
  /\ result \notin {"deploy", "done"} => steps = <<>> /\ deployed = <<>>
  /\ result \in {"deploy", "done"} =>
       deployed \o steps \in Selected(order, team)

DeployInv == DeployTypes /\ Inferred /\ Narrowed

(* The selection has what the filter keeps, where the plan has it.         *)
LEMMA Selection ==
  ASSUME NEW s \in Seq(Node), NEW t, NEW q \in Selected(s, t)
  PROVE  /\ q \in Seq(Node)
         /\ \E kept \in [1 .. Len(q) -> 1 .. Len(s)] :
              /\ \A k \in 1 .. Len(q) : q[k] = s[kept[k]]
              /\ \A i, j \in 1 .. Len(q) : i < j => kept[i] < kept[j]
              /\ {kept[k] : k \in 1 .. Len(q)} = Kept(s, t)
<1> DEFINE K == Kept(s, t)
<1>1. Len(s) \in Nat /\ \A i \in 1 .. Len(s) : s[i] \in Node
  BY LenProperties, ElementOfSeq
<1>2. K \subseteq 1 .. Len(s) /\ K \in SUBSET Nat /\ IsFiniteSet(K)
  <2>1. K \subseteq 1 .. Len(s)
    BY DEF Kept
  <2>2. IsFiniteSet(1 .. Len(s))
    BY <1>1, FS_Interval
  <2>3. K \in SUBSET Nat
    BY <1>1, <2>1
  <2> QED
    BY <2>1, <2>2, <2>3, FS_Subset
<1>3. PICK kept \in SortedSeqs(K) : q = [k \in DOMAIN kept |-> s[kept[k]]]
  BY DEF Selected
<1> HIDE DEF K
<1>4. /\ kept \in Seq(K) /\ Elements(kept) = K
      /\ \A i, j \in 1 .. Len(kept) : i < j => kept[i] < kept[j]
  BY <1>2, <1>3, Enumeration
<1>5. Len(kept) \in Nat /\ kept \in [1 .. Len(kept) -> K]
  BY <1>4, LenProperties
<1>6. q \in [1 .. Len(kept) -> Node]
  BY <1>1, <1>2, <1>3, <1>5
<1>7. q \in Seq(Node) /\ Len(q) = Len(kept)
  BY <1>5, <1>6, SeqDef
<1>8. kept \in [1 .. Len(q) -> 1 .. Len(s)]
  BY <1>2, <1>4, <1>5, <1>7
<1>9. /\ \A k \in 1 .. Len(q) : q[k] = s[kept[k]]
      /\ \A i, j \in 1 .. Len(q) : i < j => kept[i] < kept[j]
      /\ {kept[k] : k \in 1 .. Len(q)} = Kept(s, t)
  BY <1>3, <1>4, <1>5, <1>7 DEF Elements, K
<1> QED
  BY <1>7, <1>8, <1>9

LEMMA NextStep ==
  ASSUME NEW d \in Seq(Node), NEW s \in Seq(Node), s # <<>>
  PROVE  Append(d, Head(s)) \o Tail(s) = d \o s
  OBVIOUS

LEMMA DeployInitially == Init => DeployInv
BY EmptySeq DEF Init, DeployInv, DeployTypes, Inferred, Narrowed

LEMMA DeployInvKept == Inv /\ DeployInv /\ [Next]_vars => DeployInv'
<1> SUFFICES ASSUME Inv, DeployInv, [Next]_vars PROVE DeployInv'
  OBVIOUS
<1> USE DEF DeployInv
<1>1. CASE StartSort
  <2>1. UNCHANGED <<declared, reads, team, steps, deployed>>
    BY <1>1 DEF StartSort, input, deploying
  <2>2. result = "enrich" /\ result' = "sort"
    BY <1>1 DEF StartSort
  <2>3. Inferred'
    BY <1>1, <2>1 DEF StartSort, Enriched, Inferred
  <2>4. DeployTypes' /\ Narrowed'
    BY <2>1, <2>2 DEF DeployTypes, Narrowed
  <2> QED
    BY <2>3, <2>4
<1>2. CASE TakeNode \/ VisitDependent \/ EnqueueFreed \/ EnrichmentFails
           \/ CycleFound \/ UNCHANGED vars
  <2>1. UNCHANGED <<declared, reads, deps, team, steps, deployed>>
    BY <1>2 DEF TakeNode, VisitDependent, EnqueueFreed, EnrichmentFails,
                CycleFound, vars, input, deploying
  <2>2. \/ result = "enrich" /\ result' = "refused"
        \/ result = "sort" /\ result' = "cycle"
        \/ result' = result /\ (order' = order \/ result = "sort")
    BY <1>2 DEF TakeNode, VisitDependent, EnqueueFreed, EnrichmentFails,
                CycleFound, SortEnds, vars, sorting
  <2> QED
    BY <2>1, <2>2 DEF DeployTypes, Inferred, Narrowed
<1>3. CASE StartDeploy
  <2>1. /\ UNCHANGED <<declared, reads, deps, order, deployed>>
        /\ result = "sort" /\ result' = "deploy"
        /\ team' \in Owner \cup {NoTeam} /\ steps' \in Selected(order, team')
    BY <1>3 DEF StartDeploy, SortEnds, input, sorting
  <2>2. order \in Seq(Node)
    BY DEF Inv, SortTypes
  <2>3. PICK t : t = team'
    OBVIOUS
  <2>4. PICK q : q = steps'
    OBVIOUS
  <2>5. q \in Seq(Node)
    BY <2>1, <2>2, <2>3, <2>4, Selection
  <2>6. deployed = <<>> /\ <<>> \o q = q
    BY <2>1, <2>5, ConcatEmptySeq DEF Narrowed
  <2>7. Narrowed'
    BY <2>1, <2>4, <2>6 DEF Narrowed
  <2>8. DeployTypes' /\ Inferred'
    BY <2>1, <2>4, <2>5 DEF DeployTypes, Inferred
  <2> QED
    BY <2>7, <2>8
<1>4. CASE DeployStep
  <2>1. /\ UNCHANGED <<declared, reads, deps, order, result, team>>
        /\ result = "deploy" /\ steps # <<>>
        /\ deployed' = Append(deployed, Head(steps)) /\ steps' = Tail(steps)
    BY <1>4 DEF DeployStep, input, sorting
  <2>2. deployed \in Seq(Node) /\ steps \in Seq(Node)
    BY DEF DeployTypes
  <2>3. deployed' \o steps' = deployed \o steps
    BY <2>1, <2>2, NextStep
  <2>4. deployed' \in Seq(Node) /\ steps' \in Seq(Node)
    BY <2>1, <2>2, Taking, Appending
  <2> QED
    BY <2>1, <2>3, <2>4 DEF DeployTypes, Inferred, Narrowed
<1>5. CASE DeployEnds
  BY <1>5 DEF DeployEnds, input, sorting, deploying, DeployTypes, Inferred,
              Narrowed
<1> QED
  BY <1>1, <1>2, <1>3, <1>4, <1>5 DEF Next

LEMMA AlwaysDeployInv == Spec => [](Inv /\ DeployInv)
<1>1. Spec => []Inv /\ DeployInv /\ [][Next]_vars
  BY AlwaysInv, DeployInitially DEF Spec
<1>2. Spec => []DeployInv
  BY <1>1, DeployInvKept, PTL
<1> QED
  BY <1>2, AlwaysInv, PTL

(* Every variable keeps its type.                                          *)
THEOREM TypesKept == Spec => []TypeOK
<1>1. Inv /\ DeployInv => TypeOK
  BY DEF Inv, SortTypes, DeployInv, DeployTypes, TypeOK
<1> QED
  BY <1>1, AlwaysDeployInv, PTL

(* filterStepsByOwner keeps the order of the plan and the engine takes the *)
(* steps one by one: what a deployed manifest depends on, declared or      *)
(* read, is deployed before it unless the filter leaves it out.            *)
THEOREM DependenciesDeployedFirst == Spec => []DeployedAfterDependencies
<1>1. ASSUME Inv, DeployInv PROVE DeployedAfterDependencies
  <2> DEFINE q == deployed \o steps
  <2>1. /\ deployed \in Seq(Node) /\ steps \in Seq(Node) /\ order \in Seq(Node)
    BY <1>1 DEF Inv, SortTypes, DeployInv, DeployTypes
  <2>2. /\ Len(deployed) \in Nat /\ Len(steps) \in Nat
        /\ Len(q) = Len(deployed) + Len(steps)
        /\ \A i \in 1 .. Len(deployed) : q[i] = deployed[i]
    BY <2>1, ConcatProperties, LenProperties
  <2> SUFFICES ASSUME NEW i \in 1 .. Len(deployed),
                      NEW m \in (declared[deployed[i]] \cup reads[deployed[i]])
                                   \cap Node,
                      team = NoTeam \/ OwnerOf[m] = team
               PROVE  \E j \in 1 .. i - 1 : deployed[j] = m
    BY DEF DeployedAfterDependencies
  <2>3. result \in {"deploy", "done"} /\ q \in Selected(order, team)
    <3>1. deployed # <<>>
      BY <2>1, <2>2, EmptySeq
    <3> QED
      BY <1>1, <3>1 DEF DeployInv, Narrowed
  <2> HIDE DEF q
  <2>4. PICK kept \in [1 .. Len(q) -> 1 .. Len(order)] :
          /\ \A k \in 1 .. Len(q) : q[k] = order[kept[k]]
          /\ \A a, b \in 1 .. Len(q) : a < b => kept[a] < kept[b]
          /\ {kept[k] : k \in 1 .. Len(q)} = Kept(order, team)
    BY <2>1, <2>3, Selection
  <2>5. i \in 1 .. Len(q) /\ deployed[i] = order[kept[i]] /\ deployed[i] \in Node
    BY <2>1, <2>2, <2>4, ElementOfSeq
  <2>6. m \in deps[order[kept[i]]] \cap Node
    BY <1>1, <2>3, <2>5 DEF DeployInv, Inferred
  <2>7. PICK j \in 1 .. kept[i] - 1 : m = order[j]
    BY <1>1, <2>4, <2>5, <2>6 DEF Inv, DependenciesFirst
  <2>8. kept[i] \in 1 .. Len(order) /\ Len(order) \in Nat
    BY <2>1, <2>4, <2>5, LenProperties
  <2>9. j \in Kept(order, team) /\ j < kept[i]
    BY <2>7, <2>8 DEF Kept
  <2>10. PICK k \in 1 .. Len(q) : kept[k] = j
    BY <2>4, <2>9
  <2>11. k < i
    <3> SUFFICES ASSUME ~(k < i) PROVE FALSE
      OBVIOUS
    <3>1. k = i \/ i < k
      BY <2>2, <2>5
    <3>2. kept[i] <= kept[k]
      BY <2>4, <2>5, <2>8, <3>1
    <3> QED
      BY <2>7, <2>8, <2>9, <2>10, <3>2
  <2>12. k \in 1 .. i - 1 /\ k \in 1 .. Len(deployed)
    BY <2>2, <2>10, <2>11
  <2> QED
    BY <2>2, <2>4, <2>7, <2>10, <2>12
<1> QED
  BY <1>1, AlwaysDeployInv, PTL

(* Each step goes to the engine when nothing it depends on is left to      *)
(* deploy: what the deploy loop relies on, since it starts a step without  *)
(* looking at its dependencies (internal/engine/engine.go).                *)
THEOREM StepsAreReady ==
  Spec => [][DeployStep => deps[Head(steps)] \cap Elements(steps) = {}]_vars
<1>1. ASSUME Inv, DeployInv, DeployStep, NEW m \in deps[Head(steps)],
             m \in Elements(steps)
      PROVE  FALSE
  <2> DEFINE q == deployed \o steps
             i == Len(deployed) + 1
  <2>1. /\ deployed \in Seq(Node) /\ steps \in Seq(Node) /\ order \in Seq(Node)
        /\ OneToOne(order) /\ DependenciesFirst
    BY <1>1 DEF Inv, SortTypes, SortSound, Distinct, DeployInv, DeployTypes
  <2>2. /\ Len(deployed) \in Nat /\ Len(steps) \in Nat \ {0}
        /\ Len(order) \in Nat
        /\ Len(q) = Len(deployed) + Len(steps)
        /\ \A k \in 1 .. Len(deployed) + Len(steps) :
             q[k] = IF k <= Len(deployed) THEN deployed[k]
                                          ELSE steps[k - Len(deployed)]
        /\ Head(steps) = steps[1]
    <3>1. steps # <<>>
      BY <1>1 DEF DeployStep
    <3> QED
      BY <2>1, <3>1, ConcatProperties, LenProperties, EmptySeq
  <2>3. q \in Selected(order, team)
    BY <1>1 DEF DeployStep, DeployInv, Narrowed
  <2>4. PICK l \in 1 .. Len(steps) : m = steps[l]
    BY <1>1 DEF Elements
  <2>5. /\ i \in 1 .. Len(q) /\ q[i] = Head(steps)
        /\ Len(deployed) + l \in 1 .. Len(q) /\ q[Len(deployed) + l] = m
        /\ i <= Len(deployed) + l
    BY <2>2, <2>4
  <2>6. PICK j \in 1 .. Len(q) : q[j] = m /\ i <= j
    BY <2>5
  <2> HIDE DEF q, i
  <2>7. PICK kept \in [1 .. Len(q) -> 1 .. Len(order)] :
          /\ \A k \in 1 .. Len(q) : q[k] = order[kept[k]]
          /\ \A a, b \in 1 .. Len(q) : a < b => kept[a] < kept[b]
    BY <2>1, <2>3, Selection
  <2>8. /\ kept[i] \in 1 .. Len(order) /\ kept[j] \in 1 .. Len(order)
        /\ Head(steps) = order[kept[i]] /\ m = order[kept[j]]
    BY <2>5, <2>6, <2>7
  <2>9. kept[i] <= kept[j]
    <3>1. CASE i = j
      BY <2>2, <2>8, <3>1
    <3>2. CASE i # j
      <4>1. i < j
        BY <2>2, <2>5, <2>6, <3>2 DEF i
      <4> QED
        BY <2>2, <2>5, <2>7, <2>8, <4>1
    <3> QED
      BY <3>1, <3>2
  <2>10. m \in Node
    BY <2>1, <2>8, ElementOfSeq
  <2>11. PICK k \in 1 .. kept[i] - 1 : m = order[k]
    <3>1. DependenciesFirst /\ m \in deps[order[kept[i]]]
      BY <1>1, <2>1, <2>8
    <3> QED
      BY <2>8, <2>10, <3>1 DEF DependenciesFirst
  <2>12. k \in 1 .. Len(order) /\ k # kept[j]
    BY <2>2, <2>8, <2>9, <2>11
  <2> QED
    BY <2>1, <2>8, <2>11, <2>12 DEF OneToOne
<1>2. Inv /\ DeployInv /\ [Next]_vars =>
        [DeployStep => deps[Head(steps)] \cap Elements(steps) = {}]_vars
  BY <1>1
<1> QED
  BY <1>2, AlwaysDeployInv, PTL DEF Spec

-----------------------------------------------------------------------------
(***************************************************************************)
(* The end of the sort.  A node taken adds at most the other nodes to      *)
(* visit; a visit frees at most one.                                       *)
(***************************************************************************)

Work ==
  (Cardinality(Node) - Len(order)) * (2 * Cardinality(Node) + 1)
    + 2 * Cardinality(visiting) + Cardinality(freed)

LEMMA OneLess ==
  ASSUME NEW x \in Nat, NEW y \in Nat
  PROVE  (x - 1) * y = x * y - y /\ x * y \in Nat
<1>1. x * y \in Nat
  OBVIOUS
<1>2. (x - 1) * y = x * y - y
  BY SMTT(60)
<1> QED
  BY <1>1, <1>2

LEMMA Sizes ==
  ASSUME NEW V \in SUBSET Node
  PROVE  IsFiniteSet(V) /\ Cardinality(V) \in 0 .. Cardinality(Node)
<1>1. /\ Cardinality(Node) \in Nat /\ IsFiniteSet(V)
      /\ Cardinality(V) <= Cardinality(Node) /\ Cardinality(V) \in Nat
  BY PlanOrderAssumption, FS_Subset, FS_CardinalityType
<1> QED
  BY <1>1

LEMMA OrderSize ==
  ASSUME Inv
  PROVE  Cardinality(Node) \in Nat /\ Len(order) \in 0 .. Cardinality(Node)
<1>1. order \in Seq(Node) /\ Len(order) = Cardinality(Elements(order))
  BY DEF Inv, SortTypes, SortSound, Measured
<1>2. Elements(order) \in SUBSET Node
  BY <1>1, ElementsAreNodes
<1> QED
  BY <1>1, <1>2, Sizes, PlanOrderAssumption, FS_CardinalityType

(* topo.Sort ends for every graph, a cyclic one included: each step of its *)
(* loop leaves less to do, and until it ends it has a step to take.        *)
THEOREM SortTerminates ==
  Spec => /\ [](Work \in Nat)
          /\ [][result = "sort" /\ result' = "sort" => Work' < Work]_vars
          /\ [](result = "sort" => \/ SortEnds
                                   \/ visiting # {}
                                   \/ queue # <<>> /\ freed = {}
                                   \/ SortedSeqs(freed) # {} /\ freed # {})
<1>1. ASSUME Inv PROVE Work \in Nat
  <2> DEFINE a == Cardinality(Node) - Len(order)
             b == 2 * Cardinality(Node) + 1
  <2>1. a \in Nat /\ b \in Nat
    BY <1>1, OrderSize
  <2>2. a * b \in Nat
    BY <2>1
  <2>3. Cardinality(visiting) \in Nat /\ Cardinality(freed) \in Nat
    BY <1>1, Sizes DEF Inv, SortTypes
  <2> HIDE DEF a, b
  <2>4. a * b + 2 * Cardinality(visiting) + Cardinality(freed) \in Nat
    BY <2>2, <2>3
  <2> QED
    BY <2>4 DEF Work, a, b
<1>2. ASSUME Inv, Inv', TakeNode PROVE Work' < Work
  <2> DEFINE a == Cardinality(Node) - Len(order)
             b == 2 * Cardinality(Node) + 1
  <2>1. /\ visiting = {} /\ freed = {} /\ freed' = {} /\ queue # <<>>
        /\ order' = Append(order, Head(queue))
    BY <1>2 DEF TakeNode
  <2>2. Cardinality(visiting) = 0 /\ Cardinality(freed) = 0 /\ Cardinality(freed') = 0
    BY <2>1, FS_EmptySet
  <2>3. Len(order') = Len(order) + 1
    BY <1>2, <2>1, Appending, Taking DEF Inv, SortTypes
  <2>4. Cardinality(visiting') \in 0 .. Cardinality(Node)
    BY <1>2, Sizes DEF Inv, SortTypes
  <2>5. a \in Nat /\ b \in Nat /\ Cardinality(Node) - Len(order') = a - 1
        /\ Cardinality(Node) \in Nat
    BY <1>2, <2>3, OrderSize
  <2>6. (a - 1) * b = a * b - b /\ a * b \in Nat
    BY <2>5, OneLess
  <2>7. Work = a * b + 2 * 0 + 0
    BY <2>2 DEF Work
  <2>8. Work' = (a - 1) * b + 2 * Cardinality(visiting') + 0
    BY <2>2, <2>5 DEF Work
  <2>9. 2 * Cardinality(visiting') < b
    BY <2>4, <2>5
  <2> HIDE DEF a, b
  <2> QED
    BY <2>4, <2>5, <2>6, <2>7, <2>8, <2>9
<1>3. ASSUME Inv, Inv', VisitDependent \/ EnqueueFreed PROVE Work' < Work
  <2> DEFINE c == (Cardinality(Node) - Len(order)) * (2 * Cardinality(Node) + 1)
  <2>1. order' = order
    BY <1>3 DEF VisitDependent, EnqueueFreed
  <2>2. c \in Int
    <3>1. Cardinality(Node) \in Int /\ Len(order) \in Int
      BY <1>3, OrderSize
    <3> QED
      BY <3>1
  <2>3. /\ Work = c + 2 * Cardinality(visiting) + Cardinality(freed)
        /\ Work' = c + 2 * Cardinality(visiting') + Cardinality(freed')
    BY <2>1 DEF Work
  <2> HIDE DEF c
  <2> DEFINE Sized(V) == IsFiniteSet(V) /\ Cardinality(V) \in Nat
  <2>4. Sized(visiting) /\ Sized(freed) /\ Sized(visiting') /\ Sized(freed')
    BY <1>3, Sizes DEF Inv, SortTypes
  <2>5. CASE VisitDependent
    <3>1. PICK n \in visiting : visiting' = visiting \ {n}
                               /\ freed' \in {freed, freed \cup {n}}
      BY <2>5 DEF VisitDependent
    <3>2. Cardinality(visiting') = Cardinality(visiting) - 1
      BY <2>4, <3>1, FS_RemoveElement
    <3>3. Cardinality(freed') <= Cardinality(freed) + 1
      BY <2>4, <3>1, FS_AddElement
    <3> QED
      BY <2>2, <2>3, <2>4, <3>2, <3>3
  <2>6. CASE EnqueueFreed
    <3>1. freed # {} /\ freed' = {} /\ visiting' = visiting
      BY <2>6 DEF EnqueueFreed
    <3>2. Cardinality(freed) # 0 /\ Cardinality(freed') = 0
      BY <2>4, <3>1, FS_EmptySet
    <3> QED
      BY <2>2, <2>3, <2>4, <3>1, <3>2
  <2> QED
    BY <1>3, <2>5, <2>6
<1>4. ASSUME Inv, Inv', Next, result = "sort", result' = "sort"
      PROVE  Work' < Work
  <2>1. TakeNode \/ VisitDependent \/ EnqueueFreed
    BY <1>4 DEF Next, EnrichmentFails, StartSort, CycleFound, StartDeploy,
                DeployStep, DeployEnds
  <2> QED
    BY <1>2, <1>3, <1>4, <2>1
<1>5. ASSUME Inv, result = "sort", ~SortEnds, visiting = {}
      PROVE  \/ queue # <<>> /\ freed = {}
             \/ SortedSeqs(freed) # {} /\ freed # {}
  <2>1. freed \in SUBSET Nat /\ IsFiniteSet(freed)
    BY <1>5, Sizes, PlanOrderAssumption DEF Inv, SortTypes
  <2> QED
    BY <1>5, <2>1, EnumerationExists DEF SortEnds
<1>6. Inv /\ Inv' /\ [Next]_vars =>
        [result = "sort" /\ result' = "sort" => Work' < Work]_vars
  BY <1>4
<1>7. Inv => (result = "sort" => \/ SortEnds
                                 \/ visiting # {}
                                 \/ queue # <<>> /\ freed = {}
                                 \/ SortedSeqs(freed) # {} /\ freed # {})
  BY <1>5
<1> QED
  BY <1>1, <1>6, <1>7, AlwaysInv, PTL DEF Spec
=============================================================================
