--------------------------- MODULE DataflowProofs ---------------------------
(***************************************************************************)
(* The invariants of Dataflow and the properties of the program that is    *)
(* emitted for its document, proved for every contract and document.       *)
(***************************************************************************)
EXTENDS Emit, FiniteSetTheorems, WellFoundedInduction, TLAPS

Sorting == pc = "sort" \/ Ordered

Placed == {listed[k] : k \in 1 .. placed}
Pending(n) == {b \in Into(n) : b.from.instance \notin Placed}

\* The counts are right, the list holds the instances with nothing pending,
\* and the suppliers of a listed instance were placed before it.
CountsRight == \A n \in Nodes : indegree[n] = Cardinality(Pending(n))
ListedAreReady ==
  \A n \in Nodes : (\E k \in 1 .. Len(listed) : listed[k] = n) <=> Pending(n) = {}
SuppliersBefore ==
  \A k \in 1 .. Len(listed) : \A b \in Into(listed[k]) :
    \E j \in 1 .. placed : j < k /\ listed[j] = b.from.instance
TangledNotPlaced == \A S \in SUBSET Nodes : Tangled(project, S) => S \cap Placed = {}

SortInv ==
  /\ project \in Documents
  /\ TypeOK
  /\ EachOnce
  /\ Sorting => /\ PassesOk(project)
                /\ CountsRight
                /\ ListedAreReady
                /\ SuppliersBefore
                /\ TangledNotPlaced
  /\ Ordered => placed = Len(listed) /\ placed = Cardinality(Nodes)
  /\ pc = "validate" => listed = <<>> /\ placed = 0
  /\ pc = "invalid" => ~PassesOk(project) \/ \E S \in SUBSET Nodes : Tangled(project, S)

Over == {"seeded", "skipped", "executed"}

\* The instances before `pos` are over with, the others are not.
RunInv ==
  /\ ~Ordered => pos = 1 /\ \A n \in Nodes : fate[n] = "todo"
  /\ Ordered => \A k \in 1 .. Len(listed) : fate[listed[k]] \in Over <=> k < pos
  /\ pc = "run" => \A k \in 1 .. Len(listed) : fate[listed[k]] # "failed"
  /\ \A n \in Nodes : fate[n] = "seeded" =>
       \A path \in OutputPaths(n) : value[path] # "none"
  /\ ReadsAreFinal
  /\ MissingInputIsExplained

-----------------------------------------------------------------------------
(* Lemmas *)

\* A document's sets are finite and its ids are ordered.
LEMMA DocumentFinite ==
  ASSUME project \in Documents
  PROVE  /\ IsFiniteSet(Nodes)
         /\ Nodes \subseteq Id
         /\ Id \subseteq Int
         /\ \A n : IsFiniteSet(Into(n))
         /\ \A m, n : IsFiniteSet(Between(m, n))
         /\ project.bindings \subseteq Binding
<1>1. IsFiniteSet(Nodes) /\ IsFiniteSet(project.bindings) /\ project \in Project
  BY DocumentsAssumption DEF Nodes
<1>2. ASSUME NEW n PROVE IsFiniteSet(Into(n))
  <2>1. Into(n) \in SUBSET project.bindings
    BY DEF Into, Edges
  <2> QED BY <1>1, <2>1, FS_Subset
<1>3. ASSUME NEW m, NEW n PROVE IsFiniteSet(Between(m, n))
  <2>1. Between(m, n) \in SUBSET Into(n)
    BY DEF Between
  <2> QED BY <1>2, <2>1, FS_Subset
<1>4. project.instances \in UNION {[S -> Instance] : S \in SUBSET Id}
      /\ project.bindings \in SUBSET Binding
  BY <1>1 DEF Project
<1>5. PICK S \in SUBSET Id : project.instances \in [S -> Instance]
  BY <1>4
<1> QED BY <1>1, <1>2, <1>3, <1>4, <1>5, GraphAssumption DEF Nodes, Instances

\* The sorted sequence of a finite set of integers lists each element once.
LEMMA SortedLists ==
  ASSUME NEW S, IsFiniteSet(S), S \subseteq Int, NEW s \in Sorted(S)
  PROVE  /\ s \in Seq(S)
         /\ \A x \in S : \E k \in 1 .. Len(s) : s[k] = x
         /\ \A k \in 1 .. Len(s) : s[k] \in S
         /\ \A j, k \in 1 .. Len(s) : s[j] = s[k] => j = k
<1>1. Cardinality(S) \in Nat
  BY FS_CardinalityType
<1>2. s \in [1 .. Cardinality(S) -> S] /\ {s[k] : k \in DOMAIN s} = S
      /\ \A j, k \in DOMAIN s : j < k => s[j] < s[k]
  BY DEF Sorted
<1>3. s \in Seq(S) /\ Len(s) = Cardinality(S) /\ DOMAIN s = 1 .. Len(s)
  BY <1>1, <1>2
<1>4. \A k \in 1 .. Len(s) : s[k] \in S
  BY <1>2, <1>3
<1>5. ASSUME NEW j \in 1 .. Len(s), NEW k \in 1 .. Len(s), s[j] = s[k] PROVE j = k
  <2>1. j \in Int /\ k \in Int
    OBVIOUS
  <2>4. s[j] \in Int /\ s[k] \in Int
    <3>1. s[j] \in S /\ s[k] \in S
      BY <1>4
    <3> QED BY <3>1
  <2>2. j < k => s[j] < s[k]
    BY <1>2, <1>3
  <2>3. k < j => s[k] < s[j]
    BY <1>2, <1>3
  <2> QED BY <2>1, <2>2, <2>3, <2>4, <1>5
<1>6. \A x \in S : \E k \in 1 .. Len(s) : s[k] = x
  BY <1>2, <1>3
<1> QED BY <1>3, <1>4, <1>5, <1>6

\* Appending keeps the list's elements and adds the new ones after them.
LEMMA Appended ==
  ASSUME NEW S, NEW s \in Seq(S), NEW t \in Seq(S)
  PROVE  /\ s \o t \in Seq(S)
         /\ Len(s \o t) = Len(s) + Len(t)
         /\ Len(s) \in Nat /\ Len(t) \in Nat
         /\ \A k \in 1 .. Len(s) : (s \o t)[k] = s[k]
         /\ \A k \in 1 .. Len(t) : (s \o t)[Len(s) + k] = t[k]
         /\ \A k \in (Len(s) + 1) .. (Len(s) + Len(t)) :
              (s \o t)[k] = t[k - Len(s)] /\ k - Len(s) \in 1 .. Len(t)
  OBVIOUS

\* Nothing about the document changes, so neither does what feeds what.
LEMMA DocumentFixed ==
  ASSUME project' = project
  PROVE  /\ Nodes' = Nodes
         /\ \A n : Into(n)' = Into(n)
         /\ \A m, n : Between(m, n)' = Between(m, n)
         /\ \A S : Tangled(project, S)' <=> Tangled(project, S)
         /\ PassesOk(project)' <=> PassesOk(project)
  BY DEF Nodes, Instances, Into, Edges, Between, Tangled, Feeds, PassesOk, CapabilitiesKnown,
         EntrypointExists, BindingsRunOutToIn, OneProducer, RequiredBound, ConfigOk,
         IsOutput, IsInput, Producers, ContractOf

-----------------------------------------------------------------------------
(* Placing the front of the queue *)

\* What the loop over the targets of the instance popped leaves pending.
LEMMA PlaceCounts ==
  ASSUME SortInv, Place
  PROVE  LET m == listed[placed + 1] IN
         /\ m \in Nodes /\ m \notin Placed
         /\ Placed' = Placed \cup {m}
         /\ \A n \in Nodes :
              /\ Between(m, n) \subseteq Pending(n)
              /\ Pending(n)' = Pending(n) \ Between(m, n)
              /\ IsFiniteSet(Pending(n)')
              /\ Cardinality(Pending(n)') = indegree[n] - Cardinality(Between(m, n))
              /\ n \in Released(m) <=> Pending(n)' = {} /\ Pending(n) # {}
<1> DEFINE m == listed[placed + 1]
<1>1. /\ project \in Documents /\ project' = project
      /\ listed \in Seq(Nodes) /\ placed \in 0 .. Len(listed) /\ placed < Len(listed)
      /\ placed' = placed + 1
      /\ EachOnce /\ CountsRight
  BY DEF SortInv, TypeOK, Place, Sorting
<1>2. PICK nexts \in Sorted(Released(m)) : listed' = listed \o nexts
  BY DEF Place
<1>3. m \in Nodes /\ placed + 1 \in 1 .. Len(listed) /\ DOMAIN listed = 1 .. Len(listed)
  BY <1>1
<1>4. m \notin Placed
  BY <1>1, <1>3 DEF Placed, EachOnce
<1>5. nexts \in Seq(Nodes)
  <2>1. Released(m) \in SUBSET Nodes
    BY DEF Released
  <2>2. IsFiniteSet(Released(m)) /\ Released(m) \subseteq Int
    BY <2>1, <1>1, DocumentFinite, FS_Subset
  <2>3. nexts \in Seq(Released(m))
    BY <2>2, SortedLists
  <2> QED BY <2>1, <2>3
<1>6. \A k \in 1 .. Len(listed) : listed'[k] = listed[k]
  BY <1>1, <1>2, <1>5, Appended
<1>7. Placed' = Placed \cup {m}
  BY <1>1, <1>3, <1>6 DEF Placed
<1>8. ASSUME NEW n \in Nodes
      PROVE  /\ Between(m, n) \subseteq Pending(n)
             /\ Pending(n)' = Pending(n) \ Between(m, n)
             /\ IsFiniteSet(Pending(n)')
             /\ Cardinality(Pending(n)') = indegree[n] - Cardinality(Between(m, n))
             /\ n \in Released(m) <=> Pending(n)' = {} /\ Pending(n) # {}
  <2>1. Between(m, n) \subseteq Pending(n)
    BY <1>4 DEF Between, Pending
  <2>2. Pending(n)' = Pending(n) \ Between(m, n)
    BY <1>1, <1>7, DocumentFixed DEF Pending, Between
  <2>3. IsFiniteSet(Pending(n)) /\ IsFiniteSet(Between(m, n)) /\ IsFiniteSet(Pending(n)')
    <3>1. Pending(n) \in SUBSET Into(n) /\ Pending(n)' \in SUBSET Into(n)
      BY <2>2 DEF Pending
    <3> QED BY <3>1, <1>1, DocumentFinite, FS_Subset
  <2>4. Cardinality(Pending(n)) = Cardinality(Pending(n)') + Cardinality(Between(m, n))
    <3>1. Pending(n) = Pending(n)' \cup Between(m, n) /\ Pending(n)' \cap Between(m, n) = {}
      BY <2>1, <2>2
    <3>2. /\ Cardinality(Pending(n)') \in Nat
          /\ Cardinality(Between(m, n)) \in Nat
          /\ Cardinality(Pending(n)' \cap Between(m, n)) = 0
      BY <2>3, <3>1, FS_CardinalityType, FS_EmptySet
    <3>3. Cardinality(Pending(n)' \cup Between(m, n)) =
            Cardinality(Pending(n)') + Cardinality(Between(m, n))
              - Cardinality(Pending(n)' \cap Between(m, n))
      BY <2>3, FS_Union
    <3> QED BY <3>1, <3>2, <3>3
  <2>5. indegree[n] = Cardinality(Pending(n))
    BY <1>1 DEF CountsRight
  <2>6. /\ Cardinality(Pending(n)') \in Nat /\ Cardinality(Between(m, n)) \in Nat
        /\ Cardinality(Pending(n)') = 0 <=> Pending(n)' = {}
    BY <2>3, FS_CardinalityType, FS_EmptySet
  <2>7. n \in Released(m) <=> Between(m, n) # {} /\ indegree[n] = Cardinality(Between(m, n))
    BY DEF Released
  <2> QED BY <2>1, <2>2, <2>3, <2>4, <2>5, <2>6, <2>7
<1> QED BY <1>3, <1>4, <1>7, <1>8

\* Placing the front of the queue keeps the list right.
LEMMA PlaceKeeps == SortInv /\ Place => SortInv'
<1> SUFFICES ASSUME SortInv, Place PROVE SortInv'
  OBVIOUS
<1> DEFINE m == listed[placed + 1]
<1>1. /\ project \in Documents /\ project' = project /\ pc = "sort" /\ pc' = pc
      /\ TypeOK /\ PassesOk(project)
      /\ listed \in Seq(Nodes) /\ placed \in 0 .. Len(listed) /\ placed < Len(listed)
      /\ placed' = placed + 1
      /\ EachOnce /\ CountsRight /\ ListedAreReady /\ SuppliersBefore /\ TangledNotPlaced
      /\ indegree' = [n \in Nodes |-> indegree[n] - Cardinality(Between(m, n))]
      /\ UNCHANGED runVars
  BY DEF SortInv, TypeOK, Place, Sorting
<1>2. PICK nexts \in Sorted(Released(m)) : listed' = listed \o nexts
  BY DEF Place
<1>3. /\ m \in Nodes /\ m \notin Placed
      /\ Placed' = Placed \cup {m}
      /\ \A n \in Nodes :
           /\ Between(m, n) \subseteq Pending(n)
           /\ Pending(n)' = Pending(n) \ Between(m, n)
           /\ IsFiniteSet(Pending(n)')
           /\ Cardinality(Pending(n)') = indegree[n] - Cardinality(Between(m, n))
           /\ n \in Released(m) <=> Pending(n)' = {} /\ Pending(n) # {}
  BY PlaceCounts
<1>4. /\ Nodes' = Nodes /\ IsFiniteSet(Nodes)
      /\ \A n : Into(n)' = Into(n)
      /\ \A S : Tangled(project, S)' <=> Tangled(project, S)
      /\ PassesOk(project)'
  BY <1>1, DocumentFixed, DocumentFinite
<1>5. /\ nexts \in Seq(Nodes)
      /\ \A x \in Released(m) : \E k \in 1 .. Len(nexts) : nexts[k] = x
      /\ \A k \in 1 .. Len(nexts) : nexts[k] \in Released(m)
      /\ \A j, k \in 1 .. Len(nexts) : nexts[j] = nexts[k] => j = k
  <2>1. Released(m) \in SUBSET Nodes
    BY DEF Released
  <2>2. IsFiniteSet(Released(m)) /\ Released(m) \subseteq Int
    BY <2>1, <1>1, DocumentFinite, FS_Subset
  <2>3. nexts \in Seq(Released(m))
    BY <2>2, SortedLists
  <2>4. nexts \in Seq(Nodes)
    BY <2>1, <2>3
  <2> QED BY <2>2, <2>4, SortedLists
<1>6. /\ listed' \in Seq(Nodes)
      /\ Len(listed) \in Nat /\ Len(nexts) \in Nat
      /\ Len(listed') = Len(listed) + Len(nexts)
      /\ \A k \in 1 .. Len(listed) : listed'[k] = listed[k]
      /\ \A k \in 1 .. Len(nexts) : listed'[Len(listed) + k] = nexts[k]
      /\ \A k \in (Len(listed) + 1) .. (Len(listed) + Len(nexts)) :
           listed'[k] = nexts[k - Len(listed)] /\ k - Len(listed) \in 1 .. Len(nexts)
      /\ DOMAIN listed' = 1 .. Len(listed')
      /\ DOMAIN listed = 1 .. Len(listed)
  BY <1>1, <1>2, <1>5, Appended
\* What was on the list stays where it is; what is new was released by `m`.
<1>7. \A k \in 1 .. Len(listed') :
        \/ k \in 1 .. Len(listed) /\ listed'[k] = listed[k]
        \/ /\ k \notin 1 .. Len(listed) /\ k > Len(listed)
           /\ listed'[k] \in Released(m) /\ listed'[k] = nexts[k - Len(listed)]
           /\ k - Len(listed) \in 1 .. Len(nexts)
  <2> SUFFICES ASSUME NEW k \in 1 .. Len(listed'), k \notin 1 .. Len(listed)
               PROVE  /\ k > Len(listed)
                      /\ listed'[k] \in Released(m)
                      /\ listed'[k] = nexts[k - Len(listed)]
                      /\ k - Len(listed) \in 1 .. Len(nexts)
    BY <1>6
  <2>1. k > Len(listed) /\ k \in (Len(listed) + 1) .. (Len(listed) + Len(nexts))
    BY <1>6
  <2>2. listed'[k] = nexts[k - Len(listed)] /\ k - Len(listed) \in 1 .. Len(nexts)
    BY <1>6, <2>1
  <2> QED BY <1>5, <2>1, <2>2
<1>8. \A k \in 1 .. Len(listed) : listed[k] \in Nodes /\ Pending(listed[k]) = {}
  BY <1>1, <1>6 DEF ListedAreReady
<1>9. CountsRight'
  BY <1>1, <1>3, <1>4 DEF CountsRight
<1>10. EachOnce'
  <2> SUFFICES ASSUME NEW j \in 1 .. Len(listed'), NEW k \in 1 .. Len(listed'),
                      listed'[j] = listed'[k]
               PROVE  j = k
    BY <1>6 DEF EachOnce
  <2>1. \A i \in 1 .. Len(listed) : listed[i] \notin Released(m)
    BY <1>3, <1>8
  <2>2. CASE j \in 1 .. Len(listed) /\ k \in 1 .. Len(listed)
    BY <2>2, <1>1, <1>6 DEF EachOnce
  <2>3. CASE j \notin 1 .. Len(listed) /\ k \notin 1 .. Len(listed)
    <3>1. /\ j - Len(listed) \in 1 .. Len(nexts) /\ k - Len(listed) \in 1 .. Len(nexts)
          /\ nexts[j - Len(listed)] = nexts[k - Len(listed)]
      BY <2>3, <1>7
    <3>2. j - Len(listed) = k - Len(listed)
      BY <3>1, <1>5
    <3> QED BY <3>2, <1>6
  <2> QED BY <2>1, <2>2, <2>3, <1>7
<1>11. ListedAreReady'
  <2> SUFFICES ASSUME NEW n \in Nodes
               PROVE  (\E k \in 1 .. Len(listed') : listed'[k] = n) <=> Pending(n)' = {}
    BY <1>4 DEF ListedAreReady
  <2>1. ASSUME NEW k \in 1 .. Len(listed'), listed'[k] = n PROVE Pending(n)' = {}
    BY <2>1, <1>3, <1>7, <1>8
  <2>2. ASSUME Pending(n)' = {}, Pending(n) = {}
        PROVE  \E k \in 1 .. Len(listed') : listed'[k] = n
    <3>1. PICK k \in 1 .. Len(listed) : listed[k] = n
      BY <2>2, <1>1 DEF ListedAreReady
    <3> QED BY <3>1, <1>6
  <2>3. ASSUME Pending(n)' = {}, Pending(n) # {}
        PROVE  \E k \in 1 .. Len(listed') : listed'[k] = n
    <3>1. PICK k \in 1 .. Len(nexts) : nexts[k] = n
      BY <2>3, <1>3, <1>5
    <3> QED BY <3>1, <1>6
  <2> QED BY <2>1, <2>2, <2>3
<1>12. SuppliersBefore'
  <2> SUFFICES ASSUME NEW k \in 1 .. Len(listed'), NEW b \in Into(listed'[k])
               PROVE  \E j \in 1 .. placed' : j < k /\ listed'[j] = b.from.instance
    BY <1>4 DEF SuppliersBefore
  <2>1. 1 .. placed \subseteq 1 .. Len(listed) /\ 1 .. placed \subseteq 1 .. placed'
    BY <1>1
  <2>2. CASE k \in 1 .. Len(listed)
    <3>1. PICK j \in 1 .. placed : j < k /\ listed[j] = b.from.instance
      BY <2>2, <1>1, <1>6 DEF SuppliersBefore
    <3> QED BY <3>1, <2>1, <1>6
  <2>3. CASE k \notin 1 .. Len(listed)
    <3>1. k > Len(listed) /\ listed'[k] \in Released(m)
      BY <2>3, <1>7
    <3>2. listed'[k] \in Nodes
      BY <3>1 DEF Released
    <3>3. b.from.instance \in Placed'
      BY <1>3, <1>4, <3>1, <3>2 DEF Pending
    <3>4. PICK j \in 1 .. placed' : listed'[j] = b.from.instance
      BY <3>3 DEF Placed
    <3>5. j < k
      BY <3>1, <3>4, <1>1, <1>6
    <3> QED BY <3>4, <3>5
  <2> QED BY <2>2, <2>3
<1>13. TangledNotPlaced'
  <2> SUFFICES ASSUME NEW S \in SUBSET Nodes, Tangled(project, S), m \in S PROVE FALSE
    BY <1>1, <1>3, <1>4 DEF TangledNotPlaced
  <2>1. PICK n \in S : m # n /\ Feeds(project, n, m)
    BY DEF Tangled
  <2>2. PICK b \in project.bindings : b.from.instance = n /\ b.to.instance = m
    BY <2>1 DEF Feeds
  <2>3. b \in Into(m)
    BY <2>1, <2>2, <1>3 DEF Into, Edges
  <2>4. Pending(m) = {}
    <3>1. placed + 1 \in 1 .. Len(listed)
      BY <1>1, <1>6
    <3> QED BY <3>1, <1>8
  <2>5. n \in Placed
    BY <2>2, <2>3, <2>4 DEF Pending
  <2> QED BY <2>1, <2>5, <1>1 DEF TangledNotPlaced
<1>14. TypeOK'
  <2>1. indegree' \in [Nodes -> Nat]
    BY <1>1, <1>3, <1>4, FS_CardinalityType
  <2>2. placed' \in 0 .. Len(listed') /\ pos' \in 1 .. Len(listed') + 1
    BY <1>1, <1>6 DEF TypeOK, runVars
  <2> QED BY <1>1, <1>4, <1>6, <2>1, <2>2 DEF TypeOK, runVars
<1>15. ~Ordered'
  BY <1>1 DEF Ordered
<1> QED
  BY <1>1, <1>4, <1>9, <1>10, <1>11, <1>12, <1>13, <1>14, <1>15 DEF SortInv, Sorting

-----------------------------------------------------------------------------
(* The order *)

\* A sort that ends short of an instance leaves a tangle of those it missed.
LEMMA CyclicKeeps == SortInv /\ Cyclic => SortInv'
<1> SUFFICES ASSUME SortInv, Cyclic PROVE SortInv'
  OBVIOUS
<1>1. /\ project \in Documents /\ project' = project /\ pc' = "invalid" /\ TypeOK
      /\ placed = Len(listed) /\ placed # Cardinality(Nodes)
      /\ listed \in Seq(Nodes) /\ EachOnce /\ ListedAreReady
      /\ UNCHANGED <<sortVars, runVars>>
  BY DEF SortInv, TypeOK, Cyclic, Sorting
<1>2. IsFiniteSet(Nodes) /\ Len(listed) \in Nat /\ DOMAIN listed = 1 .. Len(listed)
  BY <1>1, DocumentFinite
<1>3. PICK n \in Nodes : \A k \in 1 .. Len(listed) : listed[k] # n
  <2> SUFFICES ASSUME \A n \in Nodes : \E k \in 1 .. Len(listed) : listed[k] = n
               PROVE  Cardinality(Nodes) = Len(listed)
    BY <1>1
  <2>1. listed \in Bijection(1 .. Len(listed), Nodes)
    BY <1>1, <1>2 DEF Bijection, Injection, Surjection, IsInjective, EachOnce
  <2>2. ExistsBijection(1 .. Len(listed), Nodes)
    BY <2>1 DEF ExistsBijection
  <2>3. IsFiniteSet(1 .. Len(listed)) /\ Cardinality(1 .. Len(listed)) = Len(listed)
    <3>1. /\ IsFiniteSet(1 .. Len(listed))
          /\ Cardinality(1 .. Len(listed)) =
               IF 1 > Len(listed) THEN 0 ELSE Len(listed) - 1 + 1
      BY <1>2, FS_Interval
    <3> QED BY <3>1, <1>2
  <2> QED BY <2>2, <2>3, FS_Bijection
<1> DEFINE S == {i \in Nodes : Pending(i) # {}}
<1>4. S \in SUBSET Nodes /\ S # {}
  BY <1>1, <1>3 DEF ListedAreReady
<1>5. ASSUME NEW i \in S PROVE \E j \in S : j # i /\ Feeds(project, j, i)
  <2>1. PICK b \in Into(i) : b.from.instance \notin Placed
    BY DEF Pending
  <2>2. /\ b \in project.bindings /\ b.to.instance = i
        /\ b.from.instance # i /\ b.from.instance \in Nodes
    BY DEF Into, Edges
  <2>3. \A k \in 1 .. Len(listed) : listed[k] # b.from.instance
    BY <2>1, <1>1 DEF Placed
  <2>4. b.from.instance \in S
    BY <2>2, <2>3, <1>1 DEF ListedAreReady
  <2> QED BY <2>2, <2>4 DEF Feeds
<1>6. PICK T \in SUBSET Nodes : Tangled(project, T)
  BY <1>4, <1>5 DEF Tangled
<1>7. Nodes' = Nodes /\ Tangled(project, T)'
  BY <1>1, <1>6, DocumentFixed
<1>8. TypeOK'
  BY <1>1, <1>7 DEF TypeOK, sortVars, runVars, Ended
<1>9. EachOnce'
  BY <1>1 DEF EachOnce, sortVars
<1> QED BY <1>1, <1>7, <1>8, <1>9 DEF SortInv, Sorting, Ordered

\* A step that leaves the document and the list alone keeps the sort right.
LEMMA SortFixed ==
  ASSUME SortInv, UNCHANGED <<project, sortVars>>, Sorting, Sorting', Ordered => Ordered',
         Ordered' => placed = Len(listed) /\ placed = Cardinality(Nodes), TypeOK'
  PROVE  SortInv'
<1>1. /\ Nodes' = Nodes
      /\ \A n : Into(n)' = Into(n)
      /\ \A S : Tangled(project, S)' <=> Tangled(project, S)
      /\ PassesOk(project)' <=> PassesOk(project)
  BY DocumentFixed
<1>2. Placed' = Placed /\ \A n : Pending(n)' = Pending(n)
  BY <1>1 DEF Placed, Pending, sortVars
<1>3. EachOnce' /\ CountsRight' /\ ListedAreReady'
  BY <1>1, <1>2 DEF SortInv, EachOnce, CountsRight, ListedAreReady, sortVars
<1>4. SuppliersBefore' /\ TangledNotPlaced'
  BY <1>1, <1>2 DEF SortInv, SuppliersBefore, TangledNotPlaced, sortVars
<1>5. pc' # "validate" /\ pc' # "invalid"
  BY DEF Sorting, Ordered
<1> QED BY <1>1, <1>3, <1>4, <1>5 DEF SortInv, sortVars

\* The first count, and the queue of the instances that nothing feeds.
LEMMA StartSortKeeps == SortInv /\ StartSort => SortInv'
<1> SUFFICES ASSUME SortInv, StartSort PROVE SortInv'
  OBVIOUS
<1> DEFINE R == {n \in Nodes : Into(n) = {}}
<1>1. /\ project \in Documents /\ project' = project /\ pc' = "sort" /\ TypeOK
      /\ PassesOk(project) /\ placed = 0 /\ placed' = 0
      /\ indegree' = [n \in Nodes |-> Cardinality(Into(n))]
      /\ listed' \in Sorted(R)
      /\ listed = <<>>
      /\ UNCHANGED runVars
  BY DEF SortInv, StartSort
<1>2. /\ Nodes' = Nodes /\ IsFiniteSet(Nodes) /\ Nodes \subseteq Int
      /\ \A n : Into(n)' = Into(n) /\ IsFiniteSet(Into(n))
      /\ \A S : Tangled(project, S)' <=> Tangled(project, S)
      /\ PassesOk(project)'
  BY <1>1, DocumentFixed, DocumentFinite
<1>3. /\ listed' \in Seq(R)
      /\ \A x \in R : \E k \in 1 .. Len(listed') : listed'[k] = x
      /\ \A k \in 1 .. Len(listed') : listed'[k] \in R
      /\ \A j, k \in 1 .. Len(listed') : listed'[j] = listed'[k] => j = k
  <2>1. R \in SUBSET Nodes
    OBVIOUS
  <2>2. IsFiniteSet(R) /\ R \subseteq Int
    BY <2>1, <1>2, FS_Subset
  <2> HIDE DEF R
  <2> QED BY <2>2, <1>1, SortedLists
<1>4. Placed' = {} /\ \A n : Pending(n)' = Into(n)
  BY <1>1, <1>2 DEF Placed, Pending
<1>5. CountsRight' /\ ListedAreReady'
  BY <1>1, <1>2, <1>3, <1>4 DEF CountsRight, ListedAreReady
<1>6. EachOnce' /\ SuppliersBefore' /\ TangledNotPlaced'
  <2>1. DOMAIN listed' = 1 .. Len(listed')
    BY <1>3
  <2> QED BY <1>2, <1>3, <1>4, <2>1 DEF EachOnce, SuppliersBefore, TangledNotPlaced
<1>7. TypeOK'
  <2>1. indegree' \in [Nodes -> Nat]
    BY <1>1, <1>2, FS_CardinalityType
  <2>2. listed' \in Seq(Nodes) /\ Len(listed') \in Nat
    BY <1>3
  <2>3. placed' \in 0 .. Len(listed') /\ pos' \in 1 .. Len(listed') + 1
    BY <1>1, <2>2 DEF TypeOK, runVars
  <2> QED BY <1>1, <1>2, <2>1, <2>2, <2>3 DEF TypeOK, runVars
<1> QED BY <1>1, <1>2, <1>5, <1>6, <1>7 DEF SortInv, Sorting, Ordered

\* A complete order has every instance on it, each after its suppliers.
LEMMA OrderComplete ==
  ASSUME SortInv, Ordered
  PROVE  /\ \A n \in Nodes : \E k \in 1 .. Len(listed) : listed[k] = n
         /\ \A k \in 1 .. Len(listed) : listed[k] \in Nodes
         /\ \A j, k \in 1 .. Len(listed) : listed[j] = listed[k] => j = k
         /\ \A b \in Edges : \A k \in 1 .. Len(listed) : listed[k] = b.to.instance =>
              \E j \in 1 .. Len(listed) : j < k /\ listed[j] = b.from.instance
         /\ Placed = Nodes
         /\ Len(listed) \in Nat
<1>1. /\ project \in Documents /\ listed \in Seq(Nodes) /\ EachOnce
      /\ SuppliersBefore /\ placed = Len(listed) /\ placed = Cardinality(Nodes)
  BY DEF SortInv, TypeOK, Sorting
<1>2. IsFiniteSet(Nodes) /\ Len(listed) \in Nat /\ DOMAIN listed = 1 .. Len(listed)
      /\ \A k \in 1 .. Len(listed) : listed[k] \in Nodes
  <2>1. IsFiniteSet(Nodes)
    BY <1>1, DocumentFinite
  <2>0. listed \in Seq(Nodes)
    BY <1>1
  <2>2. Len(listed) \in Nat /\ DOMAIN listed = 1 .. Len(listed)
    BY <2>0
  <2>3. \A k \in 1 .. Len(listed) : listed[k] \in Nodes
    BY <2>0
  <2> QED BY <2>1, <2>2, <2>3
<1>3. \A n \in Nodes : \E k \in 1 .. Len(listed) : listed[k] = n
  <2>1. listed \in Injection(1 .. Len(listed), Nodes)
    BY <1>1, <1>2 DEF Injection, IsInjective, EachOnce
  <2>2. /\ IsFiniteSet(1 .. Len(listed))
        /\ Cardinality(1 .. Len(listed)) = IF 1 > Len(listed) THEN 0 ELSE Len(listed) - 1 + 1
    BY <1>2, FS_Interval
  <2>3. Cardinality(1 .. Len(listed)) = Cardinality(Nodes)
    BY <2>2, <1>1, <1>2
  <2>4. listed \in Surjection(1 .. Len(listed), Nodes)
    BY <2>1, <2>3, <1>2, FS_Injection
  <2> QED BY <2>4 DEF Surjection
<1>4. \A b \in Edges : \A k \in 1 .. Len(listed) : listed[k] = b.to.instance =>
        \E j \in 1 .. Len(listed) : j < k /\ listed[j] = b.from.instance
  BY <1>1 DEF SuppliersBefore, Into
<1>5. Placed = Nodes
  BY <1>1, <1>2, <1>3 DEF Placed
<1> QED BY <1>1, <1>2, <1>3, <1>4, <1>5 DEF EachOnce

\* Every step keeps the order right.
LEMMA SortInvInit == Init => SortInv
<1> SUFFICES ASSUME Init PROVE SortInv
  OBVIOUS
<1>1. project \in Project
  BY DocumentsAssumption DEF Init
<1>2. listed \in Seq(Nodes) /\ Len(listed) = 0 /\ placed \in 0 .. Len(listed)
      /\ pos \in 1 .. Len(listed) + 1
  BY DEF Init
<1>3. TypeOK
  BY <1>1, <1>2 DEF Init, TypeOK, Values
<1>4. EachOnce
  BY DEF Init, EachOnce
<1> QED BY <1>3, <1>4 DEF Init, SortInv, Sorting, Ordered

LEMMA SortInvNext == SortInv /\ [Next]_vars => SortInv'
<1> SUFFICES ASSUME SortInv, [Next]_vars PROVE SortInv'
  OBVIOUS
<1> USE DEF Ordered, Sorting
<1>1. CASE Invalid
  <2>1. ~PassesOk(project)' /\ Nodes' = Nodes
    BY <1>1, DocumentFixed DEF Invalid
  <2>2. TypeOK'
    BY <1>1, <2>1 DEF SortInv, Invalid, TypeOK, Ended, sortVars, runVars
  <2>3. EachOnce'
    BY <1>1 DEF SortInv, Invalid, EachOnce, sortVars
  <2> QED BY <1>1, <2>1, <2>2, <2>3 DEF SortInv, Invalid
<1>2. CASE StartSort
  BY <1>2, StartSortKeeps
<1>3. CASE Place
  BY <1>3, PlaceKeeps
<1>4. CASE Cyclic
  BY <1>4, CyclicKeeps
<1>5. CASE StartRun
  <2>1. PICK seeds \in SUBSET UNION {OutputPaths(n) : n \in Nodes} :
          value' = [path \in PortPath |-> IF path \in seeds THEN "seed" ELSE "none"]
    BY <1>5 DEF StartRun
  <2>2. value' \in [PortPath -> Values]
    BY <2>1 DEF Values
  <2>3. Nodes' = Nodes
    BY <1>5, DocumentFixed DEF StartRun
  <2>4. TypeOK'
    BY <1>5, <2>2, <2>3 DEF SortInv, StartRun, TypeOK, Ended, sortVars
  <2> QED BY <1>5, <2>4, SortFixed DEF StartRun
\* A step of the loop over the order.
<1>6. ASSUME pc = "run", project' = project, sortVars' = sortVars, Ordered',
             Nodes' = Nodes => TypeOK'
      PROVE  SortInv'
  <2>1. Nodes' = Nodes
    BY <1>6, DocumentFixed
  <2>2. placed = Len(listed) /\ placed = Cardinality(Nodes)
    BY <1>6 DEF SortInv
  <2> QED BY <1>6, <2>1, <2>2, SortFixed
<1>7. ASSUME Running
      PROVE  /\ pos \in 1 .. Len(listed) /\ Current \in Nodes /\ pos + 1 \in 1 .. Len(listed) + 1
             /\ listed \in Seq(Nodes) /\ Len(listed) \in Nat
  <2>1. listed \in Seq(Nodes) /\ pos \in 1 .. Len(listed) + 1 /\ pos <= Len(listed)
        /\ Len(listed) \in Nat
    BY <1>7 DEF Running, SortInv, TypeOK
  <2>2. pos \in 1 .. Len(listed)
    BY <2>1
  <2> QED BY <2>1, <2>2 DEF Current
<1>8. CASE UseSeeds
  <2>1. Nodes' = Nodes => TypeOK'
    BY <1>8, <1>7 DEF SortInv, UseSeeds, Pass, TypeOK, sortVars, Running
  <2> QED BY <1>6, <1>8, <2>1 DEF UseSeeds, Pass, Running
<1>9. CASE NoHandler
  <2>1. CASE HasSeed(Current)
    <3>1. Nodes' = Nodes => TypeOK'
      BY <1>9, <2>1, <1>7 DEF SortInv, NoHandler, Pass, TypeOK, sortVars, Running
    <3> QED BY <1>6, <1>9, <2>1, <3>1 DEF NoHandler, Pass, Running
  <2>2. CASE ~HasSeed(Current)
    <3>1. Nodes' = Nodes => TypeOK'
      BY <1>9, <2>2, <1>7 DEF SortInv, NoHandler, Abort, TypeOK, sortVars, Running, Ended
    <3> QED BY <1>6, <1>9, <2>2, <3>1 DEF NoHandler, Abort, Running, Ended
  <2> QED BY <2>1, <2>2
<1>10. CASE MissingInput
  <2>1. Nodes' = Nodes => TypeOK'
    BY <1>10, <1>7 DEF SortInv, MissingInput, Abort, TypeOK, sortVars, Running, Ended
  <2> QED BY <1>6, <1>10, <2>1 DEF MissingInput, Abort, Running, Ended
<1>11. ASSUME SortInv, ReadInputs PROVE got' \in [Nodes -> [Port -> Values]]
  <2>1. Current \in Nodes /\ project.bindings \subseteq Binding
    BY <1>11, <1>7, DocumentFinite DEF ReadInputs, SortInv
  <2>2. \A port \in Port : Found(Current, port) \in Values
    <3> SUFFICES ASSUME NEW port \in Port PROVE Found(Current, port) \in Values
      OBVIOUS
    <3>1. CASE Producers(project, Current, port) = {}
      BY <3>1 DEF Found, Values
    <3>2. CASE Producers(project, Current, port) # {}
      <4> DEFINE b == CHOOSE c \in Producers(project, Current, port) : TRUE
      <4>1. b \in project.bindings
        BY <3>2 DEF Producers
      <4>2. b.from \in PortPath
        BY <4>1, <2>1 DEF Binding
      <4>3. Found(Current, port) = value[b.from]
        BY <3>2 DEF Found
      <4> QED BY <4>2, <4>3, <1>11 DEF SortInv, TypeOK
    <3> QED BY <3>1, <3>2
  <2>3. [port \in Port |-> IF port \in Contracts(Current).inputs
                              THEN Found(Current, port) ELSE "none"] \in [Port -> Values]
    BY <2>2 DEF Values
  <2> QED BY <2>1, <2>3, <1>11 DEF ReadInputs, SortInv, TypeOK
<1>12. CASE Execute
  <2>1. PICK outputs \in SUBSET OutputPaths(Current) :
          value' = [path \in PortPath |-> IF path \in outputs THEN "made" ELSE value[path]]
    BY <1>12 DEF Execute
  <2>2. value' \in [PortPath -> Values] /\ got' \in [Nodes -> [Port -> Values]]
    BY <1>11, <1>12, <2>1 DEF Values, SortInv, TypeOK, Execute
  <2>3. Nodes' = Nodes => TypeOK'
    BY <1>12, <1>7, <2>2 DEF SortInv, Execute, ReadInputs, Pass, TypeOK, sortVars, Running
  <2> QED BY <1>6, <1>12, <2>3 DEF Execute, ReadInputs, Pass, Running
<1>13. CASE ComponentFails
  <2>1. got' \in [Nodes -> [Port -> Values]]
    BY <1>11, <1>13 DEF ComponentFails
  <2>2. Nodes' = Nodes => TypeOK'
    BY <1>13, <1>7, <2>1 DEF SortInv, ComponentFails, ReadInputs, Abort, TypeOK, sortVars, Running, Ended
  <2> QED BY <1>6, <1>13, <2>2 DEF ComponentFails, ReadInputs, Abort, Running, Ended
<1>14. CASE Finish
  <2>1. Nodes' = Nodes => TypeOK'
    BY <1>14 DEF SortInv, Finish, TypeOK, sortVars, runVars, Ended
  <2> QED BY <1>6, <1>14, <2>1 DEF Finish, Ended
<1>15. CASE UNCHANGED vars
  <2>1. /\ Nodes' = Nodes /\ (\A S : Tangled(project, S)' <=> Tangled(project, S))
        /\ PassesOk(project)' <=> PassesOk(project)
    BY <1>15, DocumentFixed DEF vars
  <2>2. TypeOK'
    BY <1>15, <2>1 DEF SortInv, vars, TypeOK, sortVars, runVars
  <2>3. CASE Sorting
    BY <1>15, <2>1, <2>2, <2>3, SortFixed DEF SortInv, vars, sortVars
  <2>4. CASE ~Sorting
    <3>1. EachOnce'
      BY <1>15 DEF SortInv, EachOnce, vars, sortVars
    <3> QED BY <1>15, <2>1, <2>2, <2>4, <3>1 DEF SortInv, vars, sortVars
  <2> QED BY <2>3, <2>4
<1>16. CASE Returned
  BY <1>15, <1>16 DEF Returned
<1> QED
  BY <1>1, <1>2, <1>3, <1>4, <1>5, <1>8, <1>9, <1>10, <1>12, <1>13, <1>14, <1>15, <1>16
     DEF Next

-----------------------------------------------------------------------------
(* The run *)

\* The binding that ends at an input port is the one its value comes from.
LEMMA FoundFrom ==
  ASSUME PassesOk(project), NEW b \in project.bindings
  PROVE  /\ b.to.instance \in Nodes /\ b.from.instance \in Nodes
         /\ b.to.port \in Contracts(b.to.instance).inputs
         /\ b.from.port \in Contracts(b.from.instance).outputs
         /\ Found(b.to.instance, b.to.port) = value[b.from]
<1>1. IsOutput(project, b.from) /\ IsInput(project, b.to)
  BY DEF PassesOk, BindingsRunOutToIn
<1>2. /\ b.to.instance \in Nodes /\ b.from.instance \in Nodes
      /\ b.to.port \in Contracts(b.to.instance).inputs
      /\ b.from.port \in Contracts(b.from.instance).outputs
  BY <1>1 DEF IsOutput, IsInput, Nodes, Contracts
<1> DEFINE P == Producers(project, b.to.instance, b.to.port)
<1>3. b \in P
  BY DEF Producers
<1>4. \A c, d \in P : c = d
  BY <1>2 DEF PassesOk, OneProducer, Nodes, Contracts
<1>5. (CHOOSE c \in P : TRUE) = b
  BY <1>3, <1>4
<1>6. Found(b.to.instance, b.to.port) = value[b.from]
  BY <1>3, <1>5 DEF Found
<1> QED BY <1>2, <1>6

\* The instance that runs is one, and its suppliers are over with.
LEMMA CurrentFacts ==
  ASSUME SortInv, RunInv, Running
  PROVE  /\ Current \in Nodes /\ pos \in 1 .. Len(listed)
         /\ \A n \in Nodes : \E k \in 1 .. Len(listed) : listed[k] = n
         /\ \A j, k \in 1 .. Len(listed) : listed[j] = listed[k] => j = k
         /\ \A b \in Edges : b.to.instance = Current => fate[b.from.instance] \in Over
         /\ \A b \in Edges : fate[b.to.instance] \in Over => b.from.instance # Current
<1>1. Ordered
  BY DEF Running, Ordered
<1>2. /\ \A n \in Nodes : \E k \in 1 .. Len(listed) : listed[k] = n
      /\ \A k \in 1 .. Len(listed) : listed[k] \in Nodes
      /\ \A j, k \in 1 .. Len(listed) : listed[j] = listed[k] => j = k
      /\ \A b \in Edges : \A k \in 1 .. Len(listed) : listed[k] = b.to.instance =>
           \E j \in 1 .. Len(listed) : j < k /\ listed[j] = b.from.instance
      /\ Len(listed) \in Nat
  BY <1>1, OrderComplete
<1>3. pos \in 1 .. Len(listed)
  BY <1>2 DEF Running, SortInv, TypeOK
<1>4. \A k \in 1 .. Len(listed) : fate[listed[k]] \in Over <=> k < pos
  BY <1>1 DEF RunInv
<1>5. \A b \in Edges : b.to.instance = Current => fate[b.from.instance] \in Over
  BY <1>2, <1>3, <1>4 DEF Current
<1>6. ASSUME NEW b \in Edges, fate[b.to.instance] \in Over PROVE b.from.instance # Current
  <2>1. b.to.instance \in Nodes
    BY DEF Edges
  <2>2. PICK k \in 1 .. Len(listed) : listed[k] = b.to.instance
    BY <2>1, <1>2
  <2>3. PICK j \in 1 .. Len(listed) : j < k /\ listed[j] = b.from.instance
    BY <2>2, <1>2
  <2>4. k < pos
    BY <2>2, <1>4, <1>6
  <2>5. j # pos
    BY <2>3, <2>4, <1>3
  <2> QED BY <2>3, <2>5, <1>2, <1>3 DEF Current
<1> QED BY <1>2, <1>3, <1>5, <1>6 DEF Current

LEMMA RunInvInit == Init => RunInv
  BY DEF Init, RunInv, Ordered, ReadsAreFinal, MissingInputIsExplained, Edges, Over

\* A step that ends the turn of the instance `pos` points at.
LEMMA TurnOver ==
  ASSUME SortInv, RunInv, Running, NEW outcome \in Over, Pass(outcome)
  PROVE  /\ ~Ordered' => pos' = 1 /\ \A n \in Nodes' : fate'[n] = "todo"
         /\ Ordered' => \A k \in 1 .. Len(listed') : fate'[listed'[k]] \in Over <=> k < pos'
         /\ pc' = "run" => \A k \in 1 .. Len(listed') : fate'[listed'[k]] # "failed"
         /\ MissingInputIsExplained'
         /\ Nodes' = Nodes /\ Edges' = Edges
         /\ \A n \in Nodes : n # Current => fate'[n] = fate[n]
         /\ fate'[Current] = outcome
<1>1. /\ Current \in Nodes /\ pos \in 1 .. Len(listed)
      /\ \A j, k \in 1 .. Len(listed) : listed[j] = listed[k] => j = k
  BY CurrentFacts
<1>2. /\ fate' = [fate EXCEPT ![Current] = outcome] /\ pos' = pos + 1
      /\ listed' = listed /\ pc' = "run" /\ pc = "run" /\ project' = project
  BY DEF Pass, sortVars, Running
<1>3. fate \in [Nodes -> {"todo", "seeded", "skipped", "executed", "failed"}]
      /\ listed \in Seq(Nodes) /\ Len(listed) \in Nat
  BY DEF SortInv, TypeOK
<1>4. /\ \A n \in Nodes : n # Current => fate'[n] = fate[n]
      /\ fate'[Current] = outcome
  BY <1>1, <1>2, <1>3
<1>5. \A k \in 1 .. Len(listed) : listed[k] \in Nodes /\ (listed[k] = Current <=> k = pos)
  BY <1>1, <1>3 DEF Current
<1>6. /\ \A k \in 1 .. Len(listed) : fate[listed[k]] \in Over <=> k < pos
      /\ \A k \in 1 .. Len(listed) : fate[listed[k]] # "failed"
  BY <1>2 DEF RunInv, Ordered
<1>7. \A k \in 1 .. Len(listed) : fate'[listed[k]] \in Over <=> k < pos + 1
  BY <1>1, <1>4, <1>5, <1>6
<1>8. \A k \in 1 .. Len(listed) : fate'[listed[k]] # "failed"
  BY <1>4, <1>5, <1>6 DEF Over
<1>9. Nodes' = Nodes /\ Edges' = Edges
  BY <1>2 DEF Nodes, Instances, Edges
<1> QED BY <1>2, <1>4, <1>7, <1>8, <1>9 DEF Ordered, MissingInputIsExplained

LEMMA RunInvNext == SortInv /\ SortInv' /\ RunInv /\ [Next]_vars => RunInv'
<1> SUFFICES ASSUME SortInv, SortInv', RunInv, [Next]_vars PROVE RunInv'
  OBVIOUS
<1>1. /\ project' = project /\ Nodes' = Nodes /\ Edges' = Edges
      /\ \A n : OutputPaths(n)' = OutputPaths(n)
  <2>1. project' = project
    BY DEF Next, vars, Invalid, StartSort, Place, Cyclic, StartRun, UseSeeds, NoHandler,
           MissingInput, Execute, ComponentFails, Finish, Returned, Pass, Abort
  <2> QED BY <2>1 DEF Nodes, Instances, Edges, OutputPaths, Contracts, ContractOf
<1>2. /\ fate \in [Nodes -> {"todo", "seeded", "skipped", "executed", "failed"}]
      /\ got \in [Nodes -> [Port -> Values]] /\ value \in [PortPath -> Values]
      /\ \A b \in Edges : /\ b \in project.bindings
                           /\ b.from.instance \in Nodes /\ b.to.instance \in Nodes
                           /\ b.from.instance # b.to.instance
                           /\ b.from \in PortPath /\ b.to \in PortPath
  <2>1. project.bindings \subseteq Binding
    BY DocumentFinite DEF SortInv
  <2> QED BY <2>1 DEF SortInv, TypeOK, Edges, Binding
\* The call has not come to the run, or is over.
<1>3. ASSUME UNCHANGED runVars, ~Ordered, ~Ordered' PROVE RunInv'
  BY <1>1, <1>3 DEF RunInv, runVars, ReadsAreFinal, MissingInputIsExplained, Ordered
<1>4. CASE Invalid \/ StartSort \/ Place \/ Cyclic
  BY <1>3, <1>4 DEF Invalid, StartSort, Place, Cyclic, Ordered
<1>5. CASE StartRun
  <2>1. /\ pos' = 1 /\ pos = 1 /\ \A n \in Nodes : fate'[n] = "todo"
        /\ pc' = "run" /\ listed' = listed /\ listed \in Seq(Nodes)
    BY <1>5 DEF StartRun, RunInv, Ordered, sortVars, SortInv, TypeOK
  <2>2. \A k \in 1 .. Len(listed) : listed[k] \in Nodes /\ ~(k < 1)
    BY <2>1
  <2> QED BY <1>1, <1>2, <2>1, <2>2
       DEF RunInv, ReadsAreFinal, MissingInputIsExplained, Ordered, Over
<1>6. CASE UseSeeds
  <2>1. Running /\ Pass("seeded") /\ "seeded" \in Over
    BY <1>6 DEF UseSeeds, Over
  <2>2. /\ Current \in Nodes
        /\ \A n \in Nodes : n # Current => fate'[n] = fate[n]
        /\ fate'[Current] = "seeded"
    BY <2>1, TurnOver, CurrentFacts
  <2>3. value' = value /\ got' = got /\ FullySeeded(Current)
    BY <1>6 DEF UseSeeds
  <2>4. \A n \in Nodes : fate'[n] = "seeded" => \A path \in OutputPaths(n) : value'[path] # "none"
    BY <2>2, <2>3 DEF FullySeeded, RunInv
  <2>5. ReadsAreFinal'
    BY <1>1, <1>2, <2>2, <2>3 DEF ReadsAreFinal, RunInv
  <2> QED BY <1>1, <2>1, <2>4, <2>5, TurnOver DEF RunInv
<1>7. CASE NoHandler /\ HasSeed(Current)
  <2>1. Running /\ Pass("skipped") /\ "skipped" \in Over
    BY <1>7 DEF NoHandler, Over
  <2>2. /\ Current \in Nodes
        /\ \A n \in Nodes : n # Current => fate'[n] = fate[n]
        /\ fate'[Current] = "skipped"
    BY <2>1, TurnOver, CurrentFacts
  <2>3. value' = value /\ got' = got
    BY <1>7 DEF NoHandler
  <2>4. \A n \in Nodes : fate'[n] = "seeded" => \A path \in OutputPaths(n) : value'[path] # "none"
    BY <2>2, <2>3 DEF RunInv
  <2>5. ReadsAreFinal'
    BY <1>1, <1>2, <2>2, <2>3 DEF ReadsAreFinal, RunInv
  <2> QED BY <1>1, <2>1, <2>4, <2>5, TurnOver DEF RunInv
<1>8. CASE NoHandler /\ ~HasSeed(Current)
  <2>1. pc = "run" /\ pc' = "missing_handler" /\ UNCHANGED <<listed, pos, value, fate, got>>
    BY <1>8 DEF NoHandler, Abort, Running, sortVars
  <2> QED BY <1>1, <2>1 DEF RunInv, ReadsAreFinal, MissingInputIsExplained, Ordered
<1>9. CASE MissingInput
  <2>1. /\ pc = "run" /\ pc' = "missing_input" /\ UNCHANGED <<listed, pos, value, fate, got>>
        /\ Running
    BY <1>9 DEF MissingInput, Abort, Running, sortVars
  <2>2. PassesOk(project)
    BY <2>1 DEF SortInv, Sorting, Ordered
  <2>3. PICK port \in Contracts(Current).required : Found(Current, port) = "none"
    BY <1>9 DEF MissingInput, Lacking
  <2>4. PICK b \in project.bindings : b.to.instance = Current /\ b.to.port = port
    <3>1. Current \in Nodes
      BY <2>1, CurrentFacts
    <3>2. Producers(project, Current, port) # {}
      BY <2>2, <2>3, <3>1 DEF PassesOk, RequiredBound, Nodes, Contracts
    <3> QED BY <3>2 DEF Producers
  <2>5. /\ value[b.from] = "none" /\ b.from.instance \in Nodes
        /\ b.from.port \in Contracts(b.from.instance).outputs /\ b.from \in PortPath
        /\ b.to.instance \in Nodes
    <3>1. project.bindings \subseteq Binding
      BY DocumentFinite DEF SortInv
    <3> QED BY <2>2, <2>3, <2>4, <3>1, FoundFrom DEF Binding
  <2>6. b.from.instance = Current \/ fate[b.from.instance] \in {"skipped", "executed"}
    <3> SUFFICES ASSUME b.from.instance # Current
                 PROVE  fate[b.from.instance] \in {"skipped", "executed"}
      OBVIOUS
    <3>1. b \in Edges
      BY <2>4, <2>5 DEF Edges
    <3>2. fate[b.from.instance] \in Over
      BY <3>1, <2>1, <2>4, CurrentFacts
    <3>3. b.from \in OutputPaths(b.from.instance)
      BY <2>5 DEF OutputPaths
    <3>4. fate[b.from.instance] # "seeded"
      BY <2>5, <3>3 DEF RunInv
    <3> QED BY <3>2, <3>4 DEF Over
  <2>7. MissingInputIsExplained'
    BY <1>1, <2>1, <2>3, <2>4, <2>5, <2>6
       DEF MissingInputIsExplained, Current, Contracts, ContractOf
  <2> QED BY <1>1, <2>1, <2>7 DEF RunInv, ReadsAreFinal, Ordered
<1>10. CASE Execute
  <2>1. Running /\ ReadInputs /\ Pass("executed") /\ "executed" \in Over /\ PassesOk(project)
    BY <1>10 DEF Execute, ReadInputs, Over, SortInv, Sorting, Running, Ordered
  <2>2. /\ Current \in Nodes
        /\ \A n \in Nodes : n # Current => fate'[n] = fate[n]
        /\ fate'[Current] = "executed"
        /\ \A b \in Edges : fate[b.to.instance] \in Over => b.from.instance # Current
    BY <2>1, TurnOver, CurrentFacts
  <2>3. PICK outputs \in SUBSET OutputPaths(Current) :
          value' = [path \in PortPath |-> IF path \in outputs THEN "made" ELSE value[path]]
    BY <1>10 DEF Execute
  <2>4. /\ \A path \in PortPath : value[path] # "none" => value'[path] # "none"
        /\ \A path \in PortPath : path.instance # Current => value'[path] = value[path]
    BY <2>3 DEF OutputPaths
  <2>5. /\ \A n \in Nodes : n # Current => got'[n] = got[n]
        /\ \A port \in Port : port \in Contracts(Current).inputs =>
             got'[Current][port] = Found(Current, port)
    BY <2>1, <2>2, <1>2 DEF ReadInputs
  <2>6. \A n \in Nodes : fate'[n] = "seeded" => \A path \in OutputPaths(n) : value'[path] # "none"
    BY <2>2, <2>4 DEF RunInv, OutputPaths
  <2>7. ASSUME NEW b \in Edges, fate'[b.to.instance] = "executed"
        PROVE  got'[b.to.instance][b.to.port] = value'[b.from]
    <3>1. CASE b.to.instance = Current
      <4>1. got'[Current][b.to.port] = value[b.from]
        BY <1>2, <2>1, <2>5, <3>1, FoundFrom DEF PortPath
      <4> QED BY <1>2, <2>4, <3>1, <4>1
    <3>2. CASE b.to.instance # Current
      <4>1. fate[b.to.instance] = "executed"
        BY <1>2, <2>2, <2>7, <3>2
      <4>2. got[b.to.instance][b.to.port] = value[b.from]
        BY <4>1 DEF RunInv, ReadsAreFinal
      <4>3. b.from.instance # Current
        BY <2>2, <4>1 DEF Over
      <4> QED BY <1>2, <2>4, <2>5, <3>2, <4>2, <4>3
    <3> QED BY <3>1, <3>2
  <2>8. ReadsAreFinal'
    BY <1>1, <2>7 DEF ReadsAreFinal
  <2> QED BY <1>1, <2>1, <2>6, <2>8, TurnOver DEF RunInv
<1>11. CASE ComponentFails
  <2>1. /\ Running /\ pc = "run" /\ pc' = "component" /\ UNCHANGED <<listed, pos, value>>
        /\ fate' = [fate EXCEPT ![Current] = "failed"] /\ ReadInputs
    BY <1>11 DEF ComponentFails, ReadInputs, Abort, Running, sortVars
  <2>2. /\ Current \in Nodes /\ pos \in 1 .. Len(listed) /\ Len(listed) \in Nat
        /\ \A j, k \in 1 .. Len(listed) : listed[j] = listed[k] => j = k
        /\ \A k \in 1 .. Len(listed) : listed[k] \in Nodes
    BY <2>1, CurrentFacts, OrderComplete DEF Running, Ordered
  <2>3. /\ \A n \in Nodes : n # Current => fate'[n] = fate[n] /\ got'[n] = got[n]
        /\ fate'[Current] = "failed"
    BY <1>2, <2>1, <2>2 DEF ReadInputs
  <2>4. \A k \in 1 .. Len(listed) : fate'[listed[k]] \in Over <=> k < pos
    <3>1. \A k \in 1 .. Len(listed) : fate[listed[k]] \in Over <=> k < pos
      BY <2>1 DEF RunInv, Ordered
    <3>2. \A k \in 1 .. Len(listed) : listed[k] = Current <=> k = pos
      BY <2>2 DEF Current
    <3> QED BY <2>2, <2>3, <3>1, <3>2 DEF Over
  <2>5. ReadsAreFinal'
    BY <1>1, <1>2, <2>1, <2>3 DEF ReadsAreFinal, RunInv
  <2>6. \A n \in Nodes : fate'[n] = "seeded" => \A path \in OutputPaths(n) : value'[path] # "none"
    BY <2>1, <2>3 DEF RunInv
  <2> QED BY <1>1, <2>1, <2>4, <2>5, <2>6 DEF RunInv, MissingInputIsExplained, Ordered
<1>12. CASE Finish
  <2>1. pc = "run" /\ pc' = "done" /\ UNCHANGED <<listed, pos, value, fate, got>>
    BY <1>12 DEF Finish, sortVars, runVars
  <2> QED BY <1>1, <2>1 DEF RunInv, ReadsAreFinal, MissingInputIsExplained, Ordered
<1>13. CASE UNCHANGED vars
  <2>1. UNCHANGED <<pc, listed, pos, value, fate, got>>
    BY <1>13 DEF vars, sortVars, runVars
  <2> QED BY <1>1, <2>1 DEF RunInv, ReadsAreFinal, MissingInputIsExplained, Ordered, Current,
                           Contracts, ContractOf
<1>14. CASE Returned
  BY <1>13, <1>14 DEF Returned
<1> QED
  BY <1>4, <1>5, <1>6, <1>7, <1>8, <1>9, <1>10, <1>11, <1>12, <1>13, <1>14 DEF Next

-----------------------------------------------------------------------------
(* Theorems *)

\* Every call keeps the order and the run right.
THEOREM RunsAreRight == Spec => [](SortInv /\ RunInv)
<1>1. Init => SortInv /\ RunInv
  BY SortInvInit, RunInvInit
<1>2. SortInv /\ RunInv /\ [Next]_vars => (SortInv /\ RunInv)'
  BY SortInvNext, RunInvNext
<1> QED BY <1>1, <1>2, PTL DEF Spec

\* Type correctness; among other things no count of topo_order, a usize in the
\* code, is ever decremented below zero.
THEOREM DataflowTypeCorrect == Spec => []TypeOK
<1>1. SortInv => TypeOK
  BY DEF SortInv
<1> QED BY <1>1, RunsAreRight, PTL

\* topo_order fails on a document exactly when two or more of its instances
\* feed each other in a cycle.
THEOREM SortIsExact == Spec => []CyclesAreExact
<1>1. SortInv => CyclesAreExact
  <2> SUFFICES ASSUME SortInv, Ordered, NEW S \in SUBSET Nodes, Tangled(project, S) PROVE FALSE
    BY DEF SortInv, CyclesAreExact
  <2>1. Placed = Nodes
    BY OrderComplete
  <2>2. S \cap Placed = {}
    BY DEF SortInv, Sorting, TangledNotPlaced
  <2>3. S # {}
    BY DEF Tangled
  <2> QED BY <2>1, <2>2, <2>3
<1> QED BY <1>1, RunsAreRight, PTL

\* No instance is placed twice.
THEOREM PlacedOnce == Spec => []EachOnce
<1>1. SortInv => EachOnce
  BY DEF SortInv
<1> QED BY <1>1, RunsAreRight, PTL

\* What an instance read from another is the value the run ends with.
THEOREM NoStaleRead == Spec => []ReadsAreFinal
<1>1. RunInv => ReadsAreFinal
  BY DEF RunInv
<1> QED BY <1>1, RunsAreRight, PTL

\* A valid document fails for want of an input only where a supplier gave less
\* than its contract, was skipped, or is the instance itself.
THEOREM MissingInputCause == Spec => []MissingInputIsExplained
<1>1. RunInv => MissingInputIsExplained
  BY DEF RunInv
<1> QED BY <1>1, RunsAreRight, PTL

-----------------------------------------------------------------------------
(* The emitted program *)

\* What the compiler gets: the order holds each instance once, suppliers first.
LEMMA Compiled ==
  ASSUME SortInv, AtCompile
  PROVE  /\ PassesOk(project) /\ project \in Documents
         /\ listed \in Seq(Nodes) /\ Len(listed) \in Nat /\ DOMAIN listed = 1 .. Len(listed)
         /\ \A n \in Nodes : \E k \in 1 .. Len(listed) : listed[k] = n
         /\ \A k \in 1 .. Len(listed) : listed[k] \in Nodes
         /\ \A j, k \in 1 .. Len(listed) : listed[j] = listed[k] => j = k
         /\ \A b \in Edges : \A k \in 1 .. Len(listed) : listed[k] = b.to.instance =>
              \E j \in 1 .. Len(listed) : j < k /\ listed[j] = b.from.instance
<1>1. Ordered
  BY DEF AtCompile, Ordered
<1>2. /\ PassesOk(project) /\ project \in Documents /\ listed \in Seq(Nodes)
  BY <1>1 DEF SortInv, Sorting, TypeOK
<1> QED BY <1>1, <1>2, OrderComplete

\* A variable is only shadowed by another one of its name, so unless two ports
\* are named alike every variable holds the value of its own port.
LEMMA NoShadow ==
  ASSUME SortInv, AtCompile, NEW names \in Renderings, ~Collides(project, names),
         NEW k \in DOMAIN listed, NEW n \in k .. Len(listed) + 1,
         NEW path \in Assigned(project, listed, k)
  PROVE  Holds(project, listed, names, Variable(names, path), n) = {path}
<1> DEFINE ports == UNION {Writes(project, i) : i \in Nodes}
           v == Variable(names, path)
<1>1. \A m \in 1 .. Len(listed) + 1 : Assigned(project, listed, m) \subseteq ports
  <2>1. \A j \in 1 .. Len(listed) : listed[j] \in Nodes
    BY Compiled
  <2> QED BY <2>1, Compiled DEF Assigned
<1>2. k \in 1 .. Len(listed) + 1 /\ n \in 1 .. Len(listed) + 1 /\ Len(listed) \in Nat
  BY Compiled
<1>3. \A q, r \in ports : Variable(names, q) = Variable(names, r) => q = r
  BY DEF Collides, Variable, Nodes
<1>4. path \in ports
  BY <1>1, <1>2
<1>5. PICK i \in 1 .. k - 1 : path \in Writes(project, listed[i])
  BY DEF Assigned
<1>6. i \in 1 .. n - 1 /\ listed[i] = path.instance
  BY <1>2, <1>5 DEF Writes
<1>7. path \in Assigned(project, listed, n)
  BY <1>5, <1>6 DEF Assigned
<1>8. ASSUME NEW j \in 1 .. n - 1, NEW later \in Writes(project, listed[j]),
             Variable(names, later) = v
      PROVE  j <= i
  <2>1. later \in Assigned(project, listed, n)
    BY DEF Assigned
  <2>2. later = path
    BY <1>1, <1>2, <1>3, <1>4, <1>8, <2>1
  <2>3. listed[j] = listed[i] /\ j \in 1 .. Len(listed) /\ i \in 1 .. Len(listed)
    BY <1>2, <1>6, <2>2 DEF Writes
  <2>4. j = i
    BY <2>3, Compiled
  <2> QED BY <1>2, <2>4
<1>9. path \in Holds(project, listed, names, v, n)
  BY <1>6, <1>7, <1>8 DEF Holds
<1>10. ASSUME NEW q \in Holds(project, listed, names, v, n) PROVE q = path
  <2>1. q \in Assigned(project, listed, n) /\ Variable(names, q) = v
    BY DEF Holds
  <2> QED BY <1>1, <1>2, <1>3, <1>4, <2>1
<1> QED BY <1>9, <1>10

\* THEOREM: in the emitted program every call gets the values the graph says.
THEOREM ProgramComputes == Spec => []ExportComputesTheGraph
<1>1. SortInv => ExportComputesTheGraph
  <2> SUFFICES ASSUME SortInv, AtCompile, Emits(project, listed),
                      NEW names \in Renderings, ~Collides(project, names),
                      NEW k \in DOMAIN listed, NEW path \in Reads(project, listed[k])
               PROVE  Holds(project, listed, names, Variable(names, Source(project, path)),
                            UsedAt(project, listed, k)) = {Source(project, path)}
    BY DEF ExportComputesTheGraph, Computes
  <2>1. Source(project, path) \in Assigned(project, listed, k)
    BY DEF Emits, Wired
  <2>2. UsedAt(project, listed, k) \in k .. Len(listed) + 1
    BY Compiled DEF UsedAt
  <2> QED BY <2>1, <2>2, NoShadow
<1> QED BY <1>1, RunsAreRight, PTL

\* What a binding of a valid document brings to an instance other than its own
\* has a variable by the time the instance is emitted.
LEMMA SuppliedBefore ==
  ASSUME SortInv, AtCompile, NEW k \in DOMAIN listed,
         NEW b \in project.bindings, b.to.instance = listed[k],
         b.from.instance # listed[k]
  PROVE  b.from \in Assigned(project, listed, k)
<1>1. /\ b \in Binding
      /\ b.from.instance \in Nodes /\ b.to.instance \in Nodes
      /\ b.from.port \in ContractOf(project, b.from.instance).outputs
  BY Compiled, DocumentsAssumption
     DEF PassesOk, BindingsRunOutToIn, IsOutput, IsInput, Nodes, Project
<1>2. b \in Edges
  BY <1>1 DEF Edges
<1>3. PICK j \in 1 .. Len(listed) : j < k /\ listed[j] = b.from.instance
  BY <1>2, Compiled
<1>4. b.from \in Writes(project, listed[j])
  BY <1>1, <1>3 DEF Writes, Binding
<1>5. j \in 1 .. k - 1
  BY <1>3, Compiled
<1> QED BY <1>4, <1>5 DEF Assigned

\* THEOREM: a valid document has no program only for one of four reasons, none
\* of which is the order of the instances.
THEOREM RefusalIsExplained == Spec => []EmitFailureIsExplained
<1>1. SortInv => EmitFailureIsExplained
  <2> SUFFICES ASSUME SortInv, AtCompile, HasSink(project),
                      \A i \in Nodes : Rendered(project, i),
                      \A i \in Nodes : ~Feeds(project, i, i),
                      \A i \in Nodes : \A port \in Contracts(i).inputs \ Contracts(i).required :
                        Producers(project, i, port) # {},
                      \A k \in DOMAIN listed : listed[k] \in Nodes
               PROVE  \A k \in DOMAIN listed : Wired(project, listed, k)
    BY Compiled DEF EmitFailureIsExplained, Emits, HasSink, Nodes
  <2> SUFFICES ASSUME NEW k \in DOMAIN listed, NEW path \in Reads(project, listed[k])
               PROVE  /\ Feeding(project, path) # {}
                      /\ Source(project, path) \in Assigned(project, listed, k)
    BY DEF Wired
  <2>1. /\ listed[k] \in Nodes
        /\ path \in PortPath /\ path.instance = listed[k]
        /\ path.port \in Contracts(listed[k]).inputs
    BY Compiled DEF Reads, Contracts
  <2>2. Producers(project, listed[k], path.port) # {}
    <3>1. CASE path.port \in Contracts(listed[k]).required
      BY <2>1, <3>1, Compiled DEF PassesOk, RequiredBound, Contracts, Nodes
    <3>2. CASE path.port \notin Contracts(listed[k]).required
      BY <2>1, <3>2
    <3> QED BY <3>1, <3>2
  <2>3. Feeding(project, path) # {}
    <3>1. PICK b \in project.bindings : b.to.instance = listed[k] /\ b.to.port = path.port
      BY <2>2 DEF Producers
    <3>2. b \in Binding
      BY Compiled, DocumentsAssumption DEF Project
    <3>3. b.to = path
      BY <2>1, <3>1, <3>2 DEF Binding, PortPath
    <3> QED BY <3>3 DEF Feeding
  <2>4. PICK b \in Feeding(project, path) : Source(project, path) = b.from
    BY <2>3 DEF Source
  <2>5. b \in project.bindings /\ b.to.instance = listed[k] /\ b.from.instance # listed[k]
    BY <2>1, <2>4 DEF Feeding, Feeds
  <2> QED BY <2>3, <2>4, <2>5, SuppliedBefore
<1> QED BY <1>1, RunsAreRight, PTL

\* A set of numbers has a least one.
LEMMA LeastNumber ==
  ASSUME NEW S \in SUBSET Nat, S # {}
  PROVE  \E k \in S : \A j \in S : k <= j
<1>1. PICK k \in S : \A j \in S : <<j, k>> \notin OpToRel(<, Nat)
  BY NatLessThanWellFounded, WFMin
<1>2. \A j \in S : ~(j < k)
  BY <1>1 DEF OpToRel
<1> QED BY <1>2

\* Where there is a sink there is a first one.
LEMMA FirstSinkFound ==
  ASSUME SortInv, AtCompile, HasSink(project)
  PROVE  \E k \in DOMAIN listed :
           /\ IsSink(project, listed[k])
           /\ FirstSink(project, listed) = listed[k]
<1> DEFINE places == {k \in 1 .. Len(listed) : IsSink(project, listed[k])}
<1>1. places # {} /\ places \subseteq Nat
  BY Compiled DEF HasSink, Nodes
<1>2. PICK k \in places : \A j \in places : k <= j
  BY <1>1, LeastNumber
<1>3. IsFirstSink(project, listed, k)
  BY <1>2, Compiled DEF IsFirstSink
<1>4. PICK j \in DOMAIN listed :
        IsFirstSink(project, listed, j) /\ FirstSink(project, listed) = listed[j]
  BY <1>3, Compiled DEF FirstSink
<1> QED BY <1>4 DEF IsFirstSink

\* THEOREM: a file and its bytes give the same answer, unless the first sink
\* takes the input past the transform.
THEOREM FilesAreBytes == Spec => []StreamedIsBuffered
<1>1. SortInv => StreamedIsBuffered
  <2> SUFFICES ASSUME SortInv, AtCompile, Emits(project, listed), HasSink(project),
                      Streams(project), ~IsOfInput(project, Primary(project, listed))
               PROVE  Streamed(project, listed) = Primary(project, listed)
    BY DEF StreamedIsBuffered, Streamed, Buffered
  <2> DEFINE source == Primary(project, listed)
  <2>1. PICK k \in DOMAIN listed :
          IsSink(project, listed[k]) /\ FirstSink(project, listed) = listed[k]
    BY FirstSinkFound
  <2>2. listed[k] \in Nodes /\ listed[k] \in Id
    BY Compiled, DocumentsAssumption DEF Nodes, Instances, Project
  <2> DEFINE entry == [instance |-> listed[k], port |-> Bytes]
  <2>3. Bytes \in Port
    BY EmitAssumption, GraphAssumption DEF Contract
  <2>4. entry \in Reads(project, listed[k])
    BY <2>1, <2>2, <2>3, EmitAssumption DEF Reads, PortPath, IsSink, CapabilityOf, ContractOf
  <2>5. source \in Assigned(project, listed, k)
    BY <2>1, <2>4 DEF Emits, Wired, Primary
  <2>6. /\ source \in PortPath /\ source.instance \in Nodes
        /\ source.port \in ContractOf(project, source.instance).outputs
    <3>1. PICK j \in 1 .. k - 1 : source \in Writes(project, listed[j])
      BY <2>5 DEF Assigned
    <3>2. listed[j] \in Nodes
      BY Compiled
    <3> QED BY <3>1, <3>2 DEF Writes
  <2>7. source.instance \in Transforms(project)
    <3>1. ~IsSink(project, source.instance)
      BY <2>6, EmitAssumption DEF IsSink, CapabilityOf, ContractOf
    <3> QED BY <2>6, <3>1 DEF IsOfInput, Transforms, IsPassthrough, IsSink, Nodes
  <2>8. PICK i \in Nodes : Transforms(project) = {i} /\ StreamRead(project, i)
    BY DEF Streams, StreamsThrough, Nodes
  <2>9. PICK made \in Port : ContractOf(project, i).outputs = {made}
    <3>1. Emitter(project, i) \in Streamable
      BY <2>8 DEF StreamRead
    <3>2. PICK port, made \in Port :
            Signature[Emitter(project, i)[1]] =
              [inputs |-> {port}, required |-> {port}, outputs |-> {made}]
      BY <3>1, EmitAssumption
    <3>3. ContractOf(project, i) = Signature[Emitter(project, i)[1]]
      BY DEF Emitter, CapabilityOf, ContractOf
    <3> QED BY <3>2, <3>3
  <2>10. /\ StreamsThrough(project, source.instance)
         /\ source \in Writes(project, source.instance)
    BY <2>6, <2>7, <2>8 DEF StreamsThrough, Writes
  <2>11. ASSUME NEW path \in PortPath, StreamsThrough(project, path.instance),
                path \in Writes(project, path.instance)
         PROVE  path = source
    <3>1. path.instance = i /\ source.instance = i
      BY <2>7, <2>8, <2>11 DEF StreamsThrough
    <3>2. path.port = made /\ source.port = made
      BY <2>6, <2>9, <2>11, <3>1 DEF Writes
    <3> QED BY <2>6, <3>1, <3>2 DEF PortPath
  <2> QED BY <2>6, <2>10, <2>11 DEF Streamed
<1> QED BY <1>1, RunsAreRight, PTL

=============================================================================
