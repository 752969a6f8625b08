-------------------------- MODULE GraphPatchProofs --------------------------
(***************************************************************************)
(* What is proved of GraphPatch, Proposals and Cortex for every document,  *)
(* patch, recipe, intent and proposer.                                     *)
(***************************************************************************)
EXTENDS Cortex, FiniteSetTheorems, SequenceTheorems, WellFoundedInduction, TLAPS

-----------------------------------------------------------------------------
(* One operation *)

Operations == {"add_instance", "remove_instance", "connect", "disconnect",
               "set_setting", "set_entrypoint"}

\* No operation of a patch leaves a binding or the entrypoint without its
\* instance, whatever came before it and whether the document is valid or not.
THEOREM OperationsKeepWhole ==
  ASSUME NEW p \in Project, Whole(p), NEW op, op.op \in Operations,
         NEW q \in ApplyOne(p, op)
  PROVE  Whole(q)
<1> USE DEF When, Whole, Instances, EntrypointExists
<1>1. CASE op.op = "add_instance"
  <2>1. q \in AddInstance(p, op)
    BY <1>1 DEF ApplyOne
  <2> DEFINE known == IF op.contract = None THEN p.capabilities
                      ELSE p.capabilities \cup {op.contract}
             insts == [i \in Instances(p) \cup {op.id} |->
                        IF i = op.id
                          THEN [capability |-> op.capability, setting |-> op.setting]
                          ELSE p.instances[i]]
  <2>2. q = [p EXCEPT !.capabilities = known, !.instances = insts]
    BY <2>1 DEF AddInstance
  <2>3. DOMAIN insts = Instances(p) \cup {op.id}
    OBVIOUS
  <2> HIDE DEF known, insts
  <2>4. q.bindings = p.bindings /\ q.entrypoint = p.entrypoint /\ q.instances = insts
    BY <2>2 DEF Project
  <2> QED BY <2>3, <2>4
<1>2. CASE op.op = "remove_instance"
  <2>1. q \in RemoveInstance(p, op)
    BY <1>2 DEF ApplyOne
  <2> DEFINE insts == [i \in Instances(p) \ {op.id} |-> p.instances[i]]
             kept == {b \in p.bindings :
                       b.from.instance # op.id /\ b.to.instance # op.id}
             entry == IF p.entrypoint = op.id THEN NoInstance ELSE p.entrypoint
  <2>2. q = [p EXCEPT !.instances = insts, !.bindings = kept, !.entrypoint = entry]
    BY <2>1 DEF RemoveInstance, Project
  <2>3. DOMAIN insts = Instances(p) \ {op.id}
    OBVIOUS
  <2> HIDE DEF insts
  <2>4. q.bindings = kept /\ q.entrypoint = entry /\ q.instances = insts
    BY <2>2 DEF Project
  <2> QED BY <2>3, <2>4
<1>3. CASE op.op = "connect"
  <2>1. q \in Connect(p, op)
    BY <1>3 DEF ApplyOne
  <2>2. /\ q.bindings = p.bindings \cup {[from |-> op.from, to |-> op.to]}
        /\ q.entrypoint = p.entrypoint /\ Instances(q) = Instances(p)
        /\ {op.from.instance, op.to.instance} \subseteq Instances(p)
    BY <2>1 DEF Connect, HasPort, Project
  <2> QED BY <2>2
<1>4. CASE op.op = "disconnect"
  <2>1. q \in Disconnect(p, op)
    BY <1>4 DEF ApplyOne
  <2>2. /\ q.bindings \subseteq p.bindings
        /\ q.entrypoint = p.entrypoint /\ Instances(q) = Instances(p)
    BY <2>1 DEF Disconnect, Project
  <2> QED BY <2>2
<1>5. CASE op.op = "set_setting"
  <2>1. q \in SetSetting(p, op)
    BY <1>5 DEF ApplyOne
  <2>2. /\ q.bindings = p.bindings
        /\ q.entrypoint = p.entrypoint /\ Instances(q) = Instances(p)
    BY <2>1 DEF SetSetting, Project
  <2> QED BY <2>2
<1>6. CASE op.op = "set_entrypoint"
  <2>1. q \in SetEntrypoint(p, op)
    BY <1>6 DEF ApplyOne
  <2>2. /\ q.bindings = p.bindings
        /\ q.entrypoint = op.id /\ Instances(q) = Instances(p)
        /\ op.id \in Instances(p) \cup {NoInstance}
    BY <2>1 DEF SetEntrypoint, Project
  <2> QED BY <2>2
<1> QED BY <1>1, <1>2, <1>3, <1>4, <1>5, <1>6 DEF Operations

\* A document by its fields.
LEMMA ProjectFields ==
  ASSUME NEW p \in Project
  PROVE  /\ p.instances \in [Instances(p) -> Instance] /\ Instances(p) \subseteq Id
         /\ p.capabilities \subseteq Capability /\ p.bindings \subseteq Binding
         /\ p.entrypoint \in Id \cup {NoInstance}
         /\ p = [instances |-> p.instances, capabilities |-> p.capabilities,
                 bindings |-> p.bindings, entrypoint |-> p.entrypoint]
  BY DEF Project, Instances

LEMMA FieldsProject ==
  ASSUME NEW S \in SUBSET Id, NEW instances \in [S -> Instance],
         NEW capabilities \in SUBSET Capability, NEW bindings \in SUBSET Binding,
         NEW entrypoint \in Id \cup {NoInstance}
  PROVE  [instances |-> instances, capabilities |-> capabilities,
          bindings |-> bindings, entrypoint |-> entrypoint] \in Project
  BY DEF Project

LEMMA BindingsChanged ==
  ASSUME NEW p \in Project, NEW bindings
  PROVE  [p EXCEPT !.bindings = bindings] =
           [instances |-> p.instances, capabilities |-> p.capabilities,
            bindings |-> bindings, entrypoint |-> p.entrypoint]
<1> DEFINE i == p.instances  c == p.capabilities  b == p.bindings  e == p.entrypoint
<1>1. p = [instances |-> i, capabilities |-> c, bindings |-> b, entrypoint |-> e]
  BY ProjectFields
<1> HIDE DEF i, c, b, e
<1>2. [p EXCEPT !.bindings = bindings] =
        [instances |-> i, capabilities |-> c, bindings |-> bindings, entrypoint |-> e]
  BY <1>1
<1> QED BY <1>2 DEF i, c, e

LEMMA InstancesChanged ==
  ASSUME NEW p \in Project, NEW instances, NEW capabilities
  PROVE  [p EXCEPT !.capabilities = capabilities, !.instances = instances] =
           [instances |-> instances, capabilities |-> capabilities,
            bindings |-> p.bindings, entrypoint |-> p.entrypoint]
<1> DEFINE i == p.instances  c == p.capabilities  b == p.bindings  e == p.entrypoint
<1>1. p = [instances |-> i, capabilities |-> c, bindings |-> b, entrypoint |-> e]
  BY ProjectFields
<1> HIDE DEF i, c, b, e
<1>2. [p EXCEPT !.capabilities = capabilities] =
        [instances |-> i, capabilities |-> capabilities, bindings |-> b, entrypoint |-> e]
  BY <1>1
<1>3. [[instances |-> i, capabilities |-> capabilities, bindings |-> b, entrypoint |-> e]
         EXCEPT !.instances = instances] =
        [instances |-> instances, capabilities |-> capabilities, bindings |-> b,
         entrypoint |-> e]
  OBVIOUS
<1> QED BY <1>2, <1>3 DEF b, e

\* What is left of a document when an instance goes.
Remaining(p, instances, bindings, entrypoint) ==
  [p EXCEPT !.instances = instances, !.bindings = bindings, !.entrypoint = entrypoint]

LEMMA RemainingFields ==
  ASSUME NEW p \in Project, NEW instances, NEW bindings, NEW entrypoint
  PROVE  Remaining(p, instances, bindings, entrypoint) =
           [instances |-> instances, capabilities |-> p.capabilities,
            bindings |-> bindings, entrypoint |-> entrypoint]
<1> DEFINE i == p.instances  c == p.capabilities  b == p.bindings  e == p.entrypoint
<1>1. p = [instances |-> i, capabilities |-> c, bindings |-> b, entrypoint |-> e]
  BY ProjectFields
<1> HIDE DEF i, c, b, e
<1>2. [p EXCEPT !.instances = instances] =
        [instances |-> instances, capabilities |-> c, bindings |-> b, entrypoint |-> e]
  BY <1>1
<1>3. [[instances |-> instances, capabilities |-> c, bindings |-> b, entrypoint |-> e]
         EXCEPT !.bindings = bindings] =
        [instances |-> instances, capabilities |-> c, bindings |-> bindings,
         entrypoint |-> e]
  OBVIOUS
<1>4. [[instances |-> instances, capabilities |-> c, bindings |-> bindings,
        entrypoint |-> e] EXCEPT !.entrypoint = entrypoint] =
        [instances |-> instances, capabilities |-> c, bindings |-> bindings,
         entrypoint |-> entrypoint]
  OBVIOUS
<1> QED BY <1>2, <1>3, <1>4 DEF c, Remaining

\* What each operation makes, by the fields it changes.
LEMMA AddMakes ==
  ASSUME NEW p \in Project, NEW op, op.op = "add_instance", NEW q \in ApplyOne(p, op)
  PROVE  /\ op.id \notin Instances(p)
         /\ op.contract = None => op.capability \in p.capabilities
         /\ q = [instances |-> [i \in Instances(p) \cup {op.id} |->
                    IF i = op.id
                      THEN [capability |-> op.capability, setting |-> op.setting]
                      ELSE p.instances[i]],
                 capabilities |-> IF op.contract = None THEN p.capabilities
                                  ELSE p.capabilities \cup {op.contract},
                 bindings |-> p.bindings, entrypoint |-> p.entrypoint]
<1>1. q \in AddInstance(p, op)
  BY DEF ApplyOne
<1> DEFINE known == IF op.contract = None THEN p.capabilities
                    ELSE p.capabilities \cup {op.contract}
           insts == [i \in Instances(p) \cup {op.id} |->
                      IF i = op.id
                        THEN [capability |-> op.capability, setting |-> op.setting]
                        ELSE p.instances[i]]
<1>2. /\ op.id \notin Instances(p) /\ (op.contract = None => op.capability \in p.capabilities)
      /\ q = [p EXCEPT !.capabilities = known, !.instances = insts]
  BY <1>1 DEF AddInstance, When
<1> HIDE DEF known, insts
<1>3. q = [instances |-> insts, capabilities |-> known,
           bindings |-> p.bindings, entrypoint |-> p.entrypoint]
  BY <1>2, InstancesChanged
<1> QED BY <1>2, <1>3 DEF known, insts

LEMMA SetMakes ==
  ASSUME NEW p \in Project, NEW op, op.op = "set_setting", NEW q \in ApplyOne(p, op)
  PROVE  /\ op.id \in Instances(p)
         /\ q = [instances |-> [p.instances EXCEPT ![op.id] =
                    [capability |-> p.instances[op.id].capability, setting |-> op.setting]],
                 capabilities |-> p.capabilities,
                 bindings |-> p.bindings, entrypoint |-> p.entrypoint]
<1>1. q \in SetSetting(p, op)
  BY DEF ApplyOne
<1>2. op.id \in Instances(p) /\ q = [p EXCEPT !.instances[op.id].setting = op.setting]
  BY <1>1 DEF SetSetting, When
<1>3. p.instances[op.id] \in Instance
  BY <1>2, ProjectFields
<1>4. [p.instances[op.id] EXCEPT !.setting = op.setting] =
        [capability |-> p.instances[op.id].capability, setting |-> op.setting]
  BY <1>3 DEF Instance
<1>5. q = [p EXCEPT !.instances = [p.instances EXCEPT ![op.id] =
             [p.instances[op.id] EXCEPT !.setting = op.setting]]]
  BY <1>2
<1> QED BY <1>2, <1>4, <1>5, ProjectFields

LEMMA ConnectMakes ==
  ASSUME NEW p \in Project, NEW op, op.op = "connect", NEW q \in ApplyOne(p, op)
  PROVE  /\ {op.from.instance, op.to.instance} \subseteq Instances(p)
         /\ q = [instances |-> p.instances, capabilities |-> p.capabilities,
                 bindings |-> p.bindings \cup {[from |-> op.from, to |-> op.to]},
                 entrypoint |-> p.entrypoint]
<1>1. q \in Connect(p, op)
  BY DEF ApplyOne
<1>2. /\ HasPort(p, op.from) /\ HasPort(p, op.to)
      /\ q = [p EXCEPT !.bindings = p.bindings \cup {[from |-> op.from, to |-> op.to]}]
  BY <1>1 DEF Connect, When
<1>3. q = [instances |-> p.instances, capabilities |-> p.capabilities,
           bindings |-> p.bindings \cup {[from |-> op.from, to |-> op.to]},
           entrypoint |-> p.entrypoint]
  <2> DEFINE more == p.bindings \cup {[from |-> op.from, to |-> op.to]}
  <2>1. q = [p EXCEPT !.bindings = more]
    BY <1>2
  <2> HIDE DEF more
  <2>2. q = [instances |-> p.instances, capabilities |-> p.capabilities,
             bindings |-> more, entrypoint |-> p.entrypoint]
    BY <2>1, BindingsChanged
  <2> QED BY <2>2 DEF more
<1> QED BY <1>2, <1>3 DEF HasPort

LEMMA EntrypointMakes ==
  ASSUME NEW p \in Project, NEW op, op.op = "set_entrypoint", NEW q \in ApplyOne(p, op)
  PROVE  /\ op.id \in Instances(p) \cup {NoInstance}
         /\ q = [instances |-> p.instances, capabilities |-> p.capabilities,
                 bindings |-> p.bindings, entrypoint |-> op.id]
<1>1. q \in SetEntrypoint(p, op)
  BY DEF ApplyOne
<1>2. op.id \in Instances(p) \cup {NoInstance} /\ q = [p EXCEPT !.entrypoint = op.id]
  BY <1>1 DEF SetEntrypoint, When
<1> QED BY <1>2, ProjectFields

LEMMA OperationFields ==
  ASSUME NEW op \in Operation
  PROVE  /\ op.op \in Operations
         /\ op.op = "add_instance" =>
              /\ op.id \in Id /\ op.capability \in Capability /\ op.setting \in Setting
              /\ op.contract \in Capability \cup {None}
         /\ op.op \in {"connect", "disconnect"} => op.from \in PortPath /\ op.to \in PortPath
         /\ op.op = "set_setting" => op.id \in Id /\ op.setting \in Setting
         /\ op.op = "set_entrypoint" => op.id \in Id \cup {NoInstance}
  BY DEF Operation, Operations

\* An operation makes a document of a document.
LEMMA OperationKeepsProject ==
  ASSUME NEW p \in Project, NEW op \in Operation, NEW q \in ApplyOne(p, op)
  PROVE  q \in Project
<1>1. CASE op.op = "add_instance"
  <2> DEFINE S == Instances(p) \cup {op.id}
             insts == [i \in S |->
                        IF i = op.id
                          THEN [capability |-> op.capability, setting |-> op.setting]
                          ELSE p.instances[i]]
             known == IF op.contract = None THEN p.capabilities
                      ELSE p.capabilities \cup {op.contract}
  <2>1. insts \in [S -> Instance] /\ S \subseteq Id
    BY <1>1, ProjectFields, OperationFields DEF Instance
  <2>2. known \subseteq Capability
    BY <1>1, ProjectFields, OperationFields
  <2>3. q = [instances |-> insts, capabilities |-> known,
             bindings |-> p.bindings, entrypoint |-> p.entrypoint]
    BY <1>1, AddMakes
  <2> HIDE DEF insts, known, S
  <2> QED BY <2>1, <2>2, <2>3, ProjectFields, FieldsProject
<1>2. CASE op.op = "remove_instance"
  <2> DEFINE S == Instances(p) \ {op.id}
             insts == [i \in S |-> p.instances[i]]
             kept == {b \in p.bindings :
                       b.from.instance # op.id /\ b.to.instance # op.id}
             entry == IF p.entrypoint = op.id THEN NoInstance ELSE p.entrypoint
  <2>1. q \in RemoveInstance(p, op)
    BY <1>2 DEF ApplyOne
  <2>2. q = Remaining(p, insts, kept, entry)
    BY <2>1 DEF RemoveInstance, When, Remaining
  <2>3. /\ insts \in [S -> Instance] /\ S \subseteq Id /\ kept \subseteq Binding
        /\ entry \in Id \cup {NoInstance} /\ p.capabilities \subseteq Capability
    BY ProjectFields
  <2> HIDE DEF insts, kept, entry, S
  <2>4. Remaining(p, insts, kept, entry) =
          [instances |-> insts, capabilities |-> p.capabilities, bindings |-> kept,
           entrypoint |-> entry]
    BY RemainingFields
  <2>5. [instances |-> insts, capabilities |-> p.capabilities, bindings |-> kept,
         entrypoint |-> entry] \in Project
    BY <2>3, FieldsProject
  <2> QED BY <2>2, <2>4, <2>5
<1>3. CASE op.op = "connect"
  <2>1. p.bindings \cup {[from |-> op.from, to |-> op.to]} \subseteq Binding
    BY <1>3, ProjectFields, OperationFields DEF Binding
  <2> QED BY <1>3, <2>1, ConnectMakes, ProjectFields, FieldsProject
<1>4. CASE op.op = "disconnect"
  <2>1. q \in Disconnect(p, op)
    BY <1>4 DEF ApplyOne
  <2>2. q = [p EXCEPT !.bindings = p.bindings \ {[from |-> op.from, to |-> op.to]}]
    BY <2>1 DEF Disconnect, When
  <2> DEFINE less == p.bindings \ {[from |-> op.from, to |-> op.to]}
  <2>3. less \subseteq Binding
    BY ProjectFields
  <2>4. q = [p EXCEPT !.bindings = less]
    BY <2>2
  <2> HIDE DEF less
  <2>5. q = [instances |-> p.instances, capabilities |-> p.capabilities,
             bindings |-> less, entrypoint |-> p.entrypoint]
    BY <2>4, BindingsChanged
  <2> QED BY <2>3, <2>5, ProjectFields, FieldsProject
<1>5. CASE op.op = "set_setting"
  <2>1. op.id \in Instances(p)
    BY <1>5, SetMakes
  <2>2. [capability |-> p.instances[op.id].capability, setting |-> op.setting] \in Instance
    BY <1>5, <2>1, ProjectFields, OperationFields DEF Instance
  <2>3. [p.instances EXCEPT ![op.id] =
           [capability |-> p.instances[op.id].capability, setting |-> op.setting]]
          \in [Instances(p) -> Instance]
    BY <2>2, ProjectFields
  <2> QED BY <1>5, <2>3, SetMakes, ProjectFields, FieldsProject
<1>6. CASE op.op = "set_entrypoint"
  BY <1>6, EntrypointMakes, ProjectFields, OperationFields, FieldsProject
<1> QED BY <1>1, <1>2, <1>3, <1>4, <1>5, <1>6, OperationFields DEF Operations

-----------------------------------------------------------------------------
(* Lists of operations *)

\* There is no induction over operators here, so a list is followed up to the
\* first place where something would go wrong.
LEMMA LeastNumber ==
  ASSUME NEW S \in SUBSET Nat, S # {}
  PROVE  \E k \in S : \A j \in S : k <= j
<1>1. PICK k \in S : \A j \in S : <<j, k>> \notin OpToRel(<, Nat)
  BY NatLessThanWellFounded, WFMin
<1>2. \A j \in S : ~(j < k)
  BY <1>1 DEF OpToRel
<1> QED BY <1>2

\* The graphs after the first n operations.
After(p, ops, n, f) ==
  f = [k \in 0 .. n |-> IF k = 0 THEN {p}
                        ELSE UNION {ApplyOne(q, ops[k]) : q \in f[k - 1]}]

LEMMA AfterExists ==
  ASSUME NEW p, NEW ops, NEW n \in Nat
  PROVE  \E f : After(p, ops, n, f)
<1> DEFINE S == {k \in Nat : ~ \E f : After(p, ops, k, f)}
<1> SUFFICES ASSUME S # {} PROVE FALSE
  OBVIOUS
<1>1. PICK k \in S : \A j \in S : k <= j
  BY LeastNumber
<1>2. CASE k = 0
  <2> DEFINE f == [j \in 0 .. 0 |-> {p}]
  <2>1. f = [j \in 0 .. 0 |-> IF j = 0 THEN {p}
                              ELSE UNION {ApplyOne(q, ops[j]) : q \in f[j - 1]}]
    OBVIOUS
  <2> QED BY <2>1, <1>1, <1>2 DEF After
<1>3. CASE k # 0
  <2>1. k \in Nat /\ k - 1 \in Nat /\ k - 1 \notin S
    BY <1>1, <1>3
  <2>2. PICK f : After(p, ops, k - 1, f)
    BY <2>1
  <2> DEFINE g == [j \in 0 .. k |-> IF j = k THEN UNION {ApplyOne(q, ops[k]) : q \in f[k - 1]}
                                    ELSE f[j]]
  <2>3. ASSUME NEW j \in 0 .. k
        PROVE  g[j] = IF j = 0 THEN {p} ELSE UNION {ApplyOne(q, ops[j]) : q \in g[j - 1]}
    <3>1. CASE j = k
      <4>1. g[j] = UNION {ApplyOne(q, ops[k]) : q \in f[k - 1]} /\ g[k - 1] = f[k - 1]
        BY <3>1, <2>1
      <4> QED BY <4>1, <3>1, <1>3
    <3>2. CASE j # k
      <4>1. g[j] = f[j] /\ (j # 0 => g[j - 1] = f[j - 1]) /\ j \in 0 .. k - 1
        BY <3>2, <2>1
      <4>2. f[j] = IF j = 0 THEN {p} ELSE UNION {ApplyOne(q, ops[j]) : q \in f[j - 1]}
        BY <4>1, <2>2 DEF After
      <4> QED BY <4>1, <4>2
    <3> QED BY <3>1, <3>2
  <2>4. g = [j \in 0 .. k |-> g[j]]
    OBVIOUS
  <2> HIDE DEF g
  <2>5. After(p, ops, k, g)
    BY <2>3, <2>4 DEF After
  <2> QED BY <2>5, <1>1
<1> QED BY <1>2, <1>3

LEMMA ResultsUnfold ==
  ASSUME NEW p, NEW ops, Len(ops) \in Nat
  PROVE  \E f : After(p, ops, Len(ops), f) /\ Results(p, ops) = f[Len(ops)]
<1> DEFINE f == CHOOSE f : After(p, ops, Len(ops), f)
<1>1. After(p, ops, Len(ops), f)
  BY AfterExists
<1>2. Results(p, ops) = f[Len(ops)]
  BY DEF Results, After
<1> QED BY <1>1, <1>2

\* What holds of the document, and after every operation if it held before it,
\* holds of the result; and where every operation succeeds the list does.
LEMMA Along ==
  ASSUME NEW p, NEW ops, Len(ops) \in Nat, NEW G, p \in G[0],
         \A k \in 1 .. Len(ops) : \A q \in G[k - 1] : ApplyOne(q, ops[k]) \subseteq G[k]
  PROVE  /\ Results(p, ops) \subseteq G[Len(ops)]
         /\ (\A k \in 1 .. Len(ops) : \A q \in G[k - 1] : ApplyOne(q, ops[k]) # {}) =>
              Results(p, ops) # {}
<1>1. PICK f : After(p, ops, Len(ops), f) /\ Results(p, ops) = f[Len(ops)]
  BY ResultsUnfold
<1>2. f[0] = {p} /\ \A k \in 1 .. Len(ops) : f[k] = UNION {ApplyOne(q, ops[k]) : q \in f[k - 1]}
  <2>1. ASSUME NEW k \in 0 .. Len(ops)
        PROVE  f[k] = IF k = 0 THEN {p} ELSE UNION {ApplyOne(q, ops[k]) : q \in f[k - 1]}
    BY <1>1 DEF After
  <2>2. f[0] = {p}
    <3>1. 0 \in 0 .. Len(ops)
      OBVIOUS
    <3> QED BY <2>1, <3>1, Zenon
  <2>3. ASSUME NEW k \in 1 .. Len(ops)
        PROVE  f[k] = UNION {ApplyOne(q, ops[k]) : q \in f[k - 1]}
    <3>1. k \in 0 .. Len(ops) /\ k # 0
      OBVIOUS
    <3> QED BY <2>1, <3>1
  <2> QED BY <2>2, <2>3
<1>3. \A k \in 0 .. Len(ops) : f[k] \subseteq G[k]
  <2> DEFINE S == {k \in Nat : k <= Len(ops) /\ ~(f[k] \subseteq G[k])}
  <2> SUFFICES ASSUME S # {} PROVE FALSE
    OBVIOUS
  <2>1. PICK k \in S : \A j \in S : k <= j
    BY LeastNumber
  <2>2. k # 0
    BY <2>1, <1>2
  <2>3. k \in 1 .. Len(ops) /\ k - 1 \in Nat /\ k - 1 \notin S
    BY <2>1, <2>2
  <2>4. f[k - 1] \subseteq G[k - 1]
    BY <2>3
  <2> QED BY <2>1, <2>3, <2>4, <1>2
<1>4. ASSUME \A k \in 1 .. Len(ops) : \A q \in G[k - 1] : ApplyOne(q, ops[k]) # {}
      PROVE  \A k \in 0 .. Len(ops) : f[k] # {}
  <2> DEFINE S == {k \in Nat : k <= Len(ops) /\ f[k] = {}}
  <2> SUFFICES ASSUME S # {} PROVE FALSE
    OBVIOUS
  <2>1. PICK k \in S : \A j \in S : k <= j
    BY LeastNumber
  <2>2. k # 0
    BY <2>1, <1>2
  <2>3. k \in 1 .. Len(ops) /\ k - 1 \in 0 .. Len(ops) /\ k - 1 \notin S
    BY <2>1, <2>2
  <2>4. PICK q : q \in f[k - 1] /\ q \in G[k - 1]
    BY <2>3, <1>3
  <2>5. ApplyOne(q, ops[k]) # {} /\ ApplyOne(q, ops[k]) \subseteq f[k]
    BY <2>3, <2>4, <1>2, <1>4
  <2> QED BY <2>1, <2>5
<1> QED BY <1>1, <1>3, <1>4

LEMMA ApplyOpsIsResult ==
  ASSUME NEW p, NEW ops, Applies(p, ops)
  PROVE  ApplyOps(p, ops) \in Results(p, ops)
  BY DEF Applies, ApplyOps

LEMMA ResultsAreDocuments ==
  ASSUME NEW p \in Project, NEW ops \in Seq(Operation)
  PROVE  Results(p, ops) \subseteq Project
<1> DEFINE G == [k \in 0 .. Len(ops) |-> Project]
<1>1. Len(ops) \in Nat /\ \A k \in 1 .. Len(ops) : ops[k] \in Operation
  OBVIOUS
<1>2. G[0] = Project /\ G[Len(ops)] = Project
  BY <1>1
<1>3. ASSUME NEW k \in 1 .. Len(ops), NEW q \in G[k - 1]
      PROVE  ApplyOne(q, ops[k]) \subseteq G[k]
  <2>1. k - 1 \in 0 .. Len(ops) /\ k \in 0 .. Len(ops)
    BY <1>1
  <2>2. q \in Project /\ G[k] = Project
    BY <1>3, <2>1
  <2> QED BY <1>1, <2>2, OperationKeepsProject
<1> HIDE DEF G
<1> QED BY <1>1, <1>2, <1>3, Along

\* Neither does a list of them, wherever it ends.
LEMMA ResultsAreWhole ==
  ASSUME NEW p \in Project, Whole(p), NEW ops \in Seq(Operation)
  PROVE  \A q \in Results(p, ops) : Whole(q)
<1> DEFINE W == {q \in Project : Whole(q)}
           G == [k \in 0 .. Len(ops) |-> W]
<1>1. Len(ops) \in Nat /\ \A k \in 1 .. Len(ops) : ops[k] \in Operation
  OBVIOUS
<1>2. G[0] = W /\ G[Len(ops)] = W
  BY <1>1
<1>3. ASSUME NEW k \in 1 .. Len(ops), NEW q \in G[k - 1]
      PROVE  ApplyOne(q, ops[k]) \subseteq G[k]
  <2>1. k - 1 \in 0 .. Len(ops) /\ k \in 0 .. Len(ops)
    BY <1>1
  <2>2. q \in Project /\ Whole(q) /\ G[k] = W
    BY <1>3, <2>1
  <2>3. ops[k] \in Operation /\ ops[k].op \in Operations
    BY <1>1, OperationFields
  <2> QED BY <2>2, <2>3, OperationKeepsProject, OperationsKeepWhole
<1>4. p \in G[0]
  BY <1>2
<1> HIDE DEF G
<1>5. Results(p, ops) \subseteq G[Len(ops)]
  BY <1>1, <1>3, <1>4, Along
<1> QED BY <1>2, <1>5

-----------------------------------------------------------------------------
(* Proposals *)

\* The lists that the first n lists make, one after the other.
Joining(seqs, n, f) ==
  f = [i \in 1 .. n |-> IF i = 1 THEN seqs[i] ELSE f[i - 1] \o seqs[i]]

LEMMA JoiningExists ==
  ASSUME NEW seqs, NEW n \in Nat
  PROVE  \E f : Joining(seqs, n, f)
<1> DEFINE S == {k \in Nat : ~ \E f : Joining(seqs, k, f)}
<1> SUFFICES ASSUME S # {} PROVE FALSE
  OBVIOUS
<1>1. PICK k \in S : \A j \in S : k <= j
  BY LeastNumber
<1>2. CASE k = 0
  <2> DEFINE f == [i \in 1 .. 0 |-> seqs[i]]
  <2>1. f = [i \in 1 .. 0 |-> IF i = 1 THEN seqs[i] ELSE f[i - 1] \o seqs[i]]
    OBVIOUS
  <2> QED BY <2>1, <1>1, <1>2 DEF Joining
<1>3. CASE k # 0
  <2>1. k \in Nat /\ k - 1 \in Nat /\ k - 1 \notin S
    BY <1>1, <1>3
  <2>2. PICK f : Joining(seqs, k - 1, f)
    BY <2>1
  <2> DEFINE g == [i \in 1 .. k |-> IF i # k THEN f[i]
                                    ELSE IF k = 1 THEN seqs[k] ELSE f[k - 1] \o seqs[k]]
  <2>3. ASSUME NEW i \in 1 .. k
        PROVE  g[i] = IF i = 1 THEN seqs[i] ELSE g[i - 1] \o seqs[i]
    <3>1. CASE i = k
      <4>1. k # 1 => g[k - 1] = f[k - 1]
        BY <2>1
      <4> QED BY <4>1, <3>1
    <3>2. CASE i # k
      <4>1. g[i] = f[i] /\ (i # 1 => g[i - 1] = f[i - 1]) /\ i \in 1 .. k - 1
        BY <3>2, <2>1
      <4>2. f[i] = IF i = 1 THEN seqs[i] ELSE f[i - 1] \o seqs[i]
        BY <4>1, <2>2 DEF Joining
      <4> QED BY <4>1, <4>2
    <3> QED BY <3>1, <3>2
  <2>4. g = [i \in 1 .. k |-> g[i]]
    OBVIOUS
  <2> HIDE DEF g
  <2>5. Joining(seqs, k, g)
    BY <2>3, <2>4 DEF Joining
  <2> QED BY <2>5, <1>1
<1> QED BY <1>2, <1>3

LEMMA FlattenUnfold ==
  ASSUME NEW seqs, Len(seqs) \in Nat, Len(seqs) # 0
  PROVE  \E f : Joining(seqs, Len(seqs), f) /\ FlattenSeq(seqs) = f[Len(seqs)]
<1> DEFINE f == CHOOSE f : Joining(seqs, Len(seqs), f)
<1>1. Joining(seqs, Len(seqs), f)
  BY JoiningExists
<1>2. FlattenSeq(seqs) = f[Len(seqs)]
  BY DEF FlattenSeq, Joining
<1> QED BY <1>1, <1>2

LEMMA OneMore ==
  ASSUME NEW T, NEW a \in Seq(T), NEW b \in Seq(T), Len(b) = 1
  PROVE  /\ a \o b \in Seq(T) /\ Len(a \o b) = Len(a) + 1
         /\ (a \o b)[Len(a) + 1] = b[1]
         /\ \A m \in 1 .. Len(a) : (a \o b)[m] = a[m]
<1>1. Len(a) \in Nat
  OBVIOUS
<1>2. /\ a \o b \in Seq(T) /\ Len(a \o b) = Len(a) + 1
      /\ \A m \in 1 .. Len(a) + 1 :
           (a \o b)[m] = IF m <= Len(a) THEN a[m] ELSE b[m - Len(a)]
  <2>1. /\ a \o b \in Seq(T) /\ Len(a \o b) = Len(a) + Len(b)
        /\ \A m \in 1 .. Len(a) + Len(b) :
             (a \o b)[m] = IF m <= Len(a) THEN a[m] ELSE b[m - Len(a)]
    BY ConcatProperties, Zenon
  <2> QED BY <2>1
<1>3. (a \o b)[Len(a) + 1] = b[1]
  <2>1. Len(a) + 1 \in 1 .. Len(a) + 1 /\ ~(Len(a) + 1 <= Len(a)) /\ Len(a) + 1 - Len(a) = 1
    BY <1>1
  <2>2. (a \o b)[Len(a) + 1] = b[Len(a) + 1 - Len(a)]
    BY <1>2, <2>1
  <2> QED BY <2>1, <2>2
<1>4. \A m \in 1 .. Len(a) : (a \o b)[m] = a[m]
  <2>1. \A m \in 1 .. Len(a) : m \in 1 .. Len(a) + 1 /\ m <= Len(a)
    BY <1>1
  <2> QED BY <1>2, <2>1
<1> QED BY <1>2, <1>3, <1>4

LEMMA NoneMore ==
  ASSUME NEW T, NEW a \in Seq(T)
  PROVE  a \o <<>> = a
  OBVIOUS

\* `o` says from which of n lists of at most one element each element of `flat`
\* comes: every one from another list, and none is left out.
ComesFrom(seqs, n, flat, o) ==
  /\ o \in [1 .. Len(flat) -> 1 .. n]
  /\ \A m \in 1 .. Len(flat) : seqs[o[m]] # <<>> /\ flat[m] = seqs[o[m]][1]
  /\ \A l, m \in 1 .. Len(flat) : o[l] = o[m] => l = m
  /\ \A k \in 1 .. n : seqs[k] # <<>> => \E m \in 1 .. Len(flat) : o[m] = k

LEMMA FlattenOfSingles ==
  ASSUME NEW T, NEW seqs \in Seq(Seq(T)), Len(seqs) # 0,
         \A k \in 1 .. Len(seqs) : Len(seqs[k]) <= 1
  PROVE  /\ FlattenSeq(seqs) \in Seq(T)
         /\ \E o : ComesFrom(seqs, Len(seqs), FlattenSeq(seqs), o)
<1>1. PICK f : Joining(seqs, Len(seqs), f) /\ FlattenSeq(seqs) = f[Len(seqs)]
  BY FlattenUnfold
<1> DEFINE S == {k \in Nat : k \in 1 .. Len(seqs) /\
                  ~(f[k] \in Seq(T) /\ \E o : ComesFrom(seqs, k, f[k], o))}
<1>2. ASSUME NEW k \in 1 .. Len(seqs)
      PROVE  /\ f[k] = IF k = 1 THEN seqs[k] ELSE f[k - 1] \o seqs[k]
             /\ seqs[k] \in Seq(T) /\ Len(seqs[k]) \in {0, 1}
             /\ Len(seqs[k]) = 0 <=> seqs[k] = <<>>
  <2>1. f[k] = IF k = 1 THEN seqs[k] ELSE f[k - 1] \o seqs[k]
    BY <1>1 DEF Joining
  <2>2. seqs[k] \in Seq(T) /\ Len(seqs[k]) <= 1
    OBVIOUS
  <2>3. Len(seqs[k]) = 0 <=> seqs[k] = <<>>
    BY <2>2, EmptySeq
  <2>4. Len(seqs[k]) \in {0, 1}
    <3>1. PICK n \in Nat : n = Len(seqs[k])
      BY <2>2, LenProperties
    <3>2. n <= 1
      BY <3>1, <2>2
    <3>3. n = 0 \/ n = 1
      BY <3>2
    <3> QED BY <3>1, <3>3, Zenon
  <2> QED BY <2>1, <2>2, <2>3, <2>4
<1>3. ASSUME S # {} PROVE FALSE
  <2>1. PICK k \in S : \A j \in S : k <= j
    BY <1>3, LeastNumber
  <2>2. k \in 1 .. Len(seqs)
    BY <2>1
  <2>3. CASE k = 1
    <3> DEFINE o == [m \in 1 .. Len(seqs[1]) |-> 1]
    <3>1. f[1] = seqs[1] /\ f[1] \in Seq(T)
      BY <1>2, <2>2, <2>3
    <3>2. ComesFrom(seqs, 1, seqs[1], o)
      BY <1>2, <2>2, <2>3 DEF ComesFrom
    <3> QED BY <3>1, <3>2, <2>1, <2>3
  <2>4. CASE k # 1
    <3>1. k - 1 \in 1 .. Len(seqs) /\ k - 1 \notin S
      <4>1. k \in Nat /\ k - 1 \in 1 .. Len(seqs)
        BY <2>2, <2>4
      <4>2. ~(k <= k - 1)
        BY <4>1
      <4> QED BY <2>1, <4>1, <4>2, Zenon
    <3>2. f[k - 1] \in Seq(T)
      BY <3>1
    <3>3. PICK o : ComesFrom(seqs, k - 1, f[k - 1], o)
      BY <3>1
    <3>4. f[k] = f[k - 1] \o seqs[k] /\ f[k] \in Seq(T)
      <4>1. f[k] = f[k - 1] \o seqs[k] /\ seqs[k] \in Seq(T)
        BY <1>2, <2>2, <2>4
      <4> QED BY <4>1, <3>2
    <3>5. CASE seqs[k] = <<>>
      <4>1. f[k] = f[k - 1]
        BY <3>2, <3>4, <3>5, NoneMore
      <4>2. 1 .. k - 1 \subseteq 1 .. k /\ \A j \in 1 .. k : j = k \/ j \in 1 .. k - 1
        BY <2>2
      <4>3. ComesFrom(seqs, k, f[k - 1], o)
        BY <4>2, <3>3, <3>5 DEF ComesFrom
      <4>4. ComesFrom(seqs, k, f[k], o)
        BY <4>1, <4>3
      <4> QED BY <4>4, <3>4, <2>1
    <3>6. CASE seqs[k] # <<>>
      <4> DEFINE len == Len(f[k - 1])
                 g == [m \in 1 .. len + 1 |-> IF m = len + 1 THEN k ELSE o[m]]
      <4>1. /\ len \in Nat /\ Len(f[k]) = len + 1
            /\ f[k][len + 1] = seqs[k][1]
            /\ \A m \in 1 .. len : f[k][m] = f[k - 1][m]
        <5>1. seqs[k] \in Seq(T) /\ Len(seqs[k]) = 1
          BY <1>2, <2>2, <3>6
        <5>2. len \in Nat
          BY <3>2
        <5>3. /\ Len(f[k - 1] \o seqs[k]) = len + 1
              /\ (f[k - 1] \o seqs[k])[len + 1] = seqs[k][1]
              /\ \A m \in 1 .. len : (f[k - 1] \o seqs[k])[m] = f[k - 1][m]
          <6> DEFINE x == f[k - 1]  y == seqs[k]
          <6>1. x \in Seq(T) /\ y \in Seq(T) /\ Len(y) = 1
            BY <5>1, <3>2
          <6> HIDE DEF x, y
          <6>2. /\ Len(x \o y) = Len(x) + 1
                /\ (x \o y)[Len(x) + 1] = y[1]
                /\ \A m \in 1 .. Len(x) : (x \o y)[m] = x[m]
            BY <6>1, OneMore, Zenon
          <6> QED BY <6>2 DEF x, y
        <5> QED BY <5>2, <5>3, <3>4
      <4>2. ComesFrom(seqs, k, f[k], g)
        <5>1. g \in [1 .. len + 1 -> 1 .. k]
          BY <4>1, <3>3, <2>2 DEF ComesFrom
        <5>2. /\ g[len + 1] = k
              /\ \A m \in 1 .. len : g[m] = o[m] /\ o[m] \in 1 .. k - 1
          <6>1. \A m \in 1 .. len : o[m] \in 1 .. k - 1
            BY <3>3 DEF ComesFrom
          <6>2. len + 1 \in 1 .. len + 1 /\ \A m \in 1 .. len : m \in 1 .. len + 1 /\ m # len + 1
            BY <4>1
          <6> HIDE DEF len
          <6> QED BY <6>1, <6>2
        <5> HIDE DEF g, len
        <5>3. \A m \in 1 .. len + 1 : m = len + 1 \/ m \in 1 .. len
          BY <4>1
        <5>4. \A m \in 1 .. len + 1 : seqs[g[m]] # <<>> /\ f[k][m] = seqs[g[m]][1]
          <6>1. \A m \in 1 .. len : seqs[o[m]] # <<>> /\ f[k - 1][m] = seqs[o[m]][1]
            BY <3>3 DEF ComesFrom, len
          <6> QED BY <6>1, <5>2, <5>3, <4>1, <3>6
        <5>5. \A l, m \in 1 .. len + 1 : g[l] = g[m] => l = m
          <6>1. \A l, m \in 1 .. len : o[l] = o[m] => l = m
            BY <3>3 DEF ComesFrom, len
          <6>2. ASSUME NEW l \in 1 .. len + 1, NEW m \in 1 .. len + 1, g[l] = g[m]
                PROVE  l = m
            <7>1. ASSUME NEW n \in 1 .. len PROVE g[n] # k
              <8>1. g[n] \in 1 .. k - 1 /\ k \in Nat
                BY <5>2, <2>2
              <8> QED BY <8>1
            <7>2. CASE l \in 1 .. len /\ m \in 1 .. len
              BY <6>1, <6>2, <5>2, <7>2
            <7>3. CASE ~(l \in 1 .. len /\ m \in 1 .. len)
              <8>1. (l \in 1 .. len \/ l = len + 1) /\ (m \in 1 .. len \/ m = len + 1)
                BY <5>3
              <8> QED BY <6>2, <5>2, <7>1, <7>3, <8>1
            <7> QED BY <7>2, <7>3
          <6> QED BY <6>2
        <5>6. \A j \in 1 .. k : seqs[j] # <<>> => \E m \in 1 .. len + 1 : g[m] = j
          <6>1. \A j \in 1 .. k - 1 : seqs[j] # <<>> => \E m \in 1 .. len : o[m] = j
            BY <3>3 DEF ComesFrom, len
          <6>2. ASSUME NEW j \in 1 .. k - 1, seqs[j] # <<>>
                PROVE  \E m \in 1 .. len + 1 : g[m] = j
            <7>1. PICK m \in 1 .. len : o[m] = j
              BY <6>1, <6>2
            <7>2. m \in 1 .. len + 1
              BY <4>1
            <7>3. g[m] = j
              BY <7>1, <5>2
            <7> QED BY <7>2, <7>3
          <6>3. \E m \in 1 .. len + 1 : g[m] = k
            BY <5>2, <4>1
          <6>4. \A j \in 1 .. k : j \in 1 .. k - 1 \/ j = k
            BY <2>2
          <6> QED BY <6>2, <6>3, <6>4
        <5> QED BY <4>1, <5>1, <5>4, <5>5, <5>6 DEF ComesFrom
      <4> QED BY <4>2, <3>4, <2>1
    <3> QED BY <3>5, <3>6
  <2> QED BY <2>3, <2>4
<1>4. Len(seqs) \in 1 .. Len(seqs)
  OBVIOUS
<1>5. f[Len(seqs)] \in Seq(T) /\ \E o : ComesFrom(seqs, Len(seqs), f[Len(seqs)], o)
  BY <1>3, <1>4
<1> QED BY <1>1, <1>5

LEMMA SetToSeqIsBijection ==
  ASSUME NEW S, IsFiniteSet(S)
  PROVE  /\ Cardinality(S) \in Nat
         /\ SetToSeq(S) \in [1 .. Cardinality(S) -> S]
         /\ \A l, m \in 1 .. Cardinality(S) : SetToSeq(S)[l] = SetToSeq(S)[m] => l = m
         /\ \A x \in S : \E m \in 1 .. Cardinality(S) : SetToSeq(S)[m] = x
<1> DEFINE n == Cardinality(S)
<1>1. n \in Nat /\ ExistsBijection(1 .. n, S)
  BY FS_CardinalityType
<1>2. PICK f \in [1 .. n -> S] : IsInjective(f)
  BY <1>1 DEF ExistsBijection, Bijection, Injection
<1>3. SetToSeq(S) \in [1 .. n -> S] /\ IsInjective(SetToSeq(S))
  BY <1>2 DEF SetToSeq
<1>4. SetToSeq(S) \in Surjection(1 .. n, S)
  <2>1. SetToSeq(S) \in Injection(1 .. n, S)
    BY <1>3 DEF Injection
  <2>2. Cardinality(1 .. n) = n
    BY <1>1, FS_Interval
  <2> QED BY <2>1, <2>2, FS_Injection
<1> QED BY <1>1, <1>3, <1>4 DEF IsInjective, Surjection

LEMMA RecipeFacts ==
  /\ DOMAIN Recipe = 1 .. Len(Recipe) /\ Len(Recipe) \in Nat /\ 1 \in DOMAIN Recipe
  /\ Len(Recipe) # 0
  /\ \A k \in DOMAIN Recipe :
       /\ Recipe[k] = [id |-> Recipe[k].id, capability |-> Recipe[k].capability,
                       setting |-> Recipe[k].setting]
       /\ Recipe[k].id \in Id /\ Recipe[k].capability \in Capability
       /\ Recipe[k].setting \in Settings
<1> DEFINE R == [id : Id, capability : Capability, setting : Settings]
<1>1. Recipe \in Seq(R) /\ Recipe # <<>>
  BY RecipeAssumption, Zenon
<1>2. Len(Recipe) \in Nat \ {0} /\ DOMAIN Recipe = 1 .. Len(Recipe)
  BY <1>1, LenProperties, EmptySeq
<1>3. ASSUME NEW k \in DOMAIN Recipe PROVE Recipe[k] \in R
  BY <1>1, <1>2, ElementOfSeq
<1> QED BY <1>2, <1>3

\* Filling in what is missing makes a setting in which nothing is missing but,
\* perhaps, a path that is a string.
LEMMA FilledIsFull ==
  ASSUME NEW k \in DOMAIN Recipe, NEW s \in Settings
  PROVE  /\ Recipe[k].id \in Id /\ Recipe[k].capability \in Capability
         /\ Recipe[k].setting \in Settings /\ Filled(Recipe[k], s) \in Settings
         /\ ~Unset(Recipe[k], Recipe[k].setting)
         /\ Filled(Recipe[k], Filled(Recipe[k], s)) = Filled(Recipe[k], s)
         /\ Filled(Recipe[k], s).config.path # "other" =>
              ~Unset(Recipe[k], Filled(Recipe[k], s))
<1> DEFINE node == Recipe[k]
<1>2. /\ node.id \in Id /\ node.capability \in Capability /\ node.setting \in Settings
      /\ node.setting.config.path = "text" => node.setting.config.value
  BY RecipeFacts, RecipeAssumption
<1> HIDE DEF node
<1> DEFINE lacks == node.setting.config.path = "text"
                    /\ (s.config.path # "text" \/ ~s.config.value)
           path == IF lacks /\ s.config.path = "none" THEN "text" ELSE s.config.path
           value == IF lacks THEN TRUE ELSE s.config.value
           impl == IF s.implementation = None THEN node.setting.implementation
                   ELSE s.implementation
<1>3. /\ s.implementation \in Implementation \cup {None}
      /\ s.config = [path |-> s.config.path, value |-> s.config.value]
      /\ s.config.path \in {"none", "text", "other"} /\ s.config.value \in BOOLEAN
      /\ node.setting.implementation \in Implementation \cup {None}
  BY <1>2 DEF Settings, Config
<1>4. Filled(node, s) = [implementation |-> impl, config |-> [path |-> path, value |-> value]]
  BY <1>3 DEF Filled
<1>5. /\ impl \in Implementation \cup {None}
      /\ path \in {"none", "text", "other"} /\ value \in BOOLEAN
  BY <1>3
<1>6. Filled(node, s) \in Settings
  <2> HIDE DEF impl, path, value, lacks
  <2> QED BY <1>4, <1>5 DEF Settings, Config
<1>7. ~Unset(node, node.setting)
  BY <1>2 DEF Unset
<1>8. /\ node.setting.config.path = "text" => path = "other" \/ (path = "text" /\ value)
      /\ node.setting.config.path = "text" => value
      /\ impl = None => node.setting.implementation = None
  BY <1>3
<1>9. Filled(node, s).config.path # "other" => ~Unset(node, Filled(node, s))
  <2> HIDE DEF impl, path, value, lacks
  <2> QED BY <1>4, <1>5, <1>8 DEF Unset
<1>10. Filled(node, Filled(node, s)) = Filled(node, s)
  <2> HIDE DEF impl, path, value, lacks
  <2> QED BY <1>4, <1>5, <1>8 DEF Filled
<1> QED BY <1>2, <1>6, <1>7, <1>9, <1>10 DEF node

\* The operation for a node, if there is one.
AddOp(p, given, node) ==
  [op |-> "add_instance", id |-> node.id, capability |-> node.capability,
   setting |-> node.setting, contract |-> ContractFor(p, given, node.capability)]
SetOp(p, node) ==
  [op |-> "set_setting", id |-> node.id,
   setting |-> Filled(node, p.instances[node.id].setting)]
Misses(p, node) ==
  /\ node.id \in Instances(p) /\ ~Conflicts(p, node)
  /\ Unset(node, p.instances[node.id].setting)

LEMMA NodeOpsShape ==
  ASSUME NEW p \in Project, NEW given \in SUBSET Capability, NEW k \in DOMAIN Recipe
  PROVE  LET node == Recipe[k] IN
         /\ NodeOps(p, given, node) =
              IF node.id \notin Instances(p) THEN <<AddOp(p, given, node)>>
              ELSE IF Misses(p, node) THEN <<SetOp(p, node)>> ELSE <<>>
         /\ NodeOps(p, given, node) \in Seq(Operation)
         /\ Len(NodeOps(p, given, node)) <= 1
<1> DEFINE node == Recipe[k]
<1>1. NodeOps(p, given, node) =
        IF node.id \notin Instances(p) THEN <<AddOp(p, given, node)>>
        ELSE IF Misses(p, node) THEN <<SetOp(p, node)>> ELSE <<>>
  BY DEF NodeOps, AddOp, SetOp, Misses, Conflicts
<1>2. node.id \notin Instances(p) => AddOp(p, given, node) \in Operation
  <2>1. ContractFor(p, given, node.capability) \in Capability \cup {None}
    BY ProjectFields, RecipeAssumption DEF ContractFor, Known
  <2>2. node.id \in Id /\ node.capability \in Capability /\ node.setting \in Setting
    BY RecipeFacts, RecipeAssumption
  <2> HIDE DEF node
  <2> QED BY <2>1, <2>2 DEF AddOp, Operation
<1>3. Misses(p, node) => SetOp(p, node) \in Operation
  <2> SUFFICES ASSUME Misses(p, node) PROVE SetOp(p, node) \in Operation
    OBVIOUS
  <2>1. p.instances[node.id].setting \in Settings
    BY ProjectFields, RecipeAssumption DEF Misses, Instance
  <2>2. Filled(node, p.instances[node.id].setting) \in Setting /\ node.id \in Id
    BY <2>1, FilledIsFull, RecipeAssumption
  <2> HIDE DEF node
  <2> QED BY <2>2 DEF SetOp, Operation
<1> HIDE DEF node
<1>4. NodeOps(p, given, node) \in Seq(Operation) /\ Len(NodeOps(p, given, node)) <= 1
  <2>1. CASE node.id \notin Instances(p)
    BY <1>1, <1>2, <2>1
  <2>2. CASE node.id \in Instances(p) /\ Misses(p, node)
    BY <1>1, <1>3, <2>2
  <2>3. CASE node.id \in Instances(p) /\ ~Misses(p, node)
    BY <1>1, <2>3
  <2> QED BY <2>1, <2>2, <2>3
<1> QED BY <1>1, <1>4 DEF node

\* A proposal is `a` operations for nodes, each for the node that `o` says, `b`
\* connections, each for the binding that `e` says, and the entrypoint.
ProposalOf(p, given, ops, a, b, o, e) ==
  /\ a \in Nat /\ b \in Nat
  /\ ops \in Seq(Operation)
  /\ Len(ops) = IF p.entrypoint = Start THEN a + b ELSE a + b + 1
  /\ o \in [1 .. a -> DOMAIN Recipe]
  /\ \A m \in 1 .. a : /\ NodeOps(p, given, Recipe[o[m]]) # <<>>
                       /\ ops[m] = NodeOps(p, given, Recipe[o[m]])[1]
  /\ \A l, m \in 1 .. a : o[l] = o[m] => l = m
  /\ \A k \in DOMAIN Recipe :
       NodeOps(p, given, Recipe[k]) # <<>> => \E m \in 1 .. a : o[m] = k
  /\ e \in [1 .. b -> Edges \ p.bindings]
  /\ \A l, m \in 1 .. b : e[l] = e[m] => l = m
  /\ \A x \in Edges \ p.bindings : \E m \in 1 .. b : e[m] = x
  /\ \A m \in 1 .. b : ops[a + m] = [op |-> "connect", from |-> e[m].from, to |-> e[m].to]
  /\ \A m \in 1 .. Len(ops) :
       m > a + b => /\ p.entrypoint # Start
                    /\ ops[m] = [op |-> "set_entrypoint", id |-> Start]

LEMMA Joined ==
  ASSUME NEW S, NEW s \in Seq(S), NEW t \in Seq(S), NEW j, j = s \o t,
         NEW a, a = Len(s), NEW b, b = Len(t)
  PROVE  /\ j \in Seq(S) /\ Len(j) = a + b /\ a \in Nat /\ b \in Nat
         /\ \A m \in 1 .. a + b : j[m] = IF m <= a THEN s[m] ELSE t[m - a]
<1>1. /\ s \o t \in Seq(S) /\ Len(s \o t) = Len(s) + Len(t)
      /\ \A m \in 1 .. Len(s) + Len(t) :
           (s \o t)[m] = IF m <= Len(s) THEN s[m] ELSE t[m - Len(s)]
  BY ConcatProperties, Zenon
<1>2. Len(s) \in Nat /\ Len(t) \in Nat
  BY LenProperties
<1> QED BY <1>1, <1>2

LEMMA ProposalShape ==
  ASSUME NEW p \in Project, NEW given \in SUBSET Capability
  PROVE  \E a, b, o, e : ProposalOf(p, given, Propose(p, given), a, b, o, e)
<1> DEFINE seqs == [k \in DOMAIN Recipe |-> NodeOps(p, given, Recipe[k])]
           A == FlattenSeq(seqs)
           M == MissingEdges(p)
           B == [k \in DOMAIN M |-> [op |-> "connect", from |-> M[k].from, to |-> M[k].to]]
           C == EntrypointOps(p)
           b == Cardinality(Edges \ p.bindings)
<1>1. /\ DOMAIN Recipe = 1 .. Len(Recipe) /\ Len(Recipe) \in Nat /\ Len(Recipe) # 0
      /\ Recipe[1].id \in Id
  BY RecipeFacts
<1>2. /\ seqs \in Seq(Seq(Operation)) /\ Len(seqs) = Len(Recipe)
      /\ \A k \in 1 .. Len(seqs) : Len(seqs[k]) <= 1
      /\ \A k \in DOMAIN Recipe : seqs[k] = NodeOps(p, given, Recipe[k])
  BY <1>1, NodeOpsShape
<1>3. A \in Seq(Operation) /\ \E o : ComesFrom(seqs, Len(Recipe), A, o)
  <2> HIDE DEF seqs
  <2> QED BY <1>1, <1>2, FlattenOfSingles
<1>4. PICK o : ComesFrom(seqs, Len(Recipe), A, o)
  BY <1>3
<1>5. /\ b \in Nat /\ M \in [1 .. b -> Edges \ p.bindings]
      /\ \A l, m \in 1 .. b : M[l] = M[m] => l = m
      /\ \A x \in Edges \ p.bindings : \E m \in 1 .. b : M[m] = x
  <2>1. IsFiniteSet(Edges \ p.bindings)
    BY FS_Subset, RecipeAssumption
  <2> QED BY <2>1, SetToSeqIsBijection DEF MissingEdges
<1> HIDE DEF M, b
<1>6. /\ B \in Seq(Operation) /\ Len(B) = b
      /\ \A m \in 1 .. b : B[m] = [op |-> "connect", from |-> M[m].from, to |-> M[m].to]
  <2>1. DOMAIN M = 1 .. b
    BY <1>5
  <2>2. ASSUME NEW m \in 1 .. b
        PROVE  [op |-> "connect", from |-> M[m].from, to |-> M[m].to] \in Operation
    <3>1. M[m] \in Binding
      BY <1>5, RecipeAssumption
    <3> QED BY <3>1 DEF Binding, Operation
  <2>3. B \in [1 .. b -> Operation]
    BY <2>1, <2>2
  <2> QED BY <2>1, <2>3, <1>5
<1>7. /\ C \in Seq(Operation)
      /\ p.entrypoint = Start => Len(C) = 0
      /\ p.entrypoint # Start => /\ Len(C) = 1
                                 /\ C[1] = [op |-> "set_entrypoint", id |-> Start]
  <2>1. [op |-> "set_entrypoint", id |-> Start] \in Operation
    BY <1>1 DEF Start, Operation
  <2> QED BY <2>1 DEF EntrypointOps
<1> DEFINE a == Len(A)
<1> HIDE DEF A, B, C
<1>8. Propose(p, given) = (A \o B) \o C
  BY DEF Propose, A, B, C, M
<1> DEFINE D == A \o B
           ops == D \o C
<1>9. /\ a \in Nat /\ D \in Seq(Operation) /\ Len(D) = a + b
      /\ \A m \in 1 .. a + b : D[m] = IF m <= a THEN A[m] ELSE B[m - a]
  <2>1. A \in Seq(Operation) /\ B \in Seq(Operation) /\ b = Len(B)
    BY <1>3, <1>6
  <2> HIDE DEF b
  <2> QED BY <2>1, Joined
<1> HIDE DEF D
<1>10. /\ ops \in Seq(Operation) /\ Len(ops) = a + b + Len(C)
       /\ \A m \in 1 .. a + b + Len(C) :
            ops[m] = IF m <= a + b THEN D[m] ELSE C[m - (a + b)]
  <2> DEFINE d == a + b  c == Len(C)
  <2>1. D \in Seq(Operation) /\ C \in Seq(Operation) /\ d = Len(D) /\ c = Len(C)
    BY <1>7, <1>9
  <2> HIDE DEF d, c, ops
  <2>2. /\ ops \in Seq(Operation) /\ Len(ops) = d + c
        /\ \A m \in 1 .. d + c : ops[m] = IF m <= d THEN D[m] ELSE C[m - d]
    BY <2>1, Joined DEF ops
  <2> QED BY <2>2 DEF d, c
<1> HIDE DEF ops, a
<1>11. Len(C) \in Nat /\ (Len(C) = 0 \/ Len(C) = 1)
  BY <1>7
<1>12. \A m \in 1 .. a : ops[m] = A[m]
  <2> SUFFICES ASSUME NEW m \in 1 .. a PROVE ops[m] = A[m]
    OBVIOUS
  <2>1. m \in 1 .. a + b /\ m \in 1 .. a + b + Len(C) /\ m <= a + b /\ m <= a
    BY <1>5, <1>9, <1>11
  <2> QED BY <2>1, <1>9, <1>10
<1>13. \A m \in 1 .. b : ops[a + m] = B[m]
  <2> SUFFICES ASSUME NEW m \in 1 .. b PROVE ops[a + m] = B[m]
    OBVIOUS
  <2> DEFINE n == a + m  c == Len(C)
  <2>1. a \in Nat /\ b \in Nat /\ c \in Nat /\ m \in 1 .. b
    BY <1>5, <1>9, <1>11
  <2> HIDE DEF b, c
  <2>2. n \in 1 .. a + b /\ n \in 1 .. a + b + c /\ n <= a + b /\ ~(n <= a) /\ n - a = m
    BY <2>1
  <2> HIDE DEF n
  <2> USE DEF c
  <2>3. D[n] = B[m]
    BY <2>2, <1>9
  <2>4. ops[n] = D[n]
    BY <2>2, <1>10
  <2> QED BY <2>3, <2>4 DEF n
<1>14. ASSUME NEW m \in 1 .. Len(ops), m > a + b
       PROVE  /\ p.entrypoint # Start
              /\ ops[m] = [op |-> "set_entrypoint", id |-> Start]
  <2>1. /\ a \in Nat /\ b \in Nat /\ Len(ops) = a + b + Len(C)
        /\ m \in 1 .. a + b + Len(C)
    BY <1>5, <1>9, <1>10
  <2>2. Len(C) = 1 /\ ~(m <= a + b) /\ m - (a + b) = 1
    <3>1. m \in Nat /\ m <= a + b + Len(C) /\ m > a + b
      BY <2>1, <1>11, <1>14
    <3>2. Len(C) # 0
      BY <3>1, <2>1
    <3>3. Len(C) = 1
      BY <3>2, <1>11
    <3>4. m <= a + b + 1
      BY <3>1, <3>3
    <3> QED BY <2>1, <3>1, <3>3, <3>4
  <2>3. p.entrypoint # Start
    BY <2>2, <1>7
  <2>4. ops[m] = C[m - (a + b)]
    BY <2>1, <2>2, <1>10
  <2> QED BY <2>2, <2>3, <2>4, <1>7
<1>15. /\ o \in [1 .. a -> DOMAIN Recipe]
       /\ \A m \in 1 .. a : /\ NodeOps(p, given, Recipe[o[m]]) # <<>>
                            /\ A[m] = NodeOps(p, given, Recipe[o[m]])[1]
       /\ \A l, m \in 1 .. a : o[l] = o[m] => l = m
       /\ \A k \in DOMAIN Recipe :
            NodeOps(p, given, Recipe[k]) # <<>> => \E m \in 1 .. a : o[m] = k
  <2>1. /\ o \in [1 .. a -> DOMAIN Recipe]
        /\ \A m \in 1 .. a : seqs[o[m]] # <<>> /\ A[m] = seqs[o[m]][1]
        /\ \A l, m \in 1 .. a : o[l] = o[m] => l = m
        /\ \A k \in DOMAIN Recipe : seqs[k] # <<>> => \E m \in 1 .. a : o[m] = k
    <3> HIDE DEF seqs
    <3> QED BY <1>1, <1>4 DEF ComesFrom, a
  <2>2. \A k \in DOMAIN Recipe : seqs[k] = NodeOps(p, given, Recipe[k])
    BY <1>2
  <2> HIDE DEF seqs
  <2>3. ASSUME NEW m \in 1 .. a
        PROVE  /\ NodeOps(p, given, Recipe[o[m]]) # <<>>
               /\ A[m] = NodeOps(p, given, Recipe[o[m]])[1]
    <3>1. o[m] \in DOMAIN Recipe
      BY <2>1
    <3>2. seqs[o[m]] = NodeOps(p, given, Recipe[o[m]])
      BY <2>2, <3>1
    <3> QED BY <2>1, <3>2
  <2> QED BY <2>1, <2>2, <2>3
<1>16. Len(ops) = IF p.entrypoint = Start THEN a + b ELSE a + b + 1
  <2>1. a \in Nat /\ b \in Nat /\ Len(ops) = a + b + Len(C)
    BY <1>5, <1>9, <1>10
  <2>2. CASE p.entrypoint = Start
    BY <2>1, <2>2, <1>7
  <2>3. CASE p.entrypoint # Start
    BY <2>1, <2>3, <1>7
  <2> QED BY <2>2, <2>3
<1>17. ProposalOf(p, given, ops, a, b, o, M)
  <2>1. a \in Nat /\ b \in Nat /\ ops \in Seq(Operation)
    BY <1>5, <1>9, <1>10
  <2>2. \A m \in 1 .. a : /\ NodeOps(p, given, Recipe[o[m]]) # <<>>
                          /\ ops[m] = NodeOps(p, given, Recipe[o[m]])[1]
    BY <1>12, <1>15
  <2>3. /\ M \in [1 .. b -> Edges \ p.bindings]
        /\ \A l, m \in 1 .. b : M[l] = M[m] => l = m
        /\ \A x \in Edges \ p.bindings : \E m \in 1 .. b : M[m] = x
    BY <1>5
  <2>4. \A m \in 1 .. b : ops[a + m] = [op |-> "connect", from |-> M[m].from, to |-> M[m].to]
    BY <1>6, <1>13
  <2>5. /\ o \in [1 .. a -> DOMAIN Recipe]
        /\ \A l, m \in 1 .. a : o[l] = o[m] => l = m
        /\ \A k \in DOMAIN Recipe :
             NodeOps(p, given, Recipe[k]) # <<>> => \E m \in 1 .. a : o[m] = k
    BY <1>15
  <2> HIDE DEF M, b
  <2> QED BY <2>1, <2>2, <2>3, <2>4, <2>5, <1>14, <1>16, Zenon DEF ProposalOf
<1> QED BY <1>8, <1>17 DEF ops, D

\* The operations for nodes: one for each node, which adds it or fills it in.
OneForEach(p, given, ops, a, o) ==
  /\ \A m \in 1 .. a :
       /\ o[m] \in DOMAIN Recipe
       /\ ops[m].id = Recipe[o[m]].id
       /\ ops[m].setting \in Settings
       /\ \/ Recipe[o[m]].id \notin Instances(p) /\ ops[m] = AddOp(p, given, Recipe[o[m]])
          \/ Misses(p, Recipe[o[m]]) /\ ops[m] = SetOp(p, Recipe[o[m]])
  /\ \A l, m \in 1 .. a : ops[l].id = ops[m].id => l = m

LEMMA NodeOpFacts ==
  ASSUME NEW p \in Project, NEW given \in SUBSET Capability,
         NEW ops, NEW a, NEW b, NEW o, NEW e, ProposalOf(p, given, ops, a, b, o, e)
  PROVE  OneForEach(p, given, ops, a, o)
<1>1. ASSUME NEW m \in 1 .. a
      PROVE  /\ o[m] \in DOMAIN Recipe
             /\ ops[m].id = Recipe[o[m]].id
             /\ ops[m].setting \in Settings
             /\ \/ Recipe[o[m]].id \notin Instances(p) /\ ops[m] = AddOp(p, given, Recipe[o[m]])
                \/ Misses(p, Recipe[o[m]]) /\ ops[m] = SetOp(p, Recipe[o[m]])
  <2>1. PICK k \in DOMAIN Recipe : k = o[m]
    BY DEF ProposalOf
  <2>2. NodeOps(p, given, Recipe[k]) # <<>> /\ ops[m] = NodeOps(p, given, Recipe[k])[1]
    BY <2>1 DEF ProposalOf
  <2>3. \/ Recipe[k].id \notin Instances(p) /\ ops[m] = AddOp(p, given, Recipe[k])
        \/ Misses(p, Recipe[k]) /\ ops[m] = SetOp(p, Recipe[k])
    <3>1. NodeOps(p, given, Recipe[k]) =
            IF Recipe[k].id \notin Instances(p) THEN <<AddOp(p, given, Recipe[k])>>
            ELSE IF Misses(p, Recipe[k]) THEN <<SetOp(p, Recipe[k])>> ELSE <<>>
      BY NodeOpsShape
    <3> QED BY <3>1, <2>2
  <2>4. CASE ops[m] = AddOp(p, given, Recipe[k])
    BY <2>1, <2>3, <2>4, RecipeFacts DEF AddOp
  <2>5. CASE Misses(p, Recipe[k]) /\ ops[m] = SetOp(p, Recipe[k])
    <3>1. p.instances[Recipe[k].id].setting \in Settings
      BY <2>5, ProjectFields, RecipeAssumption DEF Misses, Instance
    <3> QED BY <2>1, <2>3, <2>5, <3>1, FilledIsFull DEF SetOp
  <2> QED BY <2>3, <2>4, <2>5
<1>2. ASSUME NEW l \in 1 .. a, NEW m \in 1 .. a, ops[l].id = ops[m].id PROVE l = m
  <2>1. o[l] = o[m]
    BY <1>1, <1>2, RecipeAssumption
  <2> QED BY <2>1 DEF ProposalOf
<1> QED BY <1>1, <1>2 DEF OneForEach

\* What the document has become after n operations of a proposal.
Grown(p, ops, a, b, o, e, n) ==
  {q \in Project :
    /\ p.capabilities \subseteq q.capabilities
    /\ \A i \in Instances(p) : i \in Instances(q)
    /\ \A i \in Instances(q) : i \in Instances(p) \/ \E m \in 1 .. a : m <= n /\ ops[m].id = i
    /\ \A i \in Instances(p) : q.instances[i].capability = p.instances[i].capability
    /\ \A i \in Instances(p) :
         (\A m \in 1 .. a : m <= n => ops[m].id # i) => q.instances[i] = p.instances[i]
    /\ \A m \in 1 .. a : m <= n =>
         /\ ops[m].id \in Instances(q)
         /\ q.instances[ops[m].id] =
              [capability |-> Recipe[o[m]].capability, setting |-> ops[m].setting]
    /\ \A x \in q.bindings : x \in p.bindings \/ \E m \in 1 .. b : a + m <= n /\ e[m] = x
    /\ p.bindings \subseteq q.bindings
    /\ \A m \in 1 .. b : a + m <= n => e[m] \in q.bindings
    /\ q.entrypoint = IF n <= a + b THEN p.entrypoint ELSE Start}

LEMMA NodesGrow ==
  ASSUME NEW p \in Project, NEW given \in SUBSET Capability,
         NEW ops, NEW a, NEW b, NEW o, NEW e, ProposalOf(p, given, ops, a, b, o, e),
         NEW n \in 1 .. a, NEW q \in Grown(p, ops, a, b, o, e, n - 1),
         NEW r \in ApplyOne(q, ops[n])
  PROVE  r \in Grown(p, ops, a, b, o, e, n)
<1>1. /\ a \in Nat /\ b \in Nat /\ n \in Nat /\ n - 1 \in Nat
      /\ ops[n] \in Operation /\ n - 1 <= a + b /\ n <= a + b
  <2>1. a \in Nat /\ b \in Nat /\ ops \in Seq(Operation) /\ Len(ops) \in {a + b, a + b + 1}
    BY DEF ProposalOf
  <2>2. n \in 1 .. Len(ops)
    BY <2>1
  <2> QED BY <2>1, <2>2, ElementOfSeq
<1>2. q \in Project /\ r \in Project
  BY <1>1, OperationKeepsProject DEF Grown
<1> DEFINE node == Recipe[o[n]]
           new == [capability |-> node.capability, setting |-> ops[n].setting]
<1>3. /\ ops[n].id = node.id
      /\ \A m \in 1 .. a : ops[m].id = ops[n].id => m = n
      /\ \/ node.id \notin Instances(p) /\ ops[n] = AddOp(p, given, node)
         \/ Misses(p, node) /\ ops[n] = SetOp(p, node)
  BY NodeOpFacts DEF OneForEach
<1>4. \A m \in 1 .. a : m <= n <=> m <= n - 1 \/ m = n
  BY <1>1
<1>5. \A m \in 1 .. b : ~(a + m <= n) /\ ~(a + m <= n - 1)
  BY <1>1
<1> HIDE DEF node
\* What the step makes of the instances, and that it leaves the rest.
<1>6. /\ Instances(r) = Instances(q) \cup {node.id}
      /\ r.instances[node.id] = new
      /\ \A i \in Instances(q) : i # node.id => r.instances[i] = q.instances[i]
      /\ r.capabilities = q.capabilities \/ q.capabilities \subseteq r.capabilities
      /\ r.bindings = q.bindings /\ r.entrypoint = q.entrypoint
  <2>1. CASE ops[n] = AddOp(p, given, node)
    <3>1. ops[n].op = "add_instance" /\ ops[n].capability = node.capability
      BY <2>1 DEF AddOp
    <3> DEFINE insts == [i \in Instances(q) \cup {ops[n].id} |->
                          IF i = ops[n].id
                            THEN [capability |-> ops[n].capability, setting |-> ops[n].setting]
                            ELSE q.instances[i]]
               known == IF ops[n].contract = None THEN q.capabilities
                        ELSE q.capabilities \cup {ops[n].contract}
    <3>2. r = [instances |-> insts, capabilities |-> known,
               bindings |-> q.bindings, entrypoint |-> q.entrypoint]
      BY <1>2, <3>1, AddMakes
    <3>3. /\ DOMAIN insts = Instances(q) \cup {node.id} /\ insts[node.id] = new
          /\ \A i \in Instances(q) : i # node.id => insts[i] = q.instances[i]
          /\ q.capabilities \subseteq known
      BY <1>3, <3>1
    <3> HIDE DEF insts, known
    <3> QED BY <3>2, <3>3 DEF Instances
  <2>2. CASE Misses(p, node) /\ ops[n] = SetOp(p, node)
    <3>1. ops[n].op = "set_setting"
      BY <2>2 DEF SetOp
    <3>2. /\ node.id \in Instances(q)
          /\ r = [instances |-> [q.instances EXCEPT ![node.id] =
                    [capability |-> q.instances[node.id].capability,
                     setting |-> ops[n].setting]],
                  capabilities |-> q.capabilities,
                  bindings |-> q.bindings, entrypoint |-> q.entrypoint]
      BY <1>2, <1>3, <3>1, SetMakes
    <3>3. q.instances[node.id].capability = node.capability
      BY <2>2 DEF Misses, Conflicts, Grown
    <3> QED BY <3>2, <3>3, <1>2, ProjectFields DEF Instances
  <2> QED BY <2>1, <2>2, <1>3
<1>7. \A i \in Instances(p) : r.instances[i].capability = p.instances[i].capability
  <2> SUFFICES ASSUME NEW i \in Instances(p)
               PROVE  r.instances[i].capability = p.instances[i].capability
    OBVIOUS
  <2>1. i \in Instances(q) /\ q.instances[i].capability = p.instances[i].capability
    BY DEF Grown
  <2>2. CASE i = node.id
    <3>1. Misses(p, node)
      BY <1>3, <2>2
    <3> QED BY <3>1, <2>2, <1>6 DEF Misses, Conflicts
  <2> QED BY <2>1, <2>2, <1>6
<1>8. \A i \in Instances(p) :
        (\A m \in 1 .. a : m <= n => ops[m].id # i) => r.instances[i] = p.instances[i]
  <2> SUFFICES ASSUME NEW i \in Instances(p), \A m \in 1 .. a : m <= n => ops[m].id # i
               PROVE  r.instances[i] = p.instances[i]
    OBVIOUS
  <2>1. i # node.id /\ i \in Instances(q) /\ \A m \in 1 .. a : m <= n - 1 => ops[m].id # i
    BY <1>1, <1>3, <1>4 DEF Grown
  <2>2. q.instances[i] = p.instances[i]
    BY <2>1 DEF Grown
  <2> QED BY <2>1, <2>2, <1>6
<1>9. \A m \in 1 .. a : m <= n =>
        /\ ops[m].id \in Instances(r)
        /\ r.instances[ops[m].id] =
             [capability |-> Recipe[o[m]].capability, setting |-> ops[m].setting]
  <2> SUFFICES ASSUME NEW m \in 1 .. a, m <= n
               PROVE  /\ ops[m].id \in Instances(r)
                      /\ r.instances[ops[m].id] =
                           [capability |-> Recipe[o[m]].capability, setting |-> ops[m].setting]
    OBVIOUS
  <2>1. CASE m = n
    BY <2>1, <1>3, <1>6 DEF node
  <2>2. CASE m # n
    <3>1. m <= n - 1 /\ ops[m].id # node.id
      BY <2>2, <1>3, <1>4
    <3>2. /\ ops[m].id \in Instances(q)
          /\ q.instances[ops[m].id] =
               [capability |-> Recipe[o[m]].capability, setting |-> ops[m].setting]
      BY <3>1 DEF Grown
    <3> QED BY <3>1, <3>2, <1>6
  <2> QED BY <2>1, <2>2
<1>10. \A i \in Instances(r) : i \in Instances(p) \/ \E m \in 1 .. a : m <= n /\ ops[m].id = i
  <2> SUFFICES ASSUME NEW i \in Instances(r), i \notin Instances(p)
               PROVE  \E m \in 1 .. a : m <= n /\ ops[m].id = i
    OBVIOUS
  <2>1. CASE i = node.id
    BY <2>1, <1>1, <1>3
  <2>2. CASE i # node.id
    <3>1. PICK m \in 1 .. a : m <= n - 1 /\ ops[m].id = i
      BY <2>2, <1>6 DEF Grown
    <3> QED BY <3>1, <1>4
  <2> QED BY <2>1, <2>2
<1>11. /\ p.capabilities \subseteq r.capabilities /\ \A i \in Instances(p) : i \in Instances(r)
       /\ p.bindings \subseteq r.bindings
       /\ \A x \in r.bindings : x \in p.bindings \/ \E m \in 1 .. b : a + m <= n /\ e[m] = x
       /\ \A m \in 1 .. b : a + m <= n => e[m] \in r.bindings
       /\ r.entrypoint = IF n <= a + b THEN p.entrypoint ELSE Start
  <2>1. /\ p.capabilities \subseteq q.capabilities /\ \A i \in Instances(p) : i \in Instances(q)
        /\ p.bindings \subseteq q.bindings
        /\ \A x \in q.bindings : x \in p.bindings \/ \E m \in 1 .. b : a + m <= n - 1 /\ e[m] = x
        /\ q.entrypoint = IF n - 1 <= a + b THEN p.entrypoint ELSE Start
    BY DEF Grown
  <2> QED BY <2>1, <1>1, <1>5, <1>6
<1> QED BY <1>2, <1>7, <1>8, <1>9, <1>10, <1>11 DEF Grown

LEMMA EdgesGrow ==
  ASSUME NEW p \in Project, NEW given \in SUBSET Capability,
         NEW ops, NEW a, NEW b, NEW o, NEW e, ProposalOf(p, given, ops, a, b, o, e),
         NEW n \in 1 .. Len(ops), n > a, NEW q \in Grown(p, ops, a, b, o, e, n - 1),
         NEW r \in ApplyOne(q, ops[n])
  PROVE  r \in Grown(p, ops, a, b, o, e, n)
<1>1. /\ a \in Nat /\ b \in Nat /\ n \in Nat /\ n - 1 \in Nat /\ ops[n] \in Operation
      /\ n <= a + b + 1
  <2>1. a \in Nat /\ b \in Nat /\ ops \in Seq(Operation) /\ Len(ops) \in {a + b, a + b + 1}
    BY DEF ProposalOf
  <2> QED BY <2>1, ElementOfSeq
<1>2. q \in Project /\ r \in Project
  BY <1>1, OperationKeepsProject DEF Grown
<1>3. \A m \in 1 .. a : m <= n /\ m <= n - 1
  BY <1>1
<1>4. /\ p.capabilities \subseteq q.capabilities /\ \A i \in Instances(p) : i \in Instances(q)
      /\ \A i \in Instances(q) : i \in Instances(p) \/ \E m \in 1 .. a : m <= n /\ ops[m].id = i
      /\ \A i \in Instances(p) : q.instances[i].capability = p.instances[i].capability
      /\ \A i \in Instances(p) :
           (\A m \in 1 .. a : m <= n => ops[m].id # i) => q.instances[i] = p.instances[i]
      /\ \A m \in 1 .. a : m <= n =>
           /\ ops[m].id \in Instances(q)
           /\ q.instances[ops[m].id] =
                [capability |-> Recipe[o[m]].capability, setting |-> ops[m].setting]
  BY <1>3 DEF Grown
<1>5. /\ \A x \in q.bindings : x \in p.bindings \/ \E m \in 1 .. b : a + m <= n - 1 /\ e[m] = x
      /\ p.bindings \subseteq q.bindings
      /\ \A m \in 1 .. b : a + m <= n - 1 => e[m] \in q.bindings
      /\ q.entrypoint = IF n - 1 <= a + b THEN p.entrypoint ELSE Start
  BY DEF Grown
<1>6. CASE n <= a + b
  <2>1. PICK m \in 1 .. b : n = a + m
    <3>1. n - a \in 1 .. b /\ n = a + (n - a)
      BY <1>1, <1>6
    <3> QED BY <3>1
  <2>2. ops[n] = [op |-> "connect", from |-> e[m].from, to |-> e[m].to]
    BY <2>1 DEF ProposalOf
  <2>3. e[m] \in Binding
    BY RecipeAssumption DEF ProposalOf
  <2>4. [from |-> ops[n].from, to |-> ops[n].to] = e[m]
    BY <2>2, <2>3 DEF Binding
  <2>5. /\ r.instances = q.instances /\ r.capabilities = q.capabilities
        /\ r.bindings = q.bindings \cup {e[m]} /\ r.entrypoint = q.entrypoint
    BY <1>2, <2>2, <2>4, ConnectMakes
  <2>6. \A l \in 1 .. b : a + l <= n <=> a + l <= n - 1 \/ l = m
    BY <1>1, <2>1
  <2>7. Instances(r) = Instances(q) /\ n - 1 <= a + b
    BY <2>5, <1>1, <1>6 DEF Instances
  <2>8. /\ \A x \in r.bindings : x \in p.bindings \/ \E l \in 1 .. b : a + l <= n /\ e[l] = x
        /\ p.bindings \subseteq r.bindings
        /\ \A l \in 1 .. b : a + l <= n => e[l] \in r.bindings
        /\ r.entrypoint = IF n <= a + b THEN p.entrypoint ELSE Start
    BY <1>5, <1>6, <2>5, <2>6, <2>7
  <2> QED BY <1>2, <1>4, <2>5, <2>7, <2>8 DEF Grown
<1>7. CASE n > a + b
  <2>1. ops[n] = [op |-> "set_entrypoint", id |-> Start]
    BY <1>7 DEF ProposalOf
  <2>2. /\ r.instances = q.instances /\ r.capabilities = q.capabilities
        /\ r.bindings = q.bindings /\ r.entrypoint = Start
    BY <1>2, <2>1, EntrypointMakes
  <2>3. \A l \in 1 .. b : a + l <= n /\ a + l <= n - 1
    BY <1>1, <1>7
  <2>4. Instances(r) = Instances(q) /\ ~(n <= a + b)
    BY <2>2, <1>1, <1>7 DEF Instances
  <2>5. /\ \A x \in r.bindings : x \in p.bindings \/ \E l \in 1 .. b : a + l <= n /\ e[l] = x
        /\ p.bindings \subseteq r.bindings
        /\ \A l \in 1 .. b : a + l <= n => e[l] \in r.bindings
        /\ r.entrypoint = IF n <= a + b THEN p.entrypoint ELSE Start
    BY <1>5, <2>2, <2>3, <2>4
  <2> QED BY <1>2, <1>4, <2>2, <2>4, <2>5 DEF Grown
<1> QED BY <1>1, <1>6, <1>7

NoneFails(p, ops, a, b, o, e) ==
  \A n \in 1 .. Len(ops) : \A q \in Grown(p, ops, a, b, o, e, n - 1) :
    ApplyOne(q, ops[n]) # {}

LEMMA ProposalGrows ==
  ASSUME NEW p \in Project, NEW given \in SUBSET Capability,
         NEW ops, NEW a, NEW b, NEW o, NEW e, ProposalOf(p, given, ops, a, b, o, e)
  PROVE  /\ Results(p, ops) \subseteq Grown(p, ops, a, b, o, e, Len(ops))
         /\ NoneFails(p, ops, a, b, o, e) => Applies(p, ops)
<1> DEFINE G == [n \in 0 .. Len(ops) |-> Grown(p, ops, a, b, o, e, n)]
<1>1. a \in Nat /\ b \in Nat /\ Len(ops) \in Nat /\ Len(ops) \in {a + b, a + b + 1}
  BY DEF ProposalOf
<1>2. p \in Grown(p, ops, a, b, o, e, 0)
  BY <1>1 DEF Grown
<1>3. p \in G[0]
  BY <1>1, <1>2
<1>4. ASSUME NEW n \in 1 .. Len(ops)
      PROVE  G[n - 1] = Grown(p, ops, a, b, o, e, n - 1) /\ G[n] = Grown(p, ops, a, b, o, e, n)
  <2>1. n - 1 \in 0 .. Len(ops) /\ n \in 0 .. Len(ops)
    BY <1>1
  <2> QED BY <2>1
<1>5. G[Len(ops)] = Grown(p, ops, a, b, o, e, Len(ops))
  BY <1>1
<1> HIDE DEF G
<1>6. ASSUME NEW n \in 1 .. Len(ops), NEW q \in G[n - 1]
      PROVE  ApplyOne(q, ops[n]) \subseteq G[n]
  <2>1. q \in Grown(p, ops, a, b, o, e, n - 1)
    BY <1>4
  <2>2. CASE n <= a
    <3>1. n \in 1 .. a
      BY <1>1, <2>2
    <3>2. \A r \in ApplyOne(q, ops[n]) : r \in Grown(p, ops, a, b, o, e, n)
      BY <2>1, <3>1, NodesGrow
    <3> QED BY <3>2, <1>4
  <2>3. CASE n > a
    <3>1. \A r \in ApplyOne(q, ops[n]) : r \in Grown(p, ops, a, b, o, e, n)
      BY <2>1, <2>3, EdgesGrow
    <3> QED BY <3>1, <1>4
  <2> QED BY <1>1, <2>2, <2>3
<1>7. \A n \in 1 .. Len(ops) : \A q \in G[n - 1] : ApplyOne(q, ops[n]) \subseteq G[n]
  BY <1>6
<1>8. Results(p, ops) \subseteq G[Len(ops)]
  BY <1>1, <1>3, <1>7, Along
<1>9. ASSUME NoneFails(p, ops, a, b, o, e) PROVE Applies(p, ops)
  <2>1. \A n \in 1 .. Len(ops) : \A q \in G[n - 1] : ApplyOne(q, ops[n]) # {}
    BY <1>4, <1>9 DEF NoneFails
  <2> QED BY <1>1, <1>3, <1>7, <2>1, Along DEF Applies
<1> QED BY <1>5, <1>8, <1>9

\* What a proposal makes has everything the document had and the whole recipe.
LEMMA ProposalReaches ==
  ASSUME NEW p \in Project, NEW given \in SUBSET Capability, Applies(p, Propose(p, given))
  PROVE  LET made == ApplyOps(p, Propose(p, given)) IN
         /\ made \in Project
         /\ Keeps(p, made)
         /\ Reached(p, made, given)
         /\ \A k \in DOMAIN Recipe :
              ~Conflicts(made, Recipe[k]) =>
                LET s == made.instances[Recipe[k].id].setting IN
                Unset(Recipe[k], s) => Filled(Recipe[k], s) = s
<1> DEFINE ops == Propose(p, given)
           made == ApplyOps(p, ops)
<1> HIDE DEF ops
<1>1. PICK a, b, o, e : ProposalOf(p, given, ops, a, b, o, e)
  BY ProposalShape DEF ops
<1>each. OneForEach(p, given, ops, a, o)
  BY <1>1, NodeOpFacts
<1>2. a \in Nat /\ b \in Nat /\ Len(ops) = IF p.entrypoint = Start THEN a + b ELSE a + b + 1
  BY <1>1 DEF ProposalOf
<1>3. /\ \A m \in 1 .. a : m <= Len(ops)
      /\ \A m \in 1 .. b : a + m <= Len(ops)
      /\ Len(ops) <= a + b <=> p.entrypoint = Start
  BY <1>2
<1>4. made \in Grown(p, ops, a, b, o, e, Len(ops))
  BY <1>1, ProposalGrows, ApplyOpsIsResult DEF ops
<1> HIDE DEF made
<1>5. /\ made \in Project
      /\ p.capabilities \subseteq made.capabilities
      /\ \A i \in Instances(p) : i \in Instances(made)
      /\ \A i \in Instances(p) : made.instances[i].capability = p.instances[i].capability
      /\ \A i \in Instances(p) :
           (\A m \in 1 .. a : ops[m].id # i) => made.instances[i] = p.instances[i]
      /\ \A m \in 1 .. a :
           /\ ops[m].id \in Instances(made)
           /\ made.instances[ops[m].id] =
                [capability |-> Recipe[o[m]].capability, setting |-> ops[m].setting]
      /\ p.bindings \subseteq made.bindings
      /\ \A m \in 1 .. b : e[m] \in made.bindings
      /\ made.entrypoint = Start
  BY <1>3, <1>4 DEF Grown
<1>6. /\ \A m \in 1 .. a :
           /\ o[m] \in DOMAIN Recipe
           /\ ops[m].id = Recipe[o[m]].id
           /\ \/ Recipe[o[m]].id \notin Instances(p) /\ ops[m] = AddOp(p, given, Recipe[o[m]])
              \/ Misses(p, Recipe[o[m]]) /\ ops[m] = SetOp(p, Recipe[o[m]])
      /\ \A k \in DOMAIN Recipe :
           NodeOps(p, given, Recipe[k]) # <<>> => \E m \in 1 .. a : o[m] = k
  <2>1. ASSUME NEW m \in 1 .. a
        PROVE  /\ o[m] \in DOMAIN Recipe
               /\ ops[m].id = Recipe[o[m]].id
               /\ \/ Recipe[o[m]].id \notin Instances(p)
                     /\ ops[m] = AddOp(p, given, Recipe[o[m]])
                  \/ Misses(p, Recipe[o[m]]) /\ ops[m] = SetOp(p, Recipe[o[m]])
    BY <1>each DEF OneForEach
  <2>2. ASSUME NEW k \in DOMAIN Recipe, NodeOps(p, given, Recipe[k]) # <<>>
        PROVE  \E m \in 1 .. a : o[m] = k
    BY <1>1, <2>2 DEF ProposalOf
  <2> QED BY <2>1, <2>2
<1>7. Keeps(p, made)
  <2>1. ASSUME NEW i \in Instances(p), i \notin NodeIds
        PROVE  made.instances[i] = p.instances[i]
    <3>1. \A m \in 1 .. a : ops[m].id # i
      BY <1>6, <2>1 DEF NodeIds
    <3> QED BY <3>1, <1>5
  <2> QED BY <2>1, <1>5 DEF Keeps
\* A node is new, filled in, complete as it was, or not the recipe's.
<1>8. ASSUME NEW k \in DOMAIN Recipe
      PROVE  /\ Recipe[k].id \in Instances(made)
             /\ Conflicts(p, Recipe[k]) => Conflicts(made, Recipe[k])
             /\ ~Conflicts(p, Recipe[k]) =>
                  /\ ~Conflicts(made, Recipe[k])
                  /\ \/ ~Unset(Recipe[k], made.instances[Recipe[k].id].setting)
                     \/ \E s \in Settings :
                          made.instances[Recipe[k].id].setting = Filled(Recipe[k], s)
  <2> DEFINE node == Recipe[k]
  <2>1. NodeOps(p, given, node) =
          IF node.id \notin Instances(p) THEN <<AddOp(p, given, node)>>
          ELSE IF Misses(p, node) THEN <<SetOp(p, node)>> ELSE <<>>
    BY NodeOpsShape
  <2>2. ASSUME NodeOps(p, given, node) # <<>>
        PROVE  \E m \in 1 .. a : o[m] = k
    BY <2>2, <1>6
  <2> HIDE DEF node
  <2>3. CASE node.id \notin Instances(p)
    <3>1. PICK m \in 1 .. a : o[m] = k
      BY <2>1, <2>2, <2>3
    <3>2. ops[m].id = node.id /\ ops[m] = AddOp(p, given, node)
      BY <1>6, <3>1, <2>3 DEF Misses, node
    <3>3. /\ node.id \in Instances(made)
          /\ made.instances[node.id] =
               [capability |-> node.capability, setting |-> ops[m].setting]
      BY <1>5, <3>1, <3>2 DEF node
    <3>4. ops[m].setting = node.setting
      BY <3>2 DEF AddOp
    <3>5. node.setting \in Settings /\ ~Unset(node, node.setting)
      BY RecipeFacts, FilledIsFull DEF node
    <3> QED BY <2>3, <3>3, <3>4, <3>5 DEF Conflicts, node
  <2>4. CASE Misses(p, node)
    <3>1. PICK m \in 1 .. a : o[m] = k
      BY <2>1, <2>2, <2>4 DEF Misses
    <3>2. ops[m].id = node.id /\ ops[m] = SetOp(p, node)
      BY <1>6, <3>1, <2>4 DEF Misses, node
    <3>3. /\ node.id \in Instances(made)
          /\ made.instances[node.id] =
               [capability |-> node.capability, setting |-> ops[m].setting]
      BY <1>5, <3>1, <3>2 DEF node
    <3>4. /\ ops[m].setting = Filled(node, p.instances[node.id].setting)
          /\ p.instances[node.id].setting \in Settings
      BY <3>2, <2>4, ProjectFields, RecipeAssumption DEF SetOp, Misses, Instance
    <3> QED BY <2>4, <3>3, <3>4 DEF Misses, Conflicts, node
  <2>5. CASE node.id \in Instances(p) /\ ~Misses(p, node)
    <3>1. \A m \in 1 .. a : ops[m].id # node.id
      BY <1>6, <2>5, RecipeAssumption DEF node
    <3>2. node.id \in Instances(made) /\ made.instances[node.id] = p.instances[node.id]
      BY <1>5, <2>5, <3>1
    <3> QED BY <2>5, <3>2 DEF Misses, Conflicts, node
  <2> QED BY <2>3, <2>4, <2>5
<1>9. Reached(p, made, given)
  <2>1. NodeIds \subseteq Instances(made)
    BY <1>8 DEF NodeIds
  <2>2. Edges \subseteq made.bindings
    BY <1>1, <1>5 DEF ProposalOf
  <2>3. ASSUME NEW k \in DOMAIN Recipe, ~Conflicts(p, Recipe[k])
        PROVE  /\ ~Conflicts(made, Recipe[k])
               /\ made.instances[Recipe[k].id].setting.config.path # "other" =>
                    ~Unset(Recipe[k], made.instances[Recipe[k].id].setting)
    BY <1>8, <2>3, FilledIsFull
  <2> QED BY <2>1, <2>2, <2>3, <1>5 DEF Reached
<1>10. ASSUME NEW k \in DOMAIN Recipe, ~Conflicts(made, Recipe[k]),
              Unset(Recipe[k], made.instances[Recipe[k].id].setting)
       PROVE  Filled(Recipe[k], made.instances[Recipe[k].id].setting) =
                made.instances[Recipe[k].id].setting
  <2>1. PICK s \in Settings : made.instances[Recipe[k].id].setting = Filled(Recipe[k], s)
    BY <1>8, <1>10
  <2> QED BY <2>1, FilledIsFull
<1> QED BY <1>5, <1>7, <1>9, <1>10 DEF made, ops

\* Setting what is set already changes nothing.
LEMMA SetAgain ==
  ASSUME NEW p \in Project, NEW op, op.op = "set_setting", op.id \in Instances(p),
         op.setting = p.instances[op.id].setting
  PROVE  ApplyOne(p, op) = {p}
<1>1. ApplyOne(p, op) = {[p EXCEPT !.instances[op.id].setting = op.setting]}
  BY DEF ApplyOne, SetSetting, When
<1>2. PICK q : q = [p EXCEPT !.instances[op.id].setting = op.setting]
  OBVIOUS
<1>3. q = [instances |-> [p.instances EXCEPT ![op.id] =
              [capability |-> p.instances[op.id].capability, setting |-> op.setting]],
           capabilities |-> p.capabilities,
           bindings |-> p.bindings, entrypoint |-> p.entrypoint]
  BY <1>1, <1>2, SetMakes
<1>4. [capability |-> p.instances[op.id].capability, setting |-> op.setting] =
        p.instances[op.id]
  BY ProjectFields DEF Instance
<1>5. [p.instances EXCEPT ![op.id] = p.instances[op.id]] = p.instances
  BY ProjectFields
<1>6. q = p
  BY <1>3, <1>4, <1>5, ProjectFields
<1> QED BY <1>1, <1>2, <1>6

\* Proposed again, all that is left is a setting that is there already.
LEMMA ProposalIsFinal ==
  ASSUME NEW p \in Project, NEW given \in SUBSET Capability,
         NodeIds \subseteq Instances(p), Edges \subseteq p.bindings, p.entrypoint = Start,
         \A k \in DOMAIN Recipe :
           ~Conflicts(p, Recipe[k]) =>
             LET s == p.instances[Recipe[k].id].setting IN
             Unset(Recipe[k], s) => Filled(Recipe[k], s) = s
  PROVE  Applies(p, Propose(p, given)) /\ ApplyOps(p, Propose(p, given)) = p
<1> DEFINE ops == Propose(p, given)
<1> HIDE DEF ops
<1>1. PICK a, b, o, e : ProposalOf(p, given, ops, a, b, o, e)
  BY ProposalShape DEF ops
<1>each. OneForEach(p, given, ops, a, o)
  BY <1>1, NodeOpFacts
<1>2. a \in Nat /\ b \in Nat /\ Len(ops) = a + b /\ e \in [1 .. b -> {}]
  BY <1>1 DEF ProposalOf
<1>3. b = 0
  <2> SUFFICES ASSUME b # 0 PROVE FALSE
    OBVIOUS
  <2>1. 1 \in 1 .. b
    BY <1>2
  <2> QED BY <2>1, <1>2
<1>4. ASSUME NEW m \in 1 .. Len(ops)
      PROVE  ApplyOne(p, ops[m]) = {p}
  <2>1. m \in 1 .. a
    BY <1>2, <1>3
  <2>2. PICK k \in DOMAIN Recipe : k = o[m]
    BY <2>1, <1>each DEF OneForEach
  <2>3. Misses(p, Recipe[k]) /\ ops[m] = SetOp(p, Recipe[k])
    <3>1. \/ Recipe[o[m]].id \notin Instances(p) /\ ops[m] = AddOp(p, given, Recipe[o[m]])
          \/ Misses(p, Recipe[o[m]]) /\ ops[m] = SetOp(p, Recipe[o[m]])
      BY <2>1, <1>each DEF OneForEach
    <3>2. Recipe[k].id \in Instances(p)
      BY DEF NodeIds
    <3> QED BY <2>2, <3>1, <3>2
  <2>4. /\ ops[m].op = "set_setting" /\ ops[m].id = Recipe[k].id
        /\ ops[m].setting = Filled(Recipe[k], p.instances[Recipe[k].id].setting)
    BY <2>3 DEF SetOp
  <2>5. /\ ops[m].id \in Instances(p)
        /\ ops[m].setting = p.instances[ops[m].id].setting
    BY <2>3, <2>4 DEF Misses
  <2> QED BY <2>4, <2>5, SetAgain
<1> DEFINE G == [n \in 0 .. Len(ops) |-> {p}]
<1>5. /\ Len(ops) \in Nat /\ p \in G[0] /\ G[Len(ops)] = {p}
      /\ \A n \in 1 .. Len(ops) : G[n - 1] = {p} /\ G[n] = {p}
  <2>1. \A n \in 1 .. Len(ops) : n - 1 \in 0 .. Len(ops) /\ n \in 0 .. Len(ops)
    BY <1>2
  <2> QED BY <2>1, <1>2
<1> HIDE DEF G
<1>6. \A n \in 1 .. Len(ops) : \A q \in G[n - 1] :
        ApplyOne(q, ops[n]) \subseteq G[n] /\ ApplyOne(q, ops[n]) # {}
  BY <1>4, <1>5
<1>7. Results(p, ops) \subseteq G[Len(ops)] /\ Results(p, ops) # {}
  <2>1. \A n \in 1 .. Len(ops) : \A q \in G[n - 1] : ApplyOne(q, ops[n]) \subseteq G[n]
    BY <1>6
  <2>2. \A n \in 1 .. Len(ops) : \A q \in G[n - 1] : ApplyOne(q, ops[n]) # {}
    BY <1>6
  <2>3. Results(p, ops) \subseteq G[Len(ops)]
    BY <1>5, <2>1, Along
  <2> QED BY <1>5, <2>1, <2>2, <2>3, Along
<1> QED BY <1>5, <1>7, ApplyOpsIsResult DEF Applies, ops

\* Unless something hinders it, every operation of a proposal succeeds.
LEMMA ProposalApplies ==
  ASSUME NEW p \in Project, NEW given \in SUBSET Capability, ~Hindered(p, given)
  PROVE  Applies(p, Propose(p, given))
<1> DEFINE ops == Propose(p, given)
<1> HIDE DEF ops
<1>1. PICK a, b, o, e : ProposalOf(p, given, ops, a, b, o, e)
  BY ProposalShape DEF ops
<1>each. OneForEach(p, given, ops, a, o)
  BY <1>1, NodeOpFacts
<1>2. a \in Nat /\ b \in Nat /\ Len(ops) \in {a + b, a + b + 1}
  BY <1>1 DEF ProposalOf
<1>3. ASSUME NEW n \in 1 .. Len(ops), NEW q \in Grown(p, ops, a, b, o, e, n - 1)
      PROVE  ApplyOne(q, ops[n]) # {}
  <2>0. q \in Project /\ \A i \in Instances(p) : i \in Instances(q)
    BY DEF Grown
  <2>1. CASE n <= a
    <3>1. n \in 1 .. a
      BY <1>2, <2>1
    <3>2. PICK k \in DOMAIN Recipe : k = o[n]
      BY <1>each, <3>1 DEF OneForEach
    <3>3. /\ ops[n].id = Recipe[k].id
          /\ \/ Recipe[k].id \notin Instances(p) /\ ops[n] = AddOp(p, given, Recipe[k])
             \/ Misses(p, Recipe[k]) /\ ops[n] = SetOp(p, Recipe[k])
      BY <1>each, <3>1, <3>2 DEF OneForEach
    <3>4. CASE Recipe[k].id \notin Instances(p) /\ ops[n] = AddOp(p, given, Recipe[k])
      <4>1. /\ ops[n].op = "add_instance" /\ ops[n].capability = Recipe[k].capability
            /\ ops[n].contract = Recipe[k].capability
        BY <3>4 DEF AddOp, ContractFor, Hindered
      <4>2. ops[n].contract # None
        BY <4>1, RecipeFacts, PatchesAssumption
      <4>3. ops[n].id \notin Instances(q)
        <5> SUFFICES ASSUME ops[n].id \in Instances(q) PROVE FALSE
          OBVIOUS
        <5>1. PICK m \in 1 .. a : m <= n - 1 /\ ops[m].id = ops[n].id
          BY <3>3, <3>4 DEF Grown
        <5>2. m = n
          BY <1>each, <3>1, <5>1 DEF OneForEach
        <5> QED BY <5>1, <5>2, <1>2
      <4> QED BY <4>1, <4>2, <4>3 DEF ApplyOne, AddInstance, When
    <3>5. CASE Misses(p, Recipe[k]) /\ ops[n] = SetOp(p, Recipe[k])
      <4>1. ops[n].op = "set_setting" /\ ops[n].id \in Instances(q)
        BY <2>0, <3>3, <3>5 DEF SetOp, Misses
      <4> QED BY <4>1 DEF ApplyOne, SetSetting, When
    <3> QED BY <3>3, <3>4, <3>5
  <2>2. ASSUME n > a
        PROVE  \A k \in DOMAIN Recipe :
                 /\ Recipe[k].id \in Instances(q)
                 /\ q.instances[Recipe[k].id].capability = Recipe[k].capability
    <3> SUFFICES ASSUME NEW k \in DOMAIN Recipe
                 PROVE  /\ Recipe[k].id \in Instances(q)
                        /\ q.instances[Recipe[k].id].capability = Recipe[k].capability
      OBVIOUS
    <3>1. CASE Recipe[k].id \in Instances(p)
      <4>1. p.instances[Recipe[k].id].capability = Recipe[k].capability
        BY <3>1 DEF Hindered, Conflicts
      <4> QED BY <3>1, <4>1 DEF Grown
    <3>2. CASE Recipe[k].id \notin Instances(p)
      <4>1. NodeOps(p, given, Recipe[k]) # <<>>
        <5>1. NodeOps(p, given, Recipe[k]) = <<AddOp(p, given, Recipe[k])>>
          BY <3>2, NodeOpsShape
        <5> QED BY <5>1
      <4>2. PICK m \in 1 .. a : o[m] = k
        BY <1>1, <4>1 DEF ProposalOf
      <4>3. m <= n - 1
        BY <1>2, <2>2
      <4>4. ops[m].id = Recipe[k].id
        <5>1. ops[m].id = Recipe[o[m]].id
          BY <1>each DEF OneForEach
        <5> QED BY <4>2, <5>1
      <4>5. /\ ops[m].id \in Instances(q)
            /\ q.instances[ops[m].id] =
                 [capability |-> Recipe[o[m]].capability, setting |-> ops[m].setting]
        BY <4>3 DEF Grown
      <4> QED BY <4>2, <4>4, <4>5
    <3> QED BY <3>1, <3>2
  <2>3. CASE n > a /\ n <= a + b
    <3>1. PICK m \in 1 .. b : n = a + m
      <4>1. n - a \in 1 .. b /\ n = a + (n - a)
        BY <1>2, <2>3
      <4> QED BY <4>1
    <3>2. ops[n] = [op |-> "connect", from |-> e[m].from, to |-> e[m].to]
      BY <1>1, <3>1 DEF ProposalOf
    <3>3. e[m] \in Edges /\ e[m] \notin p.bindings
      BY <1>1 DEF ProposalOf
    <3>4. e[m] \in Binding /\ e[m].from # e[m].to /\ OfRecipe(e[m].from) /\ OfRecipe(e[m].to)
      BY <3>3, RecipeAssumption
    <3>5. ASSUME NEW path, OfRecipe(path) PROVE HasPort(q, path)
      <4>1. PICK k \in DOMAIN Recipe :
              /\ path.instance = Recipe[k].id
              /\ path.port \in Signature[Recipe[k].capability].inputs
                               \cup Signature[Recipe[k].capability].outputs
        BY <3>5 DEF OfRecipe
      <4>2. /\ path.instance \in Instances(q)
            /\ q.instances[path.instance].capability = Recipe[k].capability
        BY <2>2, <2>3, <4>1
      <4> QED BY <4>1, <4>2 DEF HasPort, IsInput, IsOutput, ContractOf
    <3>6. e[m] \notin q.bindings
      <4> SUFFICES ASSUME e[m] \in q.bindings PROVE FALSE
        OBVIOUS
      <4>1. PICK l \in 1 .. b : a + l <= n - 1 /\ e[l] = e[m]
        BY <3>3 DEF Grown
      <4>2. l = m
        BY <1>1, <4>1 DEF ProposalOf
      <4> QED BY <4>1, <4>2, <3>1, <1>2
    <3>7. [from |-> ops[n].from, to |-> ops[n].to] = e[m]
      BY <3>2, <3>4 DEF Binding
    <3>8. /\ ops[n].op = "connect" /\ ops[n].from = e[m].from /\ ops[n].to = e[m].to
      BY <3>2
    <3>9. HasPort(q, ops[n].from) /\ HasPort(q, ops[n].to)
      BY <3>4, <3>5, <3>8
    <3> QED BY <3>4, <3>6, <3>7, <3>8, <3>9 DEF ApplyOne, Connect, When
  <2>4. CASE n > a + b
    <3>1. ops[n] = [op |-> "set_entrypoint", id |-> Start]
      BY <1>1, <2>4 DEF ProposalOf
    <3>2. Start \in Instances(q)
      BY <1>2, <2>2, <2>4, RecipeFacts DEF Start
    <3>3. ops[n].op = "set_entrypoint" /\ ops[n].id = Start
      BY <3>1
    <3>4. ApplyOne(q, ops[n]) = {[q EXCEPT !.entrypoint = Start]}
      BY <3>2, <3>3 DEF ApplyOne, SetEntrypoint, When
    <3> QED BY <3>4
  <2> QED BY <1>2, <2>1, <2>3, <2>4
<1>4. NoneFails(p, ops, a, b, o, e)
  BY <1>3 DEF NoneFails
<1>5. Applies(p, ops)
  BY <1>1, <1>4, ProposalGrows
<1> QED BY <1>5 DEF ops

-----------------------------------------------------------------------------
(* The session *)

\* Whatever a rule or the language model answers is a list of operations.
LEMMA AnswersArePatches ==
  ASSUME NEW p \in Project, NEW given \in SUBSET Capability, NEW intent,
         NEW answer \in Answers(p, intent, given)
  PROVE  answer.ops \in Seq(Operation) /\ answer.unresolved \in BOOLEAN
<1>1. Proposal(p, given).ops \in Seq(Operation) /\ Proposal(p, given).unresolved = TRUE
  <2>1. Propose(p, given) \in Seq(Operation)
    BY ProposalShape DEF ProposalOf
  <2> QED BY <2>1 DEF Proposal, Answer
<1>2. ASSUME NEW i \in Instances(p), NEW s \in Settings
      PROVE  Setting1(i, s) \in Seq(Operation)
  <2>1. i \in Id /\ s \in Setting
    BY ProjectFields, RecipeAssumption
  <2>2. [op |-> "set_setting", id |-> i, setting |-> s] \in Operation
    BY <2>1 DEF Operation
  <2> QED BY <2>2 DEF Setting1
<1>3. ASSUME NEW i \in Instances(p)
      PROVE  p.instances[i].setting \in Settings
  BY ProjectFields, RecipeAssumption DEF Instance
<1>4. ASSUME NEW s \in Settings
      PROVE  /\ \A c \in Implementation : [s EXCEPT !.implementation = c] \in Settings
             /\ [s EXCEPT !.config = [path |-> "text", value |-> TRUE]] \in Settings
  BY DEF Settings, Config
<1>5. ASSUME NEW r \in DOMAIN Rules, Rules[r].does = "select", answer \in Select(p, Rules[r])
      PROVE  answer.ops \in Seq(Operation) /\ answer.unresolved \in BOOLEAN
  <2>1. Rules[r].choice \in Implementation
    BY <1>5, CortexAssumption DEF Offered
  <2>2. \/ answer = Answer(<<>>, TRUE)
        \/ \E i \in Instances(p) :
             answer = Answer(Setting1(i, [p.instances[i].setting
                               EXCEPT !.implementation = Rules[r].choice]), FALSE)
    BY <1>5 DEF Select
  <2>3. CASE answer = Answer(<<>>, TRUE)
    BY <2>3 DEF Answer
  <2>4. ASSUME NEW i \in Instances(p),
               answer = Answer(Setting1(i, [p.instances[i].setting
                                 EXCEPT !.implementation = Rules[r].choice]), FALSE)
        PROVE  answer.ops \in Seq(Operation) /\ answer.unresolved \in BOOLEAN
    <3>1. [p.instances[i].setting EXCEPT !.implementation = Rules[r].choice] \in Settings
      BY <1>3, <1>4, <2>1
    <3>2. PICK s \in Settings :
            s = [p.instances[i].setting EXCEPT !.implementation = Rules[r].choice]
      BY <3>1
    <3>3. answer = [ops |-> Setting1(i, s), unresolved |-> FALSE]
      BY <2>4, <3>2 DEF Answer
    <3> QED BY <3>3, <1>2
  <2> QED BY <2>2, <2>3, <2>4
<1>6. ASSUME answer = Tag(p, given)
      PROVE  answer.ops \in Seq(Operation) /\ answer.unresolved \in BOOLEAN
  <2> DEFINE i == Node["path_set"].id
  <2>1. CASE i \in Instances(p)
    <3>1. PICK s \in Settings :
            s = [p.instances[i].setting EXCEPT !.config = [path |-> "text", value |-> TRUE]]
      BY <1>3, <1>4, <2>1
    <3>2. answer = [ops |-> Setting1(i, s), unresolved |-> FALSE]
      BY <1>6, <2>1, <3>1 DEF Tag, Answer
    <3> QED BY <3>2, <1>2, <2>1
  <2>2. CASE i \notin Instances(p)
    BY <1>1, <1>6, <2>2 DEF Tag
  <2> QED BY <2>1, <2>2
<1>7. ASSUME answer \in Heuristic(p, intent, given)
      PROVE  answer.ops \in Seq(Operation) /\ answer.unresolved \in BOOLEAN
  <2> DEFINE fires == {r \in DOMAIN Rules : Fires(Rules[r], intent)}
             first == CHOOSE r \in fires : \A s \in fires : r <= s
  <2>1. DOMAIN Rules = 1 .. 9
    BY DEF Rules
  <2>2. \A r \in DOMAIN Rules : Rules[r].does \in {"propose", "select", "tag"}
    <3>1. /\ Rules[1].does = "propose" /\ Rules[2].does = "select" /\ Rules[3].does = "select"
          /\ Rules[4].does = "select" /\ Rules[5].does = "select" /\ Rules[6].does = "select"
          /\ Rules[7].does = "select" /\ Rules[8].does = "select" /\ Rules[9].does = "tag"
      BY DEF Rules
    <3> QED BY <2>1, <3>1
  <2>3. fires # {}
    BY <1>7 DEF Heuristic
  <2>4. first \in fires
    <3>1. fires \subseteq Nat
      BY <2>1
    <3>2. \E r \in fires : \A s \in fires : r <= s
      BY <2>3, <3>1, LeastNumber
    <3> HIDE DEF fires
    <3> QED BY <3>2
  <2>5. first \in DOMAIN Rules
    BY <2>4
  <2>6. answer \in (CASE Rules[first].does = "propose" -> {Proposal(p, given)}
                      [] Rules[first].does = "select" -> Select(p, Rules[first])
                      [] Rules[first].does = "tag" -> {Tag(p, given)})
    BY <1>7, <2>3, Zenon DEF Heuristic
  <2> HIDE DEF first
  <2>7. \/ Rules[first].does = "propose" /\ answer = Proposal(p, given)
        \/ Rules[first].does = "select" /\ answer \in Select(p, Rules[first])
        \/ Rules[first].does = "tag" /\ answer = Tag(p, given)
    BY <2>2, <2>5, <2>6
  <2> QED BY <1>1, <1>5, <1>6, <2>5, <2>7
<1>8. ASSUME answer \in FromModel
      PROVE  answer.ops \in Seq(Operation) /\ answer.unresolved \in BOOLEAN
  BY <1>8, PatchesAssumption DEF FromModel, Answer
<1> QED BY <1>7, <1>8 DEF Answers

SessionInv == TypeOK /\ DOMAIN waiting = Proposer

LEMMA SessionInit == Init => SessionInv
<1> SUFFICES ASSUME Init PROVE SessionInv
  OBVIOUS
<1>1. /\ doc \in [graph : Initial, revision : {0}]
      /\ waiting = [q \in Proposer |-> None]
      /\ last = [call |-> "none", revision |-> 0, reviewed |-> doc.graph]
      /\ Initial \subseteq Project /\ MaxRevision \in Nat
  BY SessionAssumption DEF Init
<1>2. doc.graph \in Project /\ doc \in Document
  BY <1>1 DEF Document
<1>3. last \in [call : {"none", "commit", "soft"}, revision : 0 .. MaxRevision,
                reviewed : Project]
  BY <1>1, <1>2
<1> QED BY <1>1, <1>2, <1>3 DEF SessionInv, TypeOK

\* A patch that is shown to its proposer, and what it shows.
LEMMA ShownIsTyped ==
  ASSUME SessionInv, NEW q \in Proposer, NEW shown,
         shown.patch \in Patch, shown.reviewed \in Project,
         waiting' = [waiting EXCEPT ![q] = shown], doc' = doc, last' = last
  PROVE  SessionInv'
<1>1. /\ TypeOK /\ DOMAIN waiting = Proposer /\ doc \in Document
      /\ last \in [call : {"none", "commit", "soft"}, revision : 0 .. MaxRevision,
                   reviewed : Project]
  BY DEF SessionInv, TypeOK
<1>2. DOMAIN waiting' = Proposer
  BY <1>1
<1>3. ASSUME NEW r \in Proposer, waiting'[r] # None
      PROVE  waiting'[r].patch \in Patch /\ waiting'[r].reviewed \in Project
  <2>1. CASE r = q
    BY <1>1, <2>1
  <2>2. CASE r # q
    <3>1. waiting'[r] = waiting[r]
      BY <1>1, <2>2
    <3> QED BY <1>1, <1>3, <3>1 DEF TypeOK
  <2> QED BY <2>1, <2>2
<1> QED BY <1>1, <1>2, <1>3 DEF SessionInv, TypeOK

\* A call that returns a document.
LEMMA AdoptIsTyped ==
  ASSUME SessionInv, NEW q \in Proposer, waiting[q] # None,
         NEW call \in {"commit", "soft"}, NEW graph \in Project, Adopt(q, call, graph)
  PROVE  SessionInv'
<1>1. /\ TypeOK /\ DOMAIN waiting = Proposer /\ doc \in Document
      /\ waiting[q].reviewed \in Project /\ MaxRevision \in Nat
  BY SessionAssumption DEF SessionInv, TypeOK
<1>2. doc.revision \in 0 .. MaxRevision
  BY <1>1 DEF Document
<1>3. /\ doc' = Bumped(graph) /\ waiting' = [waiting EXCEPT ![q] = None]
      /\ last' = [call |-> call, revision |-> doc.revision, reviewed |-> waiting[q].reviewed]
  BY DEF Adopt
<1>4. doc' \in Document
  BY <1>1, <1>2, <1>3 DEF Bumped, Document
<1>5. last' \in [call : {"none", "commit", "soft"}, revision : 0 .. MaxRevision,
                 reviewed : Project]
  BY <1>1, <1>2, <1>3
<1>6. ASSUME NEW r \in Proposer, waiting'[r] # None
      PROVE  waiting'[r].patch \in Patch /\ waiting'[r].reviewed \in Project
  <2>1. waiting'[r] = waiting[r]
    BY <1>1, <1>3, <1>6
  <2> QED BY <1>1, <1>6, <2>1 DEF TypeOK
<1>7. DOMAIN waiting' = Proposer
  BY <1>1, <1>3
<1> QED BY <1>4, <1>5, <1>6, <1>7 DEF SessionInv, TypeOK

\* What a patch that waits makes of the document.
LEMMA WaitingMakes ==
  ASSUME SessionInv, NEW q \in Proposer, waiting[q] # None,
         Applies(doc.graph, waiting[q].patch.ops)
  PROVE  /\ doc.graph \in Project /\ waiting[q].patch.ops \in Seq(Operation)
         /\ ApplyOps(doc.graph, waiting[q].patch.ops) \in Project
<1>1. doc.graph \in Project /\ waiting[q].patch.ops \in Seq(Operation)
  BY DEF SessionInv, TypeOK, Document, Patch
<1> QED BY <1>1, ResultsAreDocuments, ApplyOpsIsResult

LEMMA SessionNext == SessionInv /\ [CortexNext]_vars => SessionInv'
<1> SUFFICES ASSUME SessionInv, [CortexNext]_vars PROVE SessionInv'
  OBVIOUS
<1>0. doc.graph \in Project /\ doc.revision \in 0 .. MaxRevision
  BY DEF SessionInv, TypeOK, Document
<1>1. ASSUME NEW q \in Proposer, Preview(q) PROVE SessionInv'
  <2>1. PICK ops \in Patches, base \in {None, doc.revision}, unresolved \in BOOLEAN :
          /\ Applies(doc.graph, ops)
          /\ waiting' = [waiting EXCEPT ![q] =
               [patch |-> [ops |-> ops, base |-> base, unresolved |-> unresolved],
                reviewed |-> ApplyOps(doc.graph, ops)]]
    BY <1>1 DEF Preview
  <2>2. ops \in Seq(Operation) /\ ApplyOps(doc.graph, ops) \in Project
    BY <1>0, <2>1, PatchesAssumption, ResultsAreDocuments, ApplyOpsIsResult
  <2>3. doc' = doc /\ last' = last
    BY <1>1 DEF Preview
  <2>4. PICK shown :
          shown = [patch |-> [ops |-> ops, base |-> base, unresolved |-> unresolved],
                   reviewed |-> ApplyOps(doc.graph, ops)]
    OBVIOUS
  <2>5. shown.patch \in Patch /\ shown.reviewed \in Project
    BY <1>0, <2>2, <2>4 DEF Patch
  <2>6. waiting' = [waiting EXCEPT ![q] = shown]
    BY <2>1, <2>4
  <2> QED BY <2>3, <2>5, <2>6, ShownIsTyped
<1>2. ASSUME NEW q \in Proposer, Commit(q) PROVE SessionInv'
  <2>1. /\ waiting[q] # None /\ Applies(doc.graph, waiting[q].patch.ops)
        /\ Adopt(q, "commit", ApplyOps(doc.graph, waiting[q].patch.ops))
    BY <1>2 DEF Commit
  <2> QED BY <2>1, WaitingMakes, AdoptIsTyped
<1>3. ASSUME NEW q \in Proposer, SoftApply(q) PROVE SessionInv'
  <2>1. /\ waiting[q] # None /\ Applies(doc.graph, waiting[q].patch.ops)
        /\ Adopt(q, "soft", ApplyOps(doc.graph, waiting[q].patch.ops))
    BY <1>3 DEF SoftApply
  <2> QED BY <2>1, WaitingMakes, AdoptIsTyped
<1>4. ASSUME NEW q \in Proposer, Reject(q) PROVE SessionInv'
  <2>1. /\ doc' = doc /\ last' = last /\ waiting' = [waiting EXCEPT ![q] = None]
        /\ DOMAIN waiting = Proposer
    BY <1>4 DEF Reject, SessionInv
  <2>2. ASSUME NEW r \in Proposer, waiting'[r] # None
        PROVE  waiting'[r].patch \in Patch /\ waiting'[r].reviewed \in Project
    <3>1. waiting'[r] = waiting[r]
      BY <2>1, <2>2
    <3> QED BY <2>2, <3>1 DEF SessionInv, TypeOK
  <2>3. DOMAIN waiting' = Proposer
    BY <2>1
  <2> QED BY <2>1, <2>2, <2>3 DEF SessionInv, TypeOK
<1>5. ASSUME NEW q \in Proposer, Ask(q) PROVE SessionInv'
  <2>1. PICK intent \in Intents, given \in Givens :
          \E answer \in Answers(doc.graph, intent, given) :
            waiting' = [waiting EXCEPT ![q] =
              [patch |-> [ops |-> answer.ops, base |-> None,
                          unresolved |-> answer.unresolved \/ ~DryRunOk(doc.graph, answer.ops)],
               reviewed |-> IF Applies(doc.graph, answer.ops)
                              THEN ApplyOps(doc.graph, answer.ops) ELSE doc.graph]]
    BY <1>5 DEF Ask
  <2>2. PICK answer \in Answers(doc.graph, intent, given) :
          \E shown :
            /\ shown = [patch |-> [ops |-> answer.ops, base |-> None,
                          unresolved |-> answer.unresolved \/ ~DryRunOk(doc.graph, answer.ops)],
                        reviewed |-> IF Applies(doc.graph, answer.ops)
                                       THEN ApplyOps(doc.graph, answer.ops) ELSE doc.graph]
            /\ waiting' = [waiting EXCEPT ![q] = shown]
    BY <2>1
  <2>3. PICK shown :
          /\ shown = [patch |-> [ops |-> answer.ops, base |-> None,
                        unresolved |-> answer.unresolved \/ ~DryRunOk(doc.graph, answer.ops)],
                      reviewed |-> IF Applies(doc.graph, answer.ops)
                                     THEN ApplyOps(doc.graph, answer.ops) ELSE doc.graph]
          /\ waiting' = [waiting EXCEPT ![q] = shown]
    BY <2>2
  <2>4. answer.ops \in Seq(Operation)
    BY <1>0, CortexAssumption, AnswersArePatches
  <2>5. shown.reviewed \in Project
    <3>1. CASE Applies(doc.graph, answer.ops)
      BY <1>0, <2>3, <2>4, <3>1, ResultsAreDocuments, ApplyOpsIsResult
    <3>2. CASE ~Applies(doc.graph, answer.ops)
      BY <1>0, <2>3, <3>2
    <3> QED BY <3>1, <3>2
  <2>6. shown.patch \in Patch
    BY <2>3, <2>4 DEF Patch
  <2>7. doc' = doc /\ last' = last
    BY <1>5 DEF Ask
  <2> QED BY <2>3, <2>5, <2>6, <2>7, ShownIsTyped
<1>6. CASE UNCHANGED vars
  BY <1>6 DEF vars, SessionInv, TypeOK
<1> QED BY <1>1, <1>2, <1>3, <1>4, <1>5, <1>6 DEF CortexNext, Next

\* Whoever proposes, and whatever a proposal, an answer or the language model
\* holds: the document stays a project document and its revision a u64, and
\* what waits for review stays a patch together with the document it shows.
THEOREM SessionTypeCorrect == CortexSpec => []TypeOK
<1>1. SessionInv => TypeOK
  BY DEF SessionInv
<1> QED BY <1>1, SessionInit, SessionNext, PTL DEF CortexSpec

\* In a session that starts with a document without dangling references, no
\* binding and no entrypoint ever names an instance that is gone, soft applies
\* included: they may leave the document invalid, but not in this way.
THEOREM NeverDangling ==
  ASSUME \A p \in Initial : Whole(p)
  PROVE  CortexSpec => []NoDangling
<1>1. Init => NoDangling
  BY DEF Init, NoDangling
<1>2. SessionInv /\ NoDangling /\ [CortexNext]_vars => NoDangling'
  <2> SUFFICES ASSUME SessionInv, NoDangling, [CortexNext]_vars PROVE NoDangling'
    OBVIOUS
  <2>1. ASSUME NEW q \in Proposer, NEW call, waiting[q] # None,
               Applies(doc.graph, waiting[q].patch.ops),
               Adopt(q, call, ApplyOps(doc.graph, waiting[q].patch.ops))
        PROVE  NoDangling'
    <3>1. /\ doc.graph \in Project /\ waiting[q].patch.ops \in Seq(Operation)
      BY <2>1, WaitingMakes
    <3>2. Whole(ApplyOps(doc.graph, waiting[q].patch.ops))
      BY <2>1, <3>1, ResultsAreWhole, ApplyOpsIsResult DEF NoDangling
    <3>3. doc'.graph = ApplyOps(doc.graph, waiting[q].patch.ops)
      BY <2>1 DEF Adopt, Bumped
    <3> QED BY <3>2, <3>3 DEF NoDangling
  <2>2. ASSUME NEW q \in Proposer, Commit(q) PROVE NoDangling'
    BY <2>1, <2>2 DEF Commit
  <2>3. ASSUME NEW q \in Proposer, SoftApply(q) PROVE NoDangling'
    BY <2>1, <2>3 DEF SoftApply
  <2>4. ASSUME NEW q \in Proposer, Preview(q) \/ Reject(q) \/ Ask(q) PROVE NoDangling'
    <3>1. doc' = doc
      BY <2>4 DEF Preview, Reject, Ask
    <3> QED BY <3>1 DEF NoDangling
  <2>5. CASE UNCHANGED vars
    BY <2>5 DEF vars, NoDangling
  <2> QED BY <2>2, <2>3, <2>4, <2>5 DEF CortexNext, Next
<1> QED BY <1>1, <1>2, SessionInit, SessionNext, PTL DEF CortexSpec

\* A proposal for a document that patches have changed in any way applies to it
\* unless a contract is unknown or an id is taken; it loses nothing, brings the
\* whole pipeline, and asking again changes nothing.
THEOREM ProposalsComplete == CortexSpec => []ProposalIsComplete
<1>1. SessionInv => ProposalIsComplete
  <2> SUFFICES ASSUME SessionInv, NEW given \in Givens
               PROVE  LET ops == Propose(doc.graph, given) IN
                      /\ ~Hindered(doc.graph, given) => Applies(doc.graph, ops)
                      /\ Applies(doc.graph, ops) =>
                           LET made == ApplyOps(doc.graph, ops) IN
                           /\ Keeps(doc.graph, made)
                           /\ Reached(doc.graph, made, given)
                           /\ Applies(made, Propose(made, given))
                           /\ ApplyOps(made, Propose(made, given)) = made
    BY DEF ProposalIsComplete
  <2> DEFINE p == doc.graph
             ops == Propose(p, given)
             made == ApplyOps(p, ops)
  <2>1. p \in Project /\ given \in SUBSET Capability
    BY CortexAssumption DEF SessionInv, TypeOK, Document
  <2>2. ~Hindered(p, given) => Applies(p, ops)
    BY <2>1, ProposalApplies
  <2>3. ASSUME Applies(p, ops)
        PROVE  /\ Keeps(p, made) /\ Reached(p, made, given)
               /\ Applies(made, Propose(made, given))
               /\ ApplyOps(made, Propose(made, given)) = made
    <3>1. /\ made \in Project /\ Keeps(p, made) /\ Reached(p, made, given)
          /\ \A k \in DOMAIN Recipe :
               ~Conflicts(made, Recipe[k]) =>
                 LET s == made.instances[Recipe[k].id].setting IN
                 Unset(Recipe[k], s) => Filled(Recipe[k], s) = s
      BY <2>1, <2>3, ProposalReaches
    <3> HIDE DEF made
    <3>2. /\ NodeIds \subseteq Instances(made) /\ Edges \subseteq made.bindings
          /\ made.entrypoint = Start
      BY <3>1 DEF Reached
    <3> QED BY <2>1, <3>1, <3>2, ProposalIsFinal
  <2> QED BY <2>2, <2>3
<1> QED BY <1>1, SessionInit, SessionNext, PTL DEF CortexSpec

-----------------------------------------------------------------------------
(* Reviews *)

\* A patch whose base is the document's revision was reviewed on this document.
ReviewIsCurrent(q) ==
  waiting[q] # None /\ waiting[q].patch.base # None =>
    /\ waiting[q].patch.base \in Nat
    /\ waiting[q].patch.base <= doc.revision
    /\ waiting[q].patch.base = doc.revision /\ doc.revision < MaxRevision =>
         waiting[q].reviewed = ApplyOps(doc.graph, waiting[q].patch.ops)

ReviewInv ==
  /\ doc = [graph |-> doc.graph, revision |-> doc.revision]
  /\ doc.revision \in 0 .. MaxRevision
  /\ DOMAIN waiting = Proposer
  /\ \A q \in Proposer : ReviewIsCurrent(q)
  /\ CommitIsOfReviewed

LEMMA ReviewInit == Init => ReviewInv
  BY SessionAssumption DEF Init, ReviewInv, ReviewIsCurrent, CommitIsOfReviewed

\* What a call that returns a document does to the patches that wait.
LEMMA AdoptKeeps ==
  ASSUME ReviewInv, NEW q \in Proposer, NEW call, NEW graph, Adopt(q, call, graph)
  PROVE  /\ doc' = [graph |-> graph, revision |-> doc'.revision]
         /\ doc'.revision \in 0 .. MaxRevision
         /\ doc.revision < MaxRevision => doc'.revision = doc.revision + 1
         /\ DOMAIN waiting' = Proposer
         /\ \A r \in Proposer : ReviewIsCurrent(r)'
<1>1. /\ doc' = Bumped(graph) /\ waiting' = [waiting EXCEPT ![q] = None]
      /\ doc.revision \in 0 .. MaxRevision /\ DOMAIN waiting = Proposer
      /\ MaxRevision \in Nat
  BY SessionAssumption DEF Adopt, ReviewInv
<1>2. /\ doc' = [graph |-> graph, revision |-> doc'.revision]
      /\ doc'.revision = IF doc.revision = MaxRevision THEN MaxRevision ELSE doc.revision + 1
  BY <1>1 DEF Bumped
<1>3. ASSUME NEW r \in Proposer PROVE ReviewIsCurrent(r)'
  <2>1. waiting'[r] = None \/ waiting'[r] = waiting[r]
    BY <1>1
  <2>2. ReviewIsCurrent(r)
    BY DEF ReviewInv
  <2> QED BY <2>1, <2>2, <1>1, <1>2 DEF ReviewIsCurrent
<1> QED BY <1>1, <1>2, <1>3

LEMMA ReviewNext == ReviewInv /\ [CortexNext]_vars => ReviewInv'
<1> SUFFICES ASSUME ReviewInv, [CortexNext]_vars PROVE ReviewInv'
  OBVIOUS
<1>1. ASSUME NEW q \in Proposer, Preview(q) PROVE ReviewInv'
  <2>1. PICK ops \in Patches, base \in {None, doc.revision}, unresolved \in BOOLEAN :
          waiting' = [waiting EXCEPT ![q] =
            [patch |-> [ops |-> ops, base |-> base, unresolved |-> unresolved],
             reviewed |-> ApplyOps(doc.graph, ops)]]
    BY <1>1 DEF Preview
  <2>2. doc' = doc /\ last' = last
    BY <1>1 DEF Preview
  <2>3. DOMAIN waiting = Proposer /\ doc.revision \in Nat
    BY SessionAssumption DEF ReviewInv
  <2>4. ASSUME NEW r \in Proposer PROVE ReviewIsCurrent(r)'
    <3>1. CASE r = q
      <4>1. /\ waiting'[r].patch.base \in {None, doc.revision}
            /\ waiting'[r].patch.ops = ops
            /\ waiting'[r].reviewed = ApplyOps(doc.graph, ops)
        BY <2>1, <2>3, <3>1
      <4> QED BY <4>1, <2>2, <2>3 DEF ReviewIsCurrent
    <3>2. CASE r # q
      <4>1. waiting'[r] = waiting[r] /\ ReviewIsCurrent(r)
        BY <2>1, <2>3, <3>2 DEF ReviewInv
      <4> QED BY <4>1, <2>2 DEF ReviewIsCurrent
    <3> QED BY <3>1, <3>2
  <2>5. DOMAIN waiting' = Proposer
    BY <2>1, <2>3
  <2>6. CommitIsOfReviewed'
    BY <2>2 DEF ReviewInv, CommitIsOfReviewed
  <2> QED BY <2>2, <2>4, <2>5, <2>6 DEF ReviewInv
<1>2. ASSUME NEW q \in Proposer, Commit(q) PROVE ReviewInv'
  <2> DEFINE graph == ApplyOps(doc.graph, waiting[q].patch.ops)
  <2>1. /\ waiting[q] # None
        /\ waiting[q].patch.base = doc.revision /\ waiting[q].patch.base # None
        /\ Valid(graph)
        /\ Adopt(q, "commit", graph)
    BY <1>2 DEF Commit, Fits
  <2>2. doc.revision < MaxRevision => waiting[q].reviewed = graph
    BY <2>1 DEF ReviewInv, ReviewIsCurrent
  <2> HIDE DEF graph
  <2>3. /\ doc' = [graph |-> graph, revision |-> doc'.revision]
        /\ doc'.revision \in 0 .. MaxRevision
        /\ doc.revision < MaxRevision => doc'.revision = doc.revision + 1
        /\ DOMAIN waiting' = Proposer
        /\ \A r \in Proposer : ReviewIsCurrent(r)'
    BY <2>1, AdoptKeeps
  <2>4. last' = [call |-> "commit", revision |-> doc.revision,
                 reviewed |-> waiting[q].reviewed]
    BY <2>1 DEF Adopt
  <2>5. doc'.graph = graph
    BY <2>3
  <2>6. Valid(doc'.graph)
    BY <2>1, <2>5
  <2>7. CommitIsOfReviewed'
    BY <2>2, <2>3, <2>4, <2>6 DEF CommitIsOfReviewed
  <2> QED BY <2>3, <2>5, <2>7 DEF ReviewInv
<1>3. ASSUME NEW q \in Proposer, SoftApply(q) PROVE ReviewInv'
  <2> DEFINE graph == ApplyOps(doc.graph, waiting[q].patch.ops)
  <2>1. Adopt(q, "soft", graph)
    BY <1>3 DEF SoftApply
  <2> HIDE DEF graph
  <2>2. /\ doc' = [graph |-> graph, revision |-> doc'.revision]
        /\ doc'.revision \in 0 .. MaxRevision
        /\ DOMAIN waiting' = Proposer
        /\ \A r \in Proposer : ReviewIsCurrent(r)'
    BY <2>1, AdoptKeeps
  <2>3. doc'.graph = graph
    BY <2>2
  <2>4. CommitIsOfReviewed'
    BY <2>1 DEF Adopt, CommitIsOfReviewed
  <2> QED BY <2>2, <2>3, <2>4 DEF ReviewInv
<1>4. ASSUME NEW q \in Proposer, Reject(q) PROVE ReviewInv'
  <2>1. /\ doc' = doc /\ last' = last /\ waiting' = [waiting EXCEPT ![q] = None]
        /\ DOMAIN waiting = Proposer
    BY <1>4 DEF Reject, ReviewInv
  <2>2. ASSUME NEW r \in Proposer PROVE ReviewIsCurrent(r)'
    <3>1. waiting'[r] = None \/ waiting'[r] = waiting[r]
      BY <2>1
    <3>2. ReviewIsCurrent(r)
      BY DEF ReviewInv
    <3> QED BY <2>1, <3>1, <3>2 DEF ReviewIsCurrent
  <2>3. DOMAIN waiting' = Proposer
    BY <2>1
  <2>4. CommitIsOfReviewed'
    BY <2>1 DEF ReviewInv, CommitIsOfReviewed
  <2> QED BY <2>1, <2>2, <2>3, <2>4 DEF ReviewInv
<1>5. ASSUME NEW q \in Proposer, Ask(q) PROVE ReviewInv'
  <2>0. PICK intent \in Intents, given \in Givens :
          \E answer \in Answers(doc.graph, intent, given) :
            waiting' = [waiting EXCEPT ![q] =
              [patch |-> [ops |-> answer.ops, base |-> None,
                          unresolved |-> answer.unresolved \/ ~DryRunOk(doc.graph, answer.ops)],
               reviewed |-> IF Applies(doc.graph, answer.ops)
                              THEN ApplyOps(doc.graph, answer.ops) ELSE doc.graph]]
    BY <1>5 DEF Ask
  <2>1. PICK shown : /\ waiting' = [waiting EXCEPT ![q] = shown]
                     /\ shown.patch.base = None
    <3>1. PICK ops, unresolved, reviewed :
            waiting' = [waiting EXCEPT ![q] =
              [patch |-> [ops |-> ops, base |-> None, unresolved |-> unresolved],
               reviewed |-> reviewed]]
      BY <2>0
    <3>2. PICK shown : shown = [patch |-> [ops |-> ops, base |-> None, unresolved |-> unresolved],
                                reviewed |-> reviewed]
      OBVIOUS
    <3>3. waiting' = [waiting EXCEPT ![q] = shown] /\ shown.patch.base = None
      BY <3>1, <3>2
    <3> QED BY <3>3
  <2>2. doc' = doc /\ last' = last /\ DOMAIN waiting = Proposer
    BY <1>5 DEF Ask, ReviewInv
  <2>3. ASSUME NEW r \in Proposer PROVE ReviewIsCurrent(r)'
    <3>1. CASE r = q
      <4>1. waiting'[r].patch.base = None
        BY <2>1, <2>2, <3>1
      <4> QED BY <4>1 DEF ReviewIsCurrent
    <3>2. CASE r # q
      <4>1. waiting'[r] = waiting[r] /\ ReviewIsCurrent(r)
        BY <2>1, <2>2, <3>2 DEF ReviewInv
      <4> QED BY <4>1, <2>2 DEF ReviewIsCurrent
    <3> QED BY <3>1, <3>2
  <2>4. DOMAIN waiting' = Proposer
    BY <2>1, <2>2
  <2>5. CommitIsOfReviewed'
    BY <2>2 DEF ReviewInv, CommitIsOfReviewed
  <2> QED BY <2>2, <2>3, <2>4, <2>5 DEF ReviewInv
<1>6. CASE UNCHANGED vars
  BY <1>6 DEF vars, ReviewInv, ReviewIsCurrent, CommitIsOfReviewed
<1> QED BY <1>1, <1>2, <1>3, <1>4, <1>5, <1>6 DEF CortexNext, Next

\* However many proposers and however long the session: a commit makes the very
\* graph that was reviewed, valid and one revision on, short of the last u64.
THEOREM CommitsAreReviewed == CortexSpec => []CommitIsOfReviewed
<1>1. ReviewInv => CommitIsOfReviewed
  BY DEF ReviewInv
<1> QED BY <1>1, ReviewInit, ReviewNext, PTL DEF CortexSpec
=============================================================================
