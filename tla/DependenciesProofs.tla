------------------------- MODULE DependenciesProofs -------------------------
(***************************************************************************)
(* Proofs about Dependencies, for any objects, Agents and Secrets, any lag *)
(* of the informers, any number of edits, failures and restarts.           *)
(***************************************************************************)
EXTENDS Dependencies, TLAPS, FiniteSetTheorems, SequenceTheorems

-----------------------------------------------------------------------------
(* Events.                                                                 *)

(* r is q with e appended; t is q without its first element. *)
IsAppend(r, q, e) ==
    /\ Len(q) \in Nat
    /\ Len(r) = Len(q) + 1
    /\ r[Len(q) + 1] = e
    /\ \A i \in 1..Len(q) : r[i] = q[i]
IsTail(t, q) ==
    /\ Len(q) \in Nat \ {0}
    /\ Len(t) = Len(q) - 1
    /\ \A i \in 1..Len(t) : t[i] = q[i + 1]

LEMMA AppendIsAppend ==
    ASSUME NEW S, NEW q \in Seq(S), NEW e \in S
    PROVE  IsAppend(Append(q, e), q, e)
BY AppendProperties, LenProperties DEF IsAppend

LEMMA TailIsTail ==
    ASSUME NEW S, NEW q \in Seq(S), q # << >>
    PROVE  IsTail(Tail(q), q) /\ Head(q) = q[1] /\ q[1] \in S
<1>1. IsTail(Tail(q), q) /\ Head(q) = q[1] /\ Len(q) \in Nat \ {0}
  BY HeadTailProperties, LenProperties, EmptySeq DEF IsTail
<1> QED
  BY <1>1, ElementOfSeq

LEMMA AppendPending ==
    ASSUME NEW q, NEW e, NEW r, IsAppend(r, q, e), NEW x
    PROVE  /\ Pending(r, x) = Pending(q, x) \cup (IF e.name = x THEN {Len(q) + 1} ELSE {})
           /\ \A i \in Pending(q, x) : r[i] = q[i] /\ i < Len(q) + 1 /\ i \in Nat
BY DEF Pending, IsAppend

LEMMA TailPending ==
    ASSUME NEW q, NEW t, IsTail(t, q), NEW x
    PROVE  /\ \A i \in Pending(t, x) : i \in Nat /\ i + 1 \in Pending(q, x) /\ t[i] = q[i + 1]
           /\ \A i \in Pending(q, x) \ {1} : i \in Nat /\ i - 1 \in Pending(t, x)
           /\ q[1].name = x <=> 1 \in Pending(q, x)
BY DEF Pending, IsTail

-----------------------------------------------------------------------------
(* Type correctness.                                                       *)

LEMMA NoObjType == NoObj \in DepObj
BY DEF NoObj, DepObj, DepSpec

LEMMA IdleType == Idle \in Reconcile /\ Idle.pc = "idle" /\ Idle.dep = NoDep
BY NoObjType DEF Idle, Reconcile

LEMMA InitType == Init => TypeOK
<1> SUFFICES ASSUME Init PROVE TypeOK
  OBVIOUS
<1>1. dep \in [Dep -> DepObj] /\ depCache \in [Dep -> DepObj]
  BY NoObjType DEF Init
<1>2. kept \in [Dep -> SUBSET Agent] /\ due \subseteq Dep
  BY DEF Init
<1>3. /\ depEvents \in Seq(Event(Dep, DepObj))
      /\ refsEvents \in Seq(Event(Agent, SUBSET Dep))
      /\ secretsEvents \in Seq(Event(Secret, BOOLEAN))
  BY DEF Init
<1>4. op \in Reconcile /\ op.pc = "idle"
  BY IdleType DEF Init
<1> QED
  BY <1>1, <1>2, <1>3, <1>4 DEF TypeOK, Init

LEMMA BoundType == \A d : Cardinality(BoundAgents(d)) \in Nat
<1>1. \A d : BoundAgents(d) \in SUBSET Agent
  BY DEF BoundAgents
<1> QED
  BY <1>1, DepAssumption, FS_Subset, FS_CardinalityType

LEMMA WriteType ==
    ASSUME TypeOK, NEW d \in Dep, NEW obj \in DepObj, WriteDep(d, obj)
    PROVE  dep' \in [Dep -> DepObj] /\ depEvents' \in Seq(Event(Dep, DepObj))
<1>1. [name |-> d, value |-> obj] \in Event(Dep, DepObj)
  BY DEF Event
<1>2. Append(depEvents, [name |-> d, value |-> obj]) \in Seq(Event(Dep, DepObj))
  BY <1>1, AppendProperties DEF TypeOK
<1> QED
  BY <1>2 DEF WriteDep, TypeOK

LEMMA OvertakeType ==
    ASSUME TypeOK, NEW d, Overtake(d)
    PROVE  op' \in Reconcile /\ (op'.pc # "idle" => op'.dep \in Dep)
BY DEF Overtake, TypeOK, Reconcile

LEMMA DeliverType ==
    ASSUME TypeOK, DeliverDep \/ DeliverRefs \/ DeliverSecret
    PROVE  TypeOK'
<1>1. CASE DeliverDep
  <2>1. depEvents # << >> /\ depEvents \in Seq(Event(Dep, DepObj))
    BY <1>1 DEF DeliverDep, TypeOK
  <2>2. Head(depEvents) \in Event(Dep, DepObj) /\ Tail(depEvents) \in Seq(Event(Dep, DepObj))
    BY <2>1
  <2>3. depCache' \in [Dep -> DepObj] /\ due' \subseteq Dep
    BY <1>1, <2>2 DEF DeliverDep, TypeOK, Event
  <2> QED
    BY <1>1, <2>2, <2>3 DEF DeliverDep, TypeOK, refsVars, secretVars
<1>2. CASE DeliverRefs
  <2>1. refsEvents # << >> /\ refsEvents \in Seq(Event(Agent, SUBSET Dep))
    BY <1>2 DEF DeliverRefs, TypeOK
  <2>2. /\ Head(refsEvents) \in Event(Agent, SUBSET Dep)
        /\ Tail(refsEvents) \in Seq(Event(Agent, SUBSET Dep))
    BY <2>1
  <2>3. refsCache' \in [Agent -> SUBSET Dep] /\ due' \subseteq Dep
    BY <1>2, <2>2 DEF DeliverRefs, TypeOK, Event, AgentToProviderRequests, Dep
  <2> QED
    BY <1>2, <2>2, <2>3 DEF DeliverRefs, TypeOK, depVars, secretVars
<1>3. CASE DeliverSecret
  <2>1. secretsEvents # << >> /\ secretsEvents \in Seq(Event(Secret, BOOLEAN))
    BY <1>3 DEF DeliverSecret, TypeOK
  <2>2. /\ Head(secretsEvents) \in Event(Secret, BOOLEAN)
        /\ Tail(secretsEvents) \in Seq(Event(Secret, BOOLEAN))
    BY <2>1
  <2>3. secretsCache' \in [Secret -> BOOLEAN] /\ due' \subseteq Dep
    BY <1>3, <2>2 DEF DeliverSecret, TypeOK, Event, SecretToProviderRequests, Dep
  <2> QED
    BY <1>3, <2>2, <2>3 DEF DeliverSecret, TypeOK, depVars, refsVars
<1> QED
  BY <1>1, <1>2, <1>3

(* What a user writes. *)
LEMMA UserObjects ==
    ASSUME TypeOK, NEW d \in Dep
    PROVE  /\ \A s \in SpecOf(d) : /\ [NoObj EXCEPT !.state = "live", !.spec = s] \in DepObj
                                   /\ [dep[d] EXCEPT !.spec = s] \in DepObj
           /\ [dep[d] EXCEPT !.state = "deleting"] \in DepObj
BY NoObjType DEF TypeOK, DepObj, SpecOf, DepSpec

LEMMA UserType ==
    ASSUME TypeOK, UserStep
    PROVE  TypeOK'
<1>1. ASSUME NEW d \in Dep, CreateDep(d) PROVE TypeOK'
  <2>1. dep' \in [Dep -> DepObj] /\ depEvents' \in Seq(Event(Dep, DepObj))
    BY <1>1, UserObjects, WriteType DEF CreateDep
  <2> QED
    BY <1>1, <2>1, OvertakeType DEF CreateDep, UserEdit, TypeOK, refsVars, secretVars
<1>2. ASSUME NEW d \in Dep, EditDep(d) PROVE TypeOK'
  <2>1. dep' \in [Dep -> DepObj] /\ depEvents' \in Seq(Event(Dep, DepObj))
    BY <1>2, UserObjects, WriteType DEF EditDep
  <2> QED
    BY <1>2, <2>1, OvertakeType DEF EditDep, UserEdit, TypeOK, refsVars, secretVars
<1>3. ASSUME NEW d \in Dep, DeleteDep(d) PROVE TypeOK'
  <2>1. dep' \in [Dep -> DepObj] /\ depEvents' \in Seq(Event(Dep, DepObj))
    BY <1>3, UserObjects, NoObjType, WriteType DEF DeleteDep
  <2>2. kept' \in [Dep -> SUBSET Agent]
    BY <1>3 DEF DeleteDep, TypeOK
  <2> QED
    BY <1>3, <2>1, <2>2, OvertakeType DEF DeleteDep, UserEdit, TypeOK, refsVars, secretVars
<1>4. ASSUME NEW a \in Agent, SetRefs(a) PROVE TypeOK'
  <2>1. PICK S \in SUBSET Dep :
           /\ refs' = [refs EXCEPT ![a] = S]
           /\ refsEvents' = Append(refsEvents, [name |-> a, value |-> S])
           /\ kept' = [d \in Dep |-> IF d \in S THEN kept[d] ELSE kept[d] \ {a}]
    BY <1>4 DEF SetRefs
  <2>2. [name |-> a, value |-> S] \in Event(Agent, SUBSET Dep)
    BY DEF Event
  <2>3. refsEvents' \in Seq(Event(Agent, SUBSET Dep))
    BY <2>1, <2>2, AppendProperties DEF TypeOK
  <2>4. refs' \in [Agent -> SUBSET Dep] /\ kept' \in [Dep -> SUBSET Agent]
    BY <2>1 DEF TypeOK
  <2> QED
    BY <1>4, <2>3, <2>4 DEF SetRefs, UserEdit, TypeOK, depVars, secretVars
<1>5. ASSUME NEW s \in Secret, SetSecret(s) PROVE TypeOK'
  <2>1. [name |-> s, value |-> ~ secrets[s]] \in Event(Secret, BOOLEAN)
    BY DEF Event, TypeOK
  <2>2. secretsEvents' \in Seq(Event(Secret, BOOLEAN))
    BY <1>5, <2>1, AppendProperties DEF SetSecret, TypeOK
  <2>3. secrets' \in [Secret -> BOOLEAN]
    BY <1>5 DEF SetSecret, TypeOK
  <2> QED
    BY <1>5, <2>2, <2>3 DEF SetSecret, UserEdit, TypeOK, depVars, refsVars
<1> QED
  BY <1>1, <1>2, <1>3, <1>4, <1>5 DEF UserStep

LEMMA StartType ==
    ASSUME TypeOK, NEW d \in Dep, NEW pc \in {"update", "patch"}, NEW mem \in DepObj,
           Start(d, pc, mem)
    PROVE  TypeOK'
BY DEF Start, TypeOK, Reconcile, depVars, refsVars, secretVars

LEMMA ReconcileType ==
    ASSUME TypeOK, NEW d \in Dep, ReconcileDep(d)
    PROVE  TypeOK'
<1>1. depCache[d] \in DepObj
  BY DEF TypeOK
<1>2. CASE ReconcileAbsent(d)
  BY <1>2 DEF ReconcileAbsent, TypeOK, depVars, refsVars, secretVars
<1>3. CASE AddFinalizer(d) \/ RemoveFinalizer(d)
  <2>1. \A f \in BOOLEAN : [depCache[d] EXCEPT !.fin = f] \in DepObj
    BY <1>1 DEF DepObj
  <2> QED
    BY <1>3, <2>1, StartType DEF AddFinalizer, RemoveFinalizer
<1>4. CASE ReconcileLive(d)
  <2>1. ReconciledStatus(d, depCache[d]) \in DepObj
    BY <1>1, BoundType DEF ReconciledStatus, DepObj
  <2> QED
    BY <1>4, <2>1, StartType DEF ReconcileLive
<1>5. CASE DeletionBlocked(d)
  <2>1. [depCache[d] EXCEPT
           !.bound = IF d \in Provider THEN Cardinality(BoundAgents(d)) ELSE @] \in DepObj
    BY <1>1, BoundType DEF DepObj
  <2> QED
    BY <1>5, <2>1, StartType DEF DeletionBlocked
<1> QED
  BY <1>2, <1>3, <1>4, <1>5 DEF ReconcileDep

LEMMA MergeType ==
    ASSUME NEW cur \in DepObj, NEW base \in DepObj, NEW mem \in DepObj
    PROVE  MergeFrom(cur, base, mem) \in DepObj
BY DEF MergeFrom, DepObj

LEMMA FinishType ==
    ASSUME TypeOK, UpdateDep \/ PatchDep \/ WriteFails \/ OperatorRestarts
    PROVE  TypeOK'
<1>1. op.pc # "idle" => op.dep \in Dep /\ op.base \in DepObj /\ op.mem \in DepObj
  BY DEF TypeOK, Reconcile
<1>2. CASE UpdateDep
  <2>1. dep' \in [Dep -> DepObj] /\ depEvents' \in Seq(Event(Dep, DepObj))
    BY <1>1, <1>2, NoObjType, WriteType DEF UpdateDep, TypeOK
  <2> QED
    BY <1>1, <1>2, <2>1, IdleType DEF UpdateDep, TypeOK, refsVars, secretVars
<1>3. CASE PatchDep
  <2>1. MergeFrom(dep[op.dep], op.base, op.mem) \in DepObj
    BY <1>1, <1>3, MergeType DEF PatchDep, TypeOK
  <2>2. dep' \in [Dep -> DepObj] /\ depEvents' \in Seq(Event(Dep, DepObj))
    BY <1>1, <1>3, <2>1, WriteType DEF PatchDep, TypeOK
  <2> QED
    BY <1>1, <1>3, <2>2, IdleType DEF PatchDep, TypeOK, refsVars, secretVars
<1>4. CASE WriteFails
  BY <1>1, <1>4, IdleType DEF WriteFails, TypeOK, depVars, refsVars, secretVars
<1>5. CASE OperatorRestarts
  BY <1>5, IdleType DEF OperatorRestarts, TypeOK
<1> QED
  BY <1>2, <1>3, <1>4, <1>5

(* Objects, Agents, Secrets, events and reconciles keep their types. *)
THEOREM DepTypeCorrect == Spec => []TypeOK
<1>1. ASSUME TypeOK, [Next]_vars PROVE TypeOK'
  <2>1. CASE UNCHANGED vars
    BY <1>1, <2>1 DEF TypeOK, vars
  <2> QED
    BY <1>1, <2>1, UserType, DeliverType, ReconcileType, FinishType DEF Next
<1> QED
  BY <1>1, InitType, PTL DEF Spec

-----------------------------------------------------------------------------
(* The inductive invariant.                                                *)

(* The copies of object d: the cached one, those on their way, the stored. *)
Copies(d) == {depCache[d], dep[d]} \cup
             {depEvents[i].value : i \in Pending(depEvents, d)}

(* The last event about an object shows it as it is stored. *)
SyncInv ==
    \A d \in Dep :
       /\ Pending(depEvents, d) = {} => depCache[d] = dep[d]
       /\ \A i \in Pending(depEvents, d) :
             (\A j \in Pending(depEvents, d) : j <= i) => depEvents[i].value = dep[d]

(* A fresh reconcile has read the only copy there is. *)
FreshInv ==
    op.pc # "idle" /\ op.fresh =>
       /\ Pending(depEvents, op.dep) = {}
       /\ op.base = dep[op.dep]

(* What the reconcile in flight is about to do. *)
UpdateInv ==
    op.pc = "update" =>
       \/ /\ op.base.state = "live"
          /\ op.mem = [op.base EXCEPT !.fin = TRUE]
       \/ /\ op.base.state = "deleting"
          /\ op.mem = [op.base EXCEPT !.fin = FALSE]
          /\ op.fresh => kept[op.dep] = {}

PatchInv ==
    op.pc = "patch" =>
       \/ op.base.state = "live" /\ dep[op.dep].fin
       \/ op.base.state = "deleting" /\ op.mem.phase = op.base.phase

(* The Agents in kept are still known to refer to the object. *)
KeptInv == \A d \in Dep : \A a \in kept[d] : Known(a, d)

(* The finalizer, once it was seen on an object that is not deleted, is    *)
(* still there; nothing that is absent has it.                             *)
FinInv ==
    \A d \in Dep :
       /\ dep[d].state = "absent" => dep[d] = NoObj
       /\ \A c \in Copies(d) : c.state = "live" /\ c.fin => dep[d].fin

ProtectInv ==
    /\ SyncInv /\ FreshInv /\ UpdateInv /\ PatchInv /\ KeptInv /\ FinInv
    /\ HeldWhileInUse /\ ReportedIsProtected

LEMMA ProtectInit == Init => ProtectInv
<1> SUFFICES ASSUME Init PROVE ProtectInv
  OBVIOUS
<1>1. \A d \in Dep : dep[d] = NoObj /\ depCache[d] = NoObj /\ kept[d] = {}
  BY DEF Init
<1>2. \A d : Pending(depEvents, d) = {}
  BY DEF Init, Pending
<1>3. NoObj.state = "absent" /\ NoObj.phase = ""
  BY DEF NoObj
<1>4. op.pc = "idle"
  BY IdleType DEF Init
<1>5. \A d \in Dep : Copies(d) = {NoObj}
  BY <1>1, <1>2 DEF Copies
<1>6. SyncInv /\ FinInv
  BY <1>1, <1>2, <1>3, <1>5 DEF SyncInv, FinInv
<1>7. KeptInv /\ HeldWhileInUse /\ ReportedIsProtected
  BY <1>1, <1>3 DEF KeptInv, HeldWhileInUse, ReportedIsProtected
<1> QED
  BY <1>4, <1>6, <1>7 DEF ProtectInv, FreshInv, UpdateInv, PatchInv

(* A write makes one more copy of its object, and keeps the events and the *)
(* store in step.                                                          *)
LEMMA WriteEffect ==
    ASSUME TypeOK, SyncInv, NEW d \in Dep, NEW obj \in DepObj, WriteDep(d, obj),
           UNCHANGED depCache
    PROVE  /\ dep' = [dep EXCEPT ![d] = obj]
           /\ SyncInv'
           /\ \A x \in Dep : Copies(x)' \subseteq
                               Copies(x) \cup (IF x = d THEN {obj} ELSE {})
           /\ \A x \in Dep \ {d} : Pending(depEvents, x)' = Pending(depEvents, x)
<1>1. CASE obj = dep[d]
  <2>1. UNCHANGED <<dep, depEvents>>
    BY <1>1 DEF WriteDep
  <2>2. dep' = [dep EXCEPT ![d] = obj]
    BY <1>1, <2>1 DEF TypeOK
  <2> QED
    BY <2>1, <2>2 DEF SyncInv, Copies, Pending
<1>2. CASE obj # dep[d]
  <2> DEFINE e == [name |-> d, value |-> obj]
             n == Len(depEvents) + 1
  <2>1. depEvents \in Seq(Event(Dep, DepObj)) /\ e \in Event(Dep, DepObj)
    BY DEF TypeOK, Event
  <2>2. dep' = [dep EXCEPT ![d] = obj] /\ depEvents' = Append(depEvents, e)
    BY <1>2 DEF WriteDep
  <2>3. dep'[d] = obj /\ \A x \in Dep \ {d} : dep'[x] = dep[x]
    BY <2>2 DEF TypeOK
  <2>9. IsAppend(depEvents', depEvents, e)
    BY <2>1, <2>2, AppendIsAppend
  <2>4. /\ e.name = d /\ e.value = obj
        /\ depEvents'[n] = e
        /\ n \in Nat
    BY <2>9 DEF IsAppend
  <2>5. ASSUME NEW x \in Dep
        PROVE  /\ Pending(depEvents, x)' =
                     Pending(depEvents, x) \cup (IF x = d THEN {n} ELSE {})
               /\ \A i \in Pending(depEvents, x) :
                     depEvents'[i] = depEvents[i] /\ i < n /\ i \in Nat
    <3>1. Pending(depEvents, x)' = Pending(depEvents', x)
      BY DEF Pending
    <3> HIDE DEF e
    <3> QED
      BY <2>4, <2>9, <3>1, AppendPending
  <2> HIDE DEF e, n
  <2>6. ASSUME NEW x \in Dep
        PROVE  /\ Pending(depEvents, x)' = {} => depCache'[x] = dep'[x]
               /\ \A i \in Pending(depEvents, x)' :
                     (\A j \in Pending(depEvents, x)' : j <= i) =>
                        depEvents'[i].value = dep'[x]
    <3>1. CASE x = d
      BY <2>3, <2>4, <2>5, <3>1
    <3>2. CASE x # d
      BY <2>3, <2>5, <3>2 DEF SyncInv
    <3> QED
      BY <3>1, <3>2
  <2>7. SyncInv'
    BY <2>6 DEF SyncInv
  <2>8. ASSUME NEW x \in Dep
        PROVE  Copies(x)' \subseteq Copies(x) \cup (IF x = d THEN {obj} ELSE {})
    BY <2>3, <2>4, <2>5 DEF Copies
  <2> QED
    BY <2>2, <2>5, <2>7, <2>8
<1> QED
  BY <1>1, <1>2

(* What concerns the objects and their copies. *)
LEMMA FinKept ==
    ASSUME TypeOK, FinInv, NEW d \in Dep, NEW obj \in DepObj,
           dep' = [dep EXCEPT ![d] = obj],
           \A x \in Dep : Copies(x)' \subseteq
                             Copies(x) \cup (IF x = d THEN {obj} ELSE {}),
           obj.state = "absent" => obj = NoObj,
           obj.fin \/ ~ dep[d].fin
    PROVE  FinInv'
<1>1. dep'[d] = obj /\ \A x \in Dep \ {d} : dep'[x] = dep[x]
  BY DEF TypeOK
<1>2. ASSUME NEW x \in Dep
      PROVE  /\ dep'[x].state = "absent" => dep'[x] = NoObj
             /\ \A c \in Copies(x)' : c.state = "live" /\ c.fin => dep'[x].fin
  <2>1. CASE x = d
    <3>1. \A c \in Copies(d) : c.state = "live" /\ c.fin => dep[d].fin
      BY DEF FinInv
    <3> QED
      BY <1>1, <2>1, <3>1
  <2>2. CASE x # d
    BY <1>1, <2>2 DEF FinInv
  <2> QED
    BY <2>1, <2>2
<1> QED
  BY <1>2 DEF FinInv

(* Deliveries. *)
LEMMA DeliverDepProtect ==
    ASSUME TypeOK, ProtectInv, DeliverDep
    PROVE  ProtectInv'
<1> DEFINE e == Head(depEvents)
<1>1. /\ depEvents \in Seq(Event(Dep, DepObj)) /\ depEvents # << >>
      /\ depEvents' = Tail(depEvents)
      /\ depCache' = [depCache EXCEPT ![e.name] = e.value]
      /\ UNCHANGED <<dep, op, kept, refs, refsCache, refsEvents>>
  BY DEF DeliverDep, TypeOK, refsVars
<1>2. ASSUME NEW x \in Dep
      PROVE  /\ \A i \in Pending(depEvents, x)' :
                   i \in Nat /\ i + 1 \in Pending(depEvents, x)
                   /\ depEvents'[i] = depEvents[i + 1]
             /\ \A i \in Pending(depEvents, x) \ {1} :
                   i \in Nat /\ i - 1 \in Pending(depEvents, x)'
             /\ e = depEvents[1] /\ e \in Event(Dep, DepObj)
             /\ e.name = x <=> 1 \in Pending(depEvents, x)
  <2>1. Pending(depEvents, x)' = Pending(depEvents', x)
    BY DEF Pending
  <2>2. IsTail(depEvents', depEvents) /\ e = depEvents[1] /\ e \in Event(Dep, DepObj)
    BY <1>1, TailIsTail
  <2> QED
    BY <2>1, <2>2, TailPending
<1> HIDE DEF e
<1>3. ASSUME NEW x \in Dep
      PROVE  depCache'[x] = IF e.name = x THEN depEvents[1].value ELSE depCache[x]
  BY <1>1, <1>2 DEF TypeOK
<1>4. SyncInv'
  <2>1. ASSUME NEW x \in Dep, Pending(depEvents, x)' = {}
        PROVE  depCache'[x] = dep[x]
    <3>1. Pending(depEvents, x) \subseteq {1}
      BY <1>2, <2>1
    <3>2. CASE e.name = x
      <4>1. Pending(depEvents, x) = {1}
        BY <1>2, <3>1, <3>2
      <4>2. depEvents[1].value = dep[x]
        BY <4>1 DEF ProtectInv, SyncInv
      <4> QED
        BY <1>3, <3>2, <4>2
    <3>3. CASE e.name # x
      <4>1. Pending(depEvents, x) = {}
        BY <1>2, <3>1, <3>3
      <4> QED
        BY <1>3, <3>3, <4>1 DEF ProtectInv, SyncInv
    <3> QED
      BY <3>2, <3>3
  <2>2. ASSUME NEW x \in Dep, NEW i \in Pending(depEvents, x)',
               \A j \in Pending(depEvents, x)' : j <= i
        PROVE  depEvents'[i].value = dep[x]
    <3>1. \A j \in Pending(depEvents, x) : j <= i + 1
      BY <1>2, <2>2
    <3> QED
      BY <1>2, <3>1 DEF ProtectInv, SyncInv
  <2> QED
    BY <1>1, <2>1, <2>2 DEF SyncInv
<1>5. ASSUME NEW x \in Dep PROVE Copies(x)' \subseteq Copies(x)
  <2>1. depCache'[x] \in Copies(x)
    BY <1>2, <1>3 DEF Copies
  <2>2. \A i \in Pending(depEvents, x)' : depEvents'[i].value \in Copies(x)
    BY <1>2 DEF Copies
  <2> QED
    BY <1>1, <2>1, <2>2 DEF Copies
<1>6. FreshInv'
  <2>1. ASSUME NEW x \in Dep, Pending(depEvents, x) = {}
        PROVE  Pending(depEvents, x)' = {}
    BY <1>2, <2>1
  <2> QED
    BY <1>1, <2>1 DEF ProtectInv, FreshInv, TypeOK, Pending
<1>7. FinInv'
  BY <1>1, <1>5 DEF ProtectInv, FinInv
<1>8. UpdateInv' /\ PatchInv' /\ KeptInv' /\ HeldWhileInUse' /\ ReportedIsProtected'
  BY <1>1 DEF ProtectInv, UpdateInv, PatchInv, KeptInv, Known, HeldWhileInUse,
              ReportedIsProtected, Pending
<1> QED
  BY <1>4, <1>6, <1>7, <1>8 DEF ProtectInv

(* Steps that leave the objects, their copies and the reconcile alone. *)
LEMMA DepKept ==
    ASSUME ProtectInv, UNCHANGED <<dep, depCache, depEvents, op>>, KeptInv',
           \A d \in Dep : kept'[d] \subseteq kept[d], TypeOK
    PROVE  ProtectInv'
<1>1. \A d \in Dep : Pending(depEvents, d)' = Pending(depEvents, d)
                      /\ Copies(d)' = Copies(d)
  BY DEF Pending, Copies
<1>4. SyncInv' /\ FinInv'
  BY <1>1 DEF ProtectInv, SyncInv, FinInv
<1>5. FreshInv' /\ PatchInv' /\ ReportedIsProtected'
  BY <1>1 DEF ProtectInv, FreshInv, PatchInv, ReportedIsProtected, TypeOK
<1>2. UpdateInv'
  BY DEF ProtectInv, UpdateInv, TypeOK
<1>3. HeldWhileInUse'
  BY DEF ProtectInv, HeldWhileInUse
<1> QED
  BY <1>2, <1>3, <1>4, <1>5 DEF ProtectInv

LEMMA RefsProtect ==
    ASSUME TypeOK, ProtectInv,
           DeliverRefs \/ DeliverSecret \/ (\E a \in Agent : SetRefs(a))
              \/ (\E s \in Secret : SetSecret(s))
    PROVE  ProtectInv'
<1>1. CASE DeliverRefs
  <2>1. /\ refsEvents \in Seq(Event(Agent, SUBSET Dep)) /\ refsEvents # << >>
        /\ refsEvents' = Tail(refsEvents)
        /\ refsCache' = [refsCache EXCEPT ![Head(refsEvents).name] = Head(refsEvents).value]
        /\ UNCHANGED <<dep, depCache, depEvents, op, kept, refs>>
    BY <1>1 DEF DeliverRefs, TypeOK, depVars
  <2>2. ASSUME NEW d \in Dep, NEW a \in Agent, Known(a, d) PROVE Known(a, d)'
    <3>1. /\ \A i \in Pending(refsEvents', a) :
                i + 1 \in Pending(refsEvents, a) /\ refsEvents'[i] = refsEvents[i + 1]
          /\ Head(refsEvents) = refsEvents[1]
          /\ refsEvents[1].name = a => 1 \in Pending(refsEvents, a)
      <4>1. IsTail(refsEvents', refsEvents) /\ Head(refsEvents) = refsEvents[1]
        BY <2>1, TailIsTail
      <4> QED
        BY <4>1, TailPending
    <3>2. refsCache'[a] = IF Head(refsEvents).name = a THEN Head(refsEvents).value
                                                       ELSE refsCache[a]
      BY <2>1 DEF TypeOK
    <3>3. d \in refsCache'[a]
      BY <2>2, <3>1, <3>2 DEF Known
    <3>4. \A i \in Pending(refsEvents', a) : d \in refsEvents'[i].value
      BY <2>2, <3>1 DEF Known
    <3> QED
      BY <2>1, <2>2, <3>3, <3>4 DEF Known
  <2>3. KeptInv'
    BY <2>1, <2>2 DEF ProtectInv, KeptInv, TypeOK
  <2> QED
    BY <2>1, <2>3, DepKept
<1>2. CASE DeliverSecret \/ \E s \in Secret : SetSecret(s)
  <2>1. UNCHANGED <<dep, depCache, depEvents, op, kept, refs, refsCache, refsEvents>>
    BY <1>2 DEF DeliverSecret, SetSecret, depVars, refsVars
  <2>2. KeptInv'
    BY <2>1 DEF ProtectInv, KeptInv, Known, Pending
  <2> QED
    BY <2>1, <2>2, DepKept
<1>3. ASSUME NEW a \in Agent, SetRefs(a) PROVE ProtectInv'
  <2>1. PICK S \in SUBSET Dep :
           /\ refs' = [refs EXCEPT ![a] = S]
           /\ refsEvents' = Append(refsEvents, [name |-> a, value |-> S])
           /\ kept' = [d \in Dep |-> IF d \in S THEN kept[d] ELSE kept[d] \ {a}]
    BY <1>3 DEF SetRefs
  <2>2. UNCHANGED <<dep, depCache, depEvents, op, refsCache>>
    BY <1>3 DEF SetRefs, depVars
  <2> DEFINE e == [name |-> a, value |-> S]
  <2>3. refsEvents \in Seq(Event(Agent, SUBSET Dep)) /\ e \in Event(Agent, SUBSET Dep)
    BY DEF TypeOK, Event
  <2>4. ASSUME NEW d \in Dep, NEW b \in kept'[d] PROVE Known(b, d)'
    <3>1. b \in Agent /\ Known(b, d) /\ (b = a => d \in S)
      BY <2>1, <2>4 DEF ProtectInv, KeptInv, TypeOK
    <3>2. /\ Pending(refsEvents', b) =
                Pending(refsEvents, b) \cup
                   (IF e.name = b THEN {Len(refsEvents) + 1} ELSE {})
          /\ refsEvents'[Len(refsEvents) + 1] = e
          /\ \A i \in Pending(refsEvents, b) : refsEvents'[i] = refsEvents[i]
      <4>1. IsAppend(refsEvents', refsEvents, e)
        BY <2>1, <2>3, AppendIsAppend
      <4> HIDE DEF e
      <4> QED
        BY <4>1, AppendPending DEF IsAppend
    <3>3. \A i \in Pending(refsEvents', b) : d \in refsEvents'[i].value
      BY <3>1, <3>2 DEF Known
    <3>4. d \in refs'[b] \cap refsCache'[b]
      BY <2>1, <2>2, <3>1 DEF Known, TypeOK
    <3> QED
      BY <3>3, <3>4 DEF Known
  <2>5. KeptInv'
    BY <2>4 DEF KeptInv
  <2>6. \A d \in Dep : kept'[d] \subseteq kept[d]
    BY <2>1
  <2> QED
    BY <2>2, <2>5, <2>6, DepKept
<1> QED
  BY <1>1, <1>2, <1>3

(* A user's write of an object. *)
LEMMA UserWrite ==
    ASSUME TypeOK, ProtectInv, NEW d \in Dep, NEW obj \in DepObj, WriteDep(d, obj),
           UNCHANGED depCache, Overtake(d), KeptInv',
           \A x \in Dep \ {d} : kept'[x] = kept[x],
           kept'[d] # {} => obj.state = "deleting",
           obj.state = "absent" => obj = NoObj,
           obj.fin \/ ~ dep[d].fin,
           obj.phase # "" => obj.fin
    PROVE  ProtectInv'
<1>1. /\ dep' = [dep EXCEPT ![d] = obj]
      /\ SyncInv'
      /\ \A x \in Dep : Copies(x)' \subseteq
                           Copies(x) \cup (IF x = d THEN {obj} ELSE {})
      /\ \A x \in Dep \ {d} : Pending(depEvents, x)' = Pending(depEvents, x)
  BY WriteEffect DEF ProtectInv
<1>2. dep'[d] = obj /\ \A x \in Dep \ {d} : dep'[x] = dep[x]
  BY <1>1 DEF TypeOK
<1>3. FinInv'
  BY <1>1, FinKept DEF ProtectInv
<1>4. HeldWhileInUse' /\ ReportedIsProtected'
  BY <1>2 DEF ProtectInv, HeldWhileInUse, ReportedIsProtected
<1>5. FreshInv' /\ UpdateInv' /\ PatchInv'
  <2>1. CASE op.pc = "idle"
    <3>1. op'.pc = "idle"
      BY <2>1 DEF Overtake, TypeOK, Reconcile
    <3> QED
      BY <3>1 DEF FreshInv, UpdateInv, PatchInv
  <2>2. CASE op.pc # "idle" /\ op.dep = d
    <3>1. /\ op'.pc = op.pc /\ op'.dep = d /\ op'.base = op.base /\ op'.mem = op.mem
          /\ op'.fresh = FALSE
      BY <2>2 DEF Overtake, TypeOK, Reconcile
    <3>2. UpdateInv /\ PatchInv
      BY DEF ProtectInv
    <3>3. FreshInv'
      BY <3>1 DEF FreshInv
    <3>4. UpdateInv'
      BY <3>1, <3>2 DEF UpdateInv
    <3>5. PatchInv'
      BY <1>2, <2>2, <3>1, <3>2 DEF PatchInv
    <3> QED
      BY <3>3, <3>4, <3>5
  <2>3. CASE op.pc # "idle" /\ op.dep # d
    <3>1. op' = op /\ op.dep \in Dep \ {d}
      BY <2>3 DEF Overtake, TypeOK
    <3>2. /\ dep'[op.dep] = dep[op.dep] /\ kept'[op.dep] = kept[op.dep]
          /\ Pending(depEvents', op.dep) = Pending(depEvents, op.dep)
      <4>1. Pending(depEvents, op.dep)' = Pending(depEvents', op.dep)
        BY <3>1 DEF Pending
      <4>2. ASSUME NEW x \in Dep \ {d}
            PROVE  Pending(depEvents', x) = Pending(depEvents, x)
        BY <1>1 DEF Pending
      <4> QED
        BY <1>2, <3>1, <4>2
    <3>3. UpdateInv /\ PatchInv /\ FreshInv
      BY DEF ProtectInv
    <3>4. FreshInv'
      BY <3>1, <3>2, <3>3 DEF FreshInv, Pending
    <3>5. UpdateInv' /\ PatchInv'
      BY <3>1, <3>2, <3>3 DEF UpdateInv, PatchInv
    <3> QED
      BY <3>4, <3>5
  <2> QED
    BY <2>1, <2>2, <2>3
<1> QED
  BY <1>1, <1>3, <1>4, <1>5 DEF ProtectInv

LEMMA UserProtect ==
    ASSUME TypeOK, ProtectInv, NEW d \in Dep, CreateDep(d) \/ EditDep(d) \/ DeleteDep(d)
    PROVE  ProtectInv'
<1>1. dep[d] \in DepObj
  BY DEF TypeOK
<1>2. /\ dep[d].phase # "" => dep[d].fin
      /\ dep[d].state = "absent" => dep[d] = NoObj
      /\ kept[d] # {} => dep[d].state = "deleting"
  BY DEF ProtectInv, ReportedIsProtected, FinInv, HeldWhileInUse
<1>3. NoObj.phase = "" /\ NoObj.fin = FALSE /\ NoObj.state = "absent"
  BY DEF NoObj
<1>4. CASE CreateDep(d)
  <2>1. PICK s \in SpecOf(d) : WriteDep(d, [NoObj EXCEPT !.state = "live", !.spec = s])
    BY <1>4 DEF CreateDep
  <2> DEFINE obj == [NoObj EXCEPT !.state = "live", !.spec = s]
  <2>2. obj \in DepObj /\ obj.state = "live" /\ obj.phase = "" /\ obj.fin = FALSE
    BY <1>3, UserObjects, NoObjType DEF DepObj
  <2>3. UNCHANGED <<depCache, kept, refs, refsCache, refsEvents>> /\ Overtake(d)
        /\ dep[d].state = "absent"
    BY <1>4 DEF CreateDep, refsVars
  <2>4. KeptInv'
    BY <2>3 DEF ProtectInv, KeptInv, Known, Pending
  <2> HIDE DEF obj
  <2> QED
    BY <1>2, <1>3, <2>1, <2>2, <2>3, <2>4, UserWrite DEF obj
<1>5. CASE EditDep(d)
  <2>1. PICK s \in SpecOf(d) : WriteDep(d, [dep[d] EXCEPT !.spec = s])
    BY <1>5 DEF EditDep
  <2> DEFINE obj == [dep[d] EXCEPT !.spec = s]
  <2>2. /\ obj \in DepObj /\ obj.state = dep[d].state /\ obj.phase = dep[d].phase
        /\ obj.fin = dep[d].fin
    BY <1>1, UserObjects DEF DepObj
  <2>3. UNCHANGED <<depCache, kept, refs, refsCache, refsEvents>> /\ Overtake(d)
        /\ dep[d].state # "absent"
    BY <1>5 DEF EditDep, refsVars
  <2>4. KeptInv'
    BY <2>3 DEF ProtectInv, KeptInv, Known, Pending
  <2> HIDE DEF obj
  <2> QED
    BY <1>1, <1>2, <2>1, <2>2, <2>3, <2>4, UserWrite DEF obj, DepObj
<1>6. CASE DeleteDep(d)
  <2> DEFINE obj == IF dep[d].fin THEN [dep[d] EXCEPT !.state = "deleting"] ELSE NoObj
  <2>1. /\ WriteDep(d, obj) /\ UNCHANGED <<depCache, refs, refsCache, refsEvents>>
        /\ Overtake(d)
        /\ kept' = [kept EXCEPT ![d] =
                      IF dep[d].fin THEN {a \in Agent : Known(a, d)} ELSE {}]
    BY <1>6 DEF DeleteDep, refsVars
  <2>2. /\ obj \in DepObj
        /\ dep[d].fin => obj.state = "deleting" /\ obj.fin
        /\ ~ dep[d].fin => obj = NoObj
    BY <1>1, UserObjects, NoObjType DEF DepObj
  <2>3. /\ \A x \in Dep \ {d} : kept'[x] = kept[x]
        /\ kept'[d] = IF dep[d].fin THEN {a \in Agent : Known(a, d)} ELSE {}
    BY <2>1 DEF TypeOK
  <2>4. \A x \in Dep : \A a \in kept'[x] : Known(a, x)
    BY <2>3 DEF ProtectInv, KeptInv
  <2>5. KeptInv'
    BY <2>1, <2>4 DEF KeptInv, Known, Pending
  <2> HIDE DEF obj
  <2> QED
    BY <1>3, <2>1, <2>2, <2>3, <2>5, UserWrite
<1> QED
  BY <1>4, <1>5, <1>6

(* The reconcile reads its caches. *)
LEMMA StartProtect ==
    ASSUME TypeOK, ProtectInv, NEW d \in Dep, NEW pc \in {"update", "patch"},
           NEW mem \in DepObj, Start(d, pc, mem),
           pc = "update" =>
              \/ /\ depCache[d].state = "live"
                 /\ mem = [depCache[d] EXCEPT !.fin = TRUE]
              \/ /\ depCache[d].state = "deleting"
                 /\ mem = [depCache[d] EXCEPT !.fin = FALSE]
                 /\ BoundAgents(d) = {},
           pc = "patch" =>
              \/ depCache[d].state = "live" /\ depCache[d].fin
              \/ depCache[d].state = "deleting" /\ mem.phase = depCache[d].phase
    PROVE  ProtectInv'
<1>1. /\ op' = [pc |-> pc, dep |-> d, base |-> depCache[d], mem |-> mem,
                fresh |-> Pending(depEvents, d) = {}]
      /\ UNCHANGED <<dep, depCache, depEvents, refs, refsCache, refsEvents, kept>>
  BY DEF Start, depVars, refsVars
<1>2. \A x \in Dep : Pending(depEvents, x)' = Pending(depEvents, x)
                      /\ Copies(x)' = Copies(x)
  BY <1>1 DEF Pending, Copies
<1>3. SyncInv' /\ FinInv'
  BY <1>1, <1>2 DEF ProtectInv, SyncInv, FinInv
<1>4. KeptInv' /\ HeldWhileInUse' /\ ReportedIsProtected'
  BY <1>1 DEF ProtectInv, KeptInv, HeldWhileInUse, ReportedIsProtected, Known, Pending
<1>5. op'.fresh => Pending(depEvents, d) = {} /\ depCache[d] = dep[d]
  BY <1>1 DEF ProtectInv, SyncInv
<1>6. FreshInv'
  BY <1>1, <1>5 DEF FreshInv, Pending
<1>7. BoundAgents(d) = {} => kept[d] = {}
  BY DEF ProtectInv, KeptInv, Known, BoundAgents, TypeOK
<1>8. UpdateInv'
  BY <1>1, <1>7 DEF UpdateInv
<1>9. depCache[d].state = "live" /\ depCache[d].fin => dep[d].fin
  BY DEF ProtectInv, FinInv, Copies
<1>10. PatchInv'
  BY <1>1, <1>9 DEF PatchInv
<1> QED
  BY <1>3, <1>4, <1>6, <1>8, <1>10 DEF ProtectInv

(* The reconcile ends. *)
LEMMA IdleProtect ==
    ASSUME TypeOK, SyncInv', FinInv', KeptInv', HeldWhileInUse', ReportedIsProtected',
           op'.pc = "idle"
    PROVE  ProtectInv'
BY DEF ProtectInv, FreshInv, UpdateInv, PatchInv

LEMMA ReconcileProtect ==
    ASSUME TypeOK, ProtectInv, NEW d \in Dep, ReconcileDep(d)
    PROVE  ProtectInv'
<1>1. depCache[d] \in DepObj
  BY DEF TypeOK
<1>2. CASE ReconcileAbsent(d)
  <2>1. UNCHANGED <<dep, depCache, depEvents, op, kept, refs, refsCache, refsEvents>>
    BY <1>2 DEF ReconcileAbsent, depVars, refsVars
  <2>2. KeptInv'
    BY <2>1 DEF ProtectInv, KeptInv, Known, Pending
  <2> QED
    BY <2>1, <2>2, DepKept
<1>3. CASE AddFinalizer(d) \/ RemoveFinalizer(d)
  <2>1. \A f \in BOOLEAN : [depCache[d] EXCEPT !.fin = f] \in DepObj
    BY <1>1 DEF DepObj
  <2> QED
    BY <1>3, <2>1, StartProtect DEF AddFinalizer, RemoveFinalizer
<1>4. CASE ReconcileLive(d)
  <2>1. ReconciledStatus(d, depCache[d]) \in DepObj
    BY <1>1, BoundType DEF ReconciledStatus, DepObj
  <2> QED
    BY <1>4, <2>1, StartProtect DEF ReconcileLive
<1>5. CASE DeletionBlocked(d)
  <2> DEFINE mem == [depCache[d] EXCEPT
                       !.bound = IF d \in Provider THEN Cardinality(BoundAgents(d)) ELSE @]
  <2>1. mem \in DepObj /\ mem.phase = depCache[d].phase
    BY <1>1, BoundType DEF DepObj
  <2>2. Start(d, "patch", mem) /\ depCache[d].state = "deleting"
    BY <1>5 DEF DeletionBlocked
  <2> HIDE DEF mem
  <2> QED
    BY <2>1, <2>2, StartProtect
<1> QED
  BY <1>2, <1>3, <1>4, <1>5 DEF ReconcileDep

LEMMA FinishProtect ==
    ASSUME TypeOK, ProtectInv, UpdateDep \/ PatchDep \/ WriteFails \/ OperatorRestarts
    PROVE  ProtectInv'
<1>1. op.pc # "idle" => op.dep \in Dep /\ op.base \in DepObj /\ op.mem \in DepObj
                        /\ dep[op.dep] \in DepObj
  BY DEF TypeOK, Reconcile
<1>2. NoObj.phase = "" /\ NoObj.fin = FALSE /\ NoObj.state = "absent"
  BY DEF NoObj
<1>3. ASSUME op' = Idle, UNCHANGED <<dep, depCache, depEvents>>,
             UNCHANGED <<refs, refsCache, refsEvents, kept>>
      PROVE  ProtectInv'
  <2>1. \A x \in Dep : Pending(depEvents, x)' = Pending(depEvents, x)
                        /\ Copies(x)' = Copies(x)
    BY <1>3 DEF Pending, Copies
  <2>2. SyncInv' /\ FinInv'
    BY <1>3, <2>1 DEF ProtectInv, SyncInv, FinInv
  <2>3. KeptInv' /\ HeldWhileInUse' /\ ReportedIsProtected'
    BY <1>3 DEF ProtectInv, KeptInv, HeldWhileInUse, ReportedIsProtected, Known, Pending
  <2> QED
    BY <1>3, <2>2, <2>3, IdleType, IdleProtect
<1>4. ASSUME op.pc # "idle", NEW obj \in DepObj, WriteDep(op.dep, obj), op' = Idle,
             UNCHANGED <<depCache, refs, refsCache, refsEvents, kept>>,
             FinInv', obj.phase # "" => obj.fin,
             kept[op.dep] # {} => obj.state = "deleting"
      PROVE  ProtectInv'
  <2>1. SyncInv' /\ dep' = [dep EXCEPT ![op.dep] = obj]
    BY <1>1, <1>4, WriteEffect DEF ProtectInv
  <2>2. KeptInv'
    BY <1>4 DEF ProtectInv, KeptInv, Known, Pending
  <2>3. HeldWhileInUse' /\ ReportedIsProtected'
    BY <1>1, <1>4, <2>1 DEF ProtectInv, HeldWhileInUse, ReportedIsProtected, TypeOK
  <2> QED
    BY <1>4, <2>1, <2>2, <2>3, IdleType, IdleProtect
<1>5. CASE UpdateDep
  <2> DEFINE d == op.dep
  <2>1. /\ op.pc = "update" /\ op' = Idle
        /\ UNCHANGED <<depCache, refs, refsCache, refsEvents, kept>>
    BY <1>5 DEF UpdateDep, refsVars
  <2>2. CASE ~ op.fresh
    BY <1>3, <1>5, <2>1, <2>2 DEF UpdateDep
  <2>3. CASE op.fresh
    <3> DEFINE obj == IF op.mem.state = "deleting" THEN NoObj ELSE op.mem
    <3>1. WriteDep(d, obj) /\ obj \in DepObj
      BY <1>1, <1>5, <2>1, <2>3, NoObjType DEF UpdateDep
    <3>2. /\ Pending(depEvents, d) = {} /\ dep[d] = op.base /\ depCache[d] = op.base
      BY <1>1, <2>1, <2>3 DEF ProtectInv, FreshInv, SyncInv
    <3>3. Copies(d) = {op.base}
      BY <3>2 DEF Copies
    <3>4. /\ dep' = [dep EXCEPT ![d] = obj]
          /\ \A x \in Dep : Copies(x)' \subseteq
                               Copies(x) \cup (IF x = d THEN {obj} ELSE {})
      BY <1>1, <2>1, <3>1, WriteEffect DEF ProtectInv
    <3>5. CASE op.base.state = "live" /\ op.mem = [op.base EXCEPT !.fin = TRUE]
      <4>1. obj = op.mem /\ obj.fin /\ obj.state = "live"
        BY <1>1, <2>1, <3>5 DEF DepObj
      <4>2. kept[d] = {}
        BY <1>1, <2>1, <3>2, <3>5 DEF ProtectInv, HeldWhileInUse
      <4>3. FinInv'
        BY <1>1, <2>1, <3>1, <3>4, <4>1, FinKept DEF ProtectInv
      <4> HIDE DEF obj
      <4> QED
        BY <1>4, <2>1, <3>1, <4>1, <4>2, <4>3
    <3>6. CASE /\ op.base.state = "deleting"
               /\ op.mem = [op.base EXCEPT !.fin = FALSE]
               /\ kept[d] = {}
      <4>1. obj = NoObj
        BY <1>1, <2>1, <3>6 DEF DepObj
      <4>2. ASSUME NEW x \in Dep
            PROVE  /\ dep'[x].state = "absent" => dep'[x] = NoObj
                   /\ \A c \in Copies(x)' : c.state = "live" /\ c.fin => dep'[x].fin
        <5>1. CASE x = d
          BY <1>2, <3>3, <3>4, <3>6, <4>1, <5>1 DEF TypeOK
        <5>2. CASE x # d
          <6>1. dep'[x] = dep[x] /\ Copies(x)' \subseteq Copies(x)
            BY <3>4, <5>2 DEF TypeOK
          <6> QED
            BY <6>1 DEF ProtectInv, FinInv
        <5> QED
          BY <5>1, <5>2
      <4>3. FinInv'
        BY <4>2 DEF FinInv
      <4> HIDE DEF obj
      <4> QED
        BY <1>2, <1>4, <2>1, <3>1, <3>6, <4>1, <4>3
    <3> QED
      BY <2>1, <2>3, <3>5, <3>6 DEF ProtectInv, UpdateInv
  <2> QED
    BY <2>2, <2>3
<1>6. CASE PatchDep
  <2> DEFINE d == op.dep
             obj == MergeFrom(dep[d], op.base, op.mem)
  <2>1. /\ op.pc = "patch" /\ op' = Idle
        /\ UNCHANGED <<depCache, refs, refsCache, refsEvents, kept>>
    BY <1>6 DEF PatchDep, refsVars
  <2>2. CASE dep[d].state = "absent"
    BY <1>3, <1>6, <2>1, <2>2 DEF PatchDep
  <2>3. CASE dep[d].state # "absent"
    <3>1. WriteDep(d, obj)
      BY <1>6, <2>3 DEF PatchDep
    <3>2. /\ obj \in DepObj /\ obj.state = dep[d].state /\ obj.fin = dep[d].fin
          /\ obj.phase # dep[d].phase => op.mem.phase # op.base.phase
      BY <1>1, <2>1, MergeType DEF MergeFrom, DepObj
    <3> HIDE DEF obj
    <3>3. obj.phase # "" => obj.fin
      BY <1>1, <2>1, <3>2 DEF ProtectInv, PatchInv, ReportedIsProtected
    <3>4. /\ dep' = [dep EXCEPT ![d] = obj]
          /\ \A x \in Dep : Copies(x)' \subseteq
                               Copies(x) \cup (IF x = d THEN {obj} ELSE {})
      BY <1>1, <2>1, <3>1, <3>2, WriteEffect DEF ProtectInv
    <3>5. obj.fin \/ ~ dep[d].fin
      BY <1>1, <2>1, <3>2 DEF DepObj
    <3>6. FinInv'
      BY <1>1, <2>1, <2>3, <3>2, <3>4, <3>5, FinKept DEF ProtectInv
    <3>7. kept[d] # {} => obj.state = "deleting"
      BY <1>1, <2>1, <3>2 DEF ProtectInv, HeldWhileInUse
    <3> QED
      BY <1>4, <2>1, <3>1, <3>2, <3>3, <3>6, <3>7
  <2> QED
    BY <2>2, <2>3
<1>7. CASE WriteFails
  BY <1>3, <1>7 DEF WriteFails, depVars, refsVars
<1>8. CASE OperatorRestarts
  <2>1. /\ depCache' = dep /\ depEvents' = << >> /\ refsCache' = refs
        /\ refsEvents' = << >> /\ op' = Idle /\ UNCHANGED <<dep, refs, kept>>
    BY <1>8 DEF OperatorRestarts
  <2>2. /\ \A x : Pending(depEvents', x) = {} /\ Pending(refsEvents', x) = {}
        /\ \A x \in Dep : Copies(x)' = {dep[x]}
    BY <2>1 DEF Pending, Copies
  <2>3. SyncInv' /\ FinInv'
    <3>1. \A x \in Dep : dep[x] \in Copies(x) /\ Pending(depEvents, x)' = {}
      BY <2>1 DEF Copies, Pending
    <3> QED
      BY <2>1, <2>2, <3>1 DEF ProtectInv, SyncInv, FinInv
  <2>4. KeptInv'
    <3>1. ASSUME NEW x \in Dep, NEW a \in kept[x] PROVE Known(a, x)'
      <4>1. x \in refs[a]
        BY <3>1 DEF ProtectInv, KeptInv, Known
      <4>2. Pending(refsEvents, a)' = {}
        BY <2>1 DEF Pending
      <4> QED
        BY <2>1, <4>1, <4>2 DEF Known
    <3> QED
      BY <2>1, <3>1 DEF KeptInv
  <2>5. HeldWhileInUse' /\ ReportedIsProtected'
    BY <2>1 DEF ProtectInv, HeldWhileInUse, ReportedIsProtected
  <2> QED
    BY <2>1, <2>3, <2>4, <2>5, IdleType, IdleProtect
<1> QED
  BY <1>5, <1>6, <1>7, <1>8

(* The inductive invariant: how the copies of an object, the Agents that   *)
(* hold it and the reconcile in flight relate to what is stored.           *)
THEOREM ProtectInvariant == Spec => []ProtectInv
<1>1. ASSUME TypeOK, ProtectInv, [Next]_vars PROVE ProtectInv'
  <2>1. CASE UNCHANGED vars
    <3>1. UNCHANGED <<dep, depCache, depEvents, op, kept, refs, refsCache, refsEvents>>
      BY <2>1 DEF vars
    <3>2. KeptInv'
      BY <1>1, <3>1 DEF ProtectInv, KeptInv, Known, Pending
    <3> QED
      BY <1>1, <3>1, <3>2, DepKept
  <2>2. CASE UserStep
    BY <1>1, <2>2, UserProtect, RefsProtect DEF UserStep
  <2>3. CASE DeliverDep \/ DeliverRefs \/ DeliverSecret
    BY <1>1, <2>3, DeliverDepProtect, RefsProtect
  <2>4. CASE \E d \in Dep : ReconcileDep(d)
    BY <1>1, <2>4, ReconcileProtect
  <2>5. CASE UpdateDep \/ PatchDep \/ WriteFails \/ OperatorRestarts
    BY <1>1, <2>5, FinishProtect
  <2> QED
    BY <1>1, <2>1, <2>2, <2>3, <2>4, <2>5 DEF Next
<1> QED
  BY <1>1, ProtectInit, DepTypeCorrect, PTL DEF Spec

(* However stale the caches, no Provider or Integration is removed while   *)
(* an Agent refers to it that was known to when its deletion was asked for *)
(* (reconcileDelete).                                                      *)
THEOREM NeverRemovedInUse == Spec => []HeldWhileInUse
<1>1. ProtectInv => HeldWhileInUse
  BY DEF ProtectInv
<1> QED
  BY <1>1, ProtectInvariant, PTL

(* However stale the caches, an object whose status was written carries    *)
(* the finalizer, although the status patch has no resourceVersion and the *)
(* object may be one that was created anew under the same name.            *)
THEOREM AlwaysProtected == Spec => []ReportedIsProtected
<1>1. ProtectInv => ReportedIsProtected
  BY DEF ProtectInv
<1> QED
  BY <1>1, ProtectInvariant, PTL
=============================================================================
