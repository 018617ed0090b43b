-------------------------- MODULE WorkloadsProofs ---------------------------
(***************************************************************************)
(* Workloads, proved for all Agents and Channels, names and specs, any lag *)
(* and any number of edits, deletions, errors and restarts.                *)
(*                                                                         *)
(* A child that has an owner stays that owner's until a user deletes the   *)
(* child or the owner (ApplyChild).  So a reconcile that has come to its   *)
(* end has found or made all of its children, and whoever reads its phase  *)
(* later, from any copy, may rely on them.                                 *)
(***************************************************************************)
EXTENDS Workloads, SequenceTheorems, TLAPS

(* w has its child of kind k, or a user has taken it away. *)
Has(w, k) ==
    \/ obj[w].state = "deleted"
    \/ Key(w, k) \in undone
    \/ child[Key(w, k)].owner = w

(* All that w needs under any of its specs is there. *)
Stands(w) == \A k \in CoreOf(w) : Has(w, k)

(* A copy o of w, old or new, vouches for nothing that is not there. *)
Copy(w, o) ==
    /\ o \in Obj /\ o.spec \in Specs[w]
    /\ o.phase \in Reported => Stands(w)

ObjInv == obj \in [Workload -> Obj] /\ \A w \in Workload : Copy(w, obj[w])
CacheInv == cache \in [Workload -> Obj] /\ \A w \in Workload : Copy(w, cache[w])

Event == [w : Workload, obj : Obj]
WatchInv ==
    watch \in Seq(Event) /\ \A n \in 1..Len(watch) : Copy(watch[n].w, watch[n].obj)

(* A reconcile p works on copies of its object, and has applied what it    *)
(* has not still to do.                                                    *)
InFlight(c, p) ==
    /\ p.w \in Handles(c)
    /\ Copy(p.w, p.base) /\ Copy(p.w, p.mem)
    /\ p.pc = "rbac" => c = "agent" /\ \A k \in AgentRBAC(p.mem.spec) \ p.todo : Has(p.w, k)
    /\ p.pc = "apply" => \A k \in ChildrenOf(p.w, p.mem.spec) \ p.todo : Has(p.w, k)

OpInv ==
    /\ op \in [Controller -> Reconcile]
    /\ \A c \in Controller : op[c].pc # "idle" => InFlight(c, op[c])

ClusterOK ==
    /\ deps \in [Dep -> {"absent", "notReady", "ready"}]
    /\ child \in [ChildKey -> ChildObj]
    /\ pods \in [Name -> BOOLEAN]
    /\ dcache \in [Name -> Shown]
    /\ told \in [Name -> SUBSET Workload]
    /\ due \subseteq Workload
    /\ undone \subseteq ChildKey
    /\ trouble \in Nat

OwnInv == ObjInv /\ CacheInv /\ WatchInv /\ OpInv /\ ClusterOK

-----------------------------------------------------------------------------
(* Facts about constants.                                                  *)

LEMMA HandlesWorkload == \A c \in Controller : Handles(c) \subseteq Workload
  BY DEF Handles, Workload

LEMMA KeyFacts ==
    ASSUME NEW w \in Workload, NEW k \in Kind
    PROVE  /\ Key(w, k) \in ChildKey
           /\ Key(w, k)[1] = k
           /\ k = "Deployment" => Key(w, k)[2] = NameOf[w] /\ NameOf[w] \in Name
  BY WorkloadAssumption DEF Key, ChildKey, Shared, WorkloadAssumption

LEMMA KeyIsOf ==
    ASSUME NEW key \in ChildKey
    PROVE  \E w \in Workload, k \in Kind : key = Key(w, k)
  BY DEF ChildKey

LEMMA ChildrenAreKinds ==
    \A w, spec : /\ AgentRBAC(spec) \subseteq Kind
                 /\ AgentChildren(spec) \subseteq Kind
                 /\ ChannelChildren(spec) \subseteq Kind
                 /\ ChildrenOf(w, spec) \subseteq Kind
  BY DEF AgentRBAC, AgentChildren, ChannelChildren, ChildrenOf, Kind

LEMMA CoreFacts ==
    ASSUME NEW w \in Workload
    PROVE  CoreOf(w) \subseteq Kind /\ \A spec \in Specs[w] : CoreOf(w) \subseteq ChildrenOf(w, spec)
  BY DEF CoreOf

LEMMA IdleType == Idle \in Reconcile /\ Idle.pc = "idle"
  BY DEF Idle, Reconcile

LEMMA InvType == OwnInv => TypeOK
  BY HandlesWorkload DEF OwnInv, ObjInv, CacheInv, WatchInv, OpInv, ClusterOK, TypeOK, Copy, InFlight, Event

LEMMA InvOwns == OwnInv => ReportedOwnsChildren
  BY DEF OwnInv, ObjInv, Copy, Stands, Has, ReportedOwnsChildren

LEMMA OwnInit == Init => OwnInv
  <1> SUFFICES ASSUME Init PROVE OwnInv
    OBVIOUS
  <1>1. PICK cast \in Casts :
          /\ obj = [w \in Workload |->
                      [state |-> IF w \in cast.who THEN "absent" ELSE "deleted",
                       spec |-> InitSpec[w], phase |-> "", replicas |-> FALSE,
                       conds |-> NoConditions]]
          /\ deps = cast.deps
          /\ trouble = cast.trouble
    BY DEF Init
  <1>2. \A w \in Workload : InitSpec[w] \in Specs[w] /\ InitSpec[w] \in AnySpec
    BY WorkloadAssumption DEF WorkloadAssumption
  <1>3. NoConditions \in Conditions
    BY DEF NoConditions, Conditions, Condition
  <1>4. \A w \in Workload : obj[w] \in Obj /\ obj[w].spec \in Specs[w] /\ obj[w].phase = ""
    BY <1>1, <1>2, <1>3 DEF Obj, Phase
  <1>5. ObjInv
    BY <1>1, <1>4 DEF ObjInv, Copy, Reported
  <1>6. CacheInv
    BY <1>5 DEF Init, ObjInv, CacheInv
  <1>7. WatchInv
    <2>1. watch = << >> /\ << >> \in Seq(Event) /\ Len(watch) = 0
      BY EmptySeq DEF Init
    <2> QED  BY <2>1 DEF WatchInv
  <1>8. OpInv
    BY IdleType DEF Init, OpInv
  <1>9. ClusterOK
    <2>1. deps \in [Dep -> {"absent", "notReady", "ready"}] /\ trouble \in Nat
      BY <1>1, WorkloadAssumption DEF WorkloadAssumption
    <2> QED  BY <2>1 DEF Init, ClusterOK, ChildObj, Shown
  <1> QED  BY <1>5, <1>6, <1>7, <1>8, <1>9 DEF OwnInv

-----------------------------------------------------------------------------
(* What stays.                                                             *)

(* Nobody loses a child but by a deletion. *)
Steady == \A w \in Workload : /\ Stands(w) => Stands(w)'
                             /\ \A k \in Kind : Has(w, k) => Has(w, k)'

LEMMA SteadyStep ==
    ASSUME \A w \in Workload : obj[w].state = "deleted" => obj'[w].state = "deleted",
           undone \subseteq undone',
           \A key \in ChildKey, w \in Workload :
              child[key].owner = w => \/ child'[key].owner = w \/ key \in undone'
                                      \/ obj'[w].state = "deleted"
    PROVE  Steady
  <1>1. \A w \in Workload, k \in Kind : Has(w, k) => Has(w, k)'
    BY KeyFacts DEF Has
  <1> QED  BY <1>1, CoreFacts DEF Steady, Stands

LEMMA SteadyObj ==
    ASSUME Steady, ObjInv, UNCHANGED obj
    PROVE  ObjInv'
  BY DEF Steady, ObjInv, Copy

LEMMA SteadyCache ==
    ASSUME Steady, CacheInv, UNCHANGED cache
    PROVE  CacheInv'
  BY DEF Steady, CacheInv, Copy

LEMMA SteadyWatch ==
    ASSUME Steady, WatchInv, UNCHANGED watch
    PROVE  WatchInv'
  <1>1. \A n \in 1..Len(watch) : watch[n].w \in Workload
    <2>1. \A n \in 1..Len(watch) : watch[n] \in Event
      BY DEF WatchInv
    <2> QED  BY <2>1 DEF Event
  <1> QED  BY <1>1 DEF Steady, WatchInv, Copy

LEMMA SteadyOp ==
    ASSUME Steady, OpInv, NEW c \in Controller, op'[c] = op[c], op[c].pc # "idle"
    PROVE  InFlight(c, op[c])'
  <1>1. op[c].w \in Workload
    BY HandlesWorkload DEF OpInv, InFlight
  <1>2. InFlight(c, op[c])
    BY DEF OpInv
  <1> QED  BY <1>1, <1>2, ChildrenAreKinds DEF Steady, InFlight, Copy

LEMMA SteadyOps ==
    ASSUME Steady, OpInv, UNCHANGED op
    PROVE  OpInv'
  BY SteadyOp DEF OpInv

-----------------------------------------------------------------------------
(* Writes of objects.                                                      *)

LEMMA WriteObjInv ==
    ASSUME OwnInv, NEW w \in Workload, NEW o, Copy(w, o), WriteObj(w, o),
           obj[w].state = "deleted" => o.state = "deleted",
           UNCHANGED <<child, undone>>
    PROVE  Steady /\ ObjInv' /\ WatchInv'
  <1>1. /\ obj' \in [Workload -> Obj] /\ obj'[w] = o
        /\ \A v \in Workload \ {w} : obj'[v] = obj[v]
    BY DEF OwnInv, ObjInv, WriteObj, Copy
  <1>2. Steady
    BY <1>1, SteadyStep
  <1>3. ObjInv'
    BY <1>1, <1>2 DEF OwnInv, ObjInv, Copy, Steady
  <1>4. WatchInv'
    <2>1. CASE UNCHANGED watch
      BY <1>2, <2>1, SteadyWatch DEF OwnInv
    <2>2. CASE watch' = Append(watch, [w |-> w, obj |-> o])
      <3> DEFINE e == [w |-> w, obj |-> o]
      <3>1. e \in Event /\ e.w = w /\ e.obj = o
        BY DEF Event, Copy
      <3> HIDE DEF e
      <3>2. watch \in Seq(Event) /\ watch' = Append(watch, e)
        BY <2>2 DEF OwnInv, WatchInv, e
      <3>3. /\ watch' \in Seq(Event) /\ Len(watch) \in Nat /\ Len(watch') = Len(watch) + 1
            /\ \A n \in 1..Len(watch) : watch'[n] = watch[n]
            /\ watch'[Len(watch) + 1] = e
        BY <3>1, <3>2
      <3>4. ASSUME NEW n \in 1..Len(watch')
            PROVE  Copy(watch[n].w, watch[n].obj)'
        <4>1. CASE n = Len(watch) + 1
          BY <1>2, <3>1, <3>3, <4>1 DEF Copy, Steady
        <4>2. CASE n \in 1..Len(watch)
          <5>1. Copy(watch[n].w, watch[n].obj)
            BY <4>2 DEF OwnInv, WatchInv
          <5>2. watch[n] \in Event
            BY <3>2, <4>2
          <5>3. watch[n].w \in Workload
            BY <5>2 DEF Event
          <5> QED  BY <1>2, <3>3, <4>2, <5>1, <5>3 DEF Copy, Steady
        <4> QED  BY <3>3, <4>1, <4>2
      <3> QED  BY <3>3, <3>4 DEF WatchInv
    <2> QED  BY <2>1, <2>2 DEF WriteObj
  <1> QED  BY <1>2, <1>3, <1>4

LEMMA UserWritesInv ==
    ASSUME OwnInv, NEW w \in Workload, CreateObj(w) \/ EditObj(w) \/ DeleteObj(w)
    PROVE  OwnInv'
  <1>1. UNCHANGED <<cache, deps, child, pods, dcache, told, due, op, undone>>
    BY DEF CreateObj, EditObj, DeleteObj
  <1>2. obj[w] \in Obj /\ Copy(w, obj[w])
    BY DEF OwnInv, ObjInv
  <1>3. PICK o : Copy(w, o) /\ WriteObj(w, o) /\ (obj[w].state = "deleted" => o.state = "deleted")
    <2>1. CASE CreateObj(w)
      <3>1. Copy(w, [obj[w] EXCEPT !.state = "live"])
        BY <1>2 DEF Copy, Obj
      <3> QED  BY <2>1, <3>1 DEF CreateObj
    <2>2. CASE EditObj(w)
      <3>1. PICK s \in Specs[w] : WriteObj(w, [obj[w] EXCEPT !.spec = s])
        BY <2>2 DEF EditObj
      <3>2. s \in AnySpec
        BY DEF AnySpec
      <3>3. Copy(w, [obj[w] EXCEPT !.spec = s])
        BY <1>2, <3>2 DEF Copy, Obj
      <3> QED  BY <2>2, <3>1, <3>3 DEF EditObj
    <2>3. CASE DeleteObj(w)
      <3>1. Copy(w, [obj[w] EXCEPT !.state = "deleted"])
        BY <1>2 DEF Copy, Obj
      <3> QED  BY <2>3, <3>1 DEF DeleteObj
    <2> QED  BY <2>1, <2>2, <2>3
  <1>4. Steady /\ ObjInv' /\ WatchInv'
    BY <1>1, <1>3, WriteObjInv
  <1>5. CacheInv' /\ OpInv'
    BY <1>1, <1>4, SteadyCache, SteadyOps DEF OwnInv
  <1>6. ClusterOK'
    BY <1>1 DEF OwnInv, ClusterOK, CreateObj, EditObj, DeleteObj, Trouble
  <1> QED  BY <1>4, <1>5, <1>6 DEF OwnInv

LEMMA DeliverObjInv ==
    ASSUME OwnInv, DeliverObj
    PROVE  OwnInv'
  <1>1. Steady /\ UNCHANGED <<obj, deps, child, pods, dcache, told, op, undone, trouble>>
    BY SteadyStep DEF DeliverObj
  <1>2. /\ watch \in Seq(Event) /\ watch # << >> /\ Len(watch) \in Nat /\ Len(watch) >= 1
        /\ watch' \in Seq(Event) /\ Len(watch') = Len(watch) - 1
        /\ \A n \in 1..Len(watch') : n + 1 \in 1..Len(watch) /\ watch'[n] = watch[n + 1]
        /\ Head(watch) = watch[1]
    <2>1. watch \in Seq(Event) /\ watch # << >> /\ watch' = Tail(watch)
      BY DEF OwnInv, WatchInv, DeliverObj
    <2> QED  BY <2>1
  <1>3. \A n \in 1..Len(watch) : watch[n] \in Event /\ Copy(watch[n].w, watch[n].obj)
    BY <1>2 DEF OwnInv, WatchInv
  <1>4. \A n \in 1..Len(watch) : watch[n].w \in Workload /\ watch[n].obj \in Obj
    BY <1>3 DEF Event
  <1>5. WatchInv'
    <2> SUFFICES ASSUME NEW n \in 1..Len(watch') PROVE Copy(watch[n].w, watch[n].obj)'
      BY <1>2 DEF WatchInv
    <2>1. n + 1 \in 1..Len(watch) /\ watch'[n] = watch[n + 1]
      BY <1>2
    <2> QED  BY <1>1, <1>3, <1>4, <2>1 DEF Copy, Steady
  <1>6. 1 \in 1..Len(watch) /\ cache' = [cache EXCEPT ![watch[1].w] = watch[1].obj]
           /\ due' = due \cup {watch[1].w}
    BY <1>2 DEF DeliverObj
  <1>7. CacheInv'
    <2>1. CacheInv /\ Copy(watch[1].w, watch[1].obj) /\ watch[1].w \in Workload /\ watch[1].obj \in Obj
      BY <1>3, <1>4, <1>6 DEF OwnInv
    <2>2. /\ cache' \in [Workload -> Obj]
          /\ \A v \in Workload : cache'[v] = cache[v] \/ (v = watch[1].w /\ cache'[v] = watch[1].obj)
      BY <1>6, <2>1 DEF CacheInv
    <2>3. \A v \in Workload : Copy(v, cache[v])'
      BY <1>1, <2>1, <2>2 DEF CacheInv, Copy, Steady
    <2> QED  BY <2>2, <2>3 DEF CacheInv
  <1>8. ObjInv' /\ OpInv'
    BY <1>1, SteadyObj, SteadyOps DEF OwnInv
  <1>9. ClusterOK'
    BY <1>1, <1>4, <1>6 DEF OwnInv, ClusterOK
  <1> QED  BY <1>5, <1>7, <1>8, <1>9 DEF OwnInv

-----------------------------------------------------------------------------
(* Writes of children.                                                     *)

LEMMA WriteChildType ==
    ASSUME ClusterOK, NEW key \in ChildKey, NEW o \in ChildObj, WriteChild(key, o)
    PROVE  /\ child' \in [ChildKey -> ChildObj] /\ child'[key] = o
           /\ \A j \in ChildKey \ {key} : child'[j] = child[j]
           /\ pods' \in [Name -> BOOLEAN]
           /\ told' \in [Name -> SUBSET Workload]
           /\ due' \subseteq Workload
  <1>1. /\ child' \in [ChildKey -> ChildObj] /\ child'[key] = o
        /\ \A j \in ChildKey \ {key} : child'[j] = child[j]
    BY DEF ClusterOK, WriteChild
  <1>2. \A x \in ChildObj : {x.owner} \ {None} \subseteq Workload
    BY DEF ChildObj, NoChild
  <1>3. child[key] \in ChildObj
    BY DEF ClusterOK
  <1>4. PICK owners \in SUBSET Workload :
          IF key[1] = "Deployment"
             THEN /\ told' = [told EXCEPT ![key[2]] = @ \cup owners]
                  /\ pods' = [pods EXCEPT ![key[2]] = @ /\ o # NoChild]
                  /\ due' = due
             ELSE /\ due' = due \cup owners
                  /\ UNCHANGED <<told, pods>>
    BY <1>2, <1>3 DEF WriteChild
  <1>5. CASE key[1] = "Deployment"
    <2>1. key[2] \in Name
      BY <1>5, KeyIsOf, KeyFacts
    <2>2. told' \in [Name -> SUBSET Workload]
      <3>1. told' = [told EXCEPT ![key[2]] = @ \cup owners]
        BY <1>4, <1>5
      <3> QED  BY <2>1, <3>1 DEF ClusterOK
    <2>3. pods' \in [Name -> BOOLEAN]
      <3>1. pods' = [pods EXCEPT ![key[2]] = @ /\ o # NoChild]
        BY <1>4, <1>5
      <3> QED  BY <2>1, <3>1 DEF ClusterOK
    <2>4. due' \subseteq Workload
      BY <1>4, <1>5 DEF ClusterOK
    <2> QED  BY <1>1, <2>2, <2>3, <2>4
  <1>6. CASE key[1] # "Deployment"
    BY <1>1, <1>4, <1>6 DEF ClusterOK
  <1> QED  BY <1>5, <1>6

LEMMA RemoveChildInv ==
    ASSUME OwnInv, NEW key \in ChildKey, CollectChild(key) \/ DeleteChild(key)
    PROVE  OwnInv'
  <1>1. NoChild \in ChildObj /\ NoChild.owner = None
    BY DEF NoChild, ChildObj
  <1>2. UNCHANGED <<obj, cache, watch, deps, dcache, op>> /\ WriteChild(key, NoChild)
    BY DEF CollectChild, DeleteChild
  <1>3. /\ child' \in [ChildKey -> ChildObj]
        /\ \A j \in ChildKey \ {key} : child'[j] = child[j]
        /\ pods' \in [Name -> BOOLEAN]
        /\ told' \in [Name -> SUBSET Workload]
        /\ due' \subseteq Workload
    BY <1>1, <1>2, WriteChildType DEF OwnInv
  <1>4. undone \subseteq undone' /\ undone' \subseteq ChildKey /\ trouble' \in Nat
    BY DEF CollectChild, DeleteChild, OwnInv, ClusterOK, Trouble
  <1>5. \A w \in Workload : child[key].owner = w => key \in undone' \/ obj'[w].state = "deleted"
    BY <1>2 DEF CollectChild, DeleteChild
  <1>6. Steady
    BY <1>2, <1>3, <1>4, <1>5, SteadyStep
  <1>7. ObjInv' /\ CacheInv' /\ WatchInv' /\ OpInv'
    BY <1>2, <1>6, SteadyObj, SteadyCache, SteadyWatch, SteadyOps DEF OwnInv
  <1>8. ClusterOK'
    BY <1>2, <1>3, <1>4 DEF OwnInv, ClusterOK
  <1> QED  BY <1>7, <1>8 DEF OwnInv

-----------------------------------------------------------------------------
(* Steps that leave Agents, Channels and their children alone.             *)

LEMMA ActualType ==
    ASSUME ClusterOK, NEW n \in Name
    PROVE  Actual(n) \in Shown
  <1>1. PICK w \in Workload : NameOf[w] = n
    BY WorkloadAssumption DEF WorkloadAssumption
  <1>2. <<"Deployment", n>> \in ChildKey
    BY <1>1 DEF ChildKey, Key, Shared, Kind
  <1>3. child[<<"Deployment", n>>].owner \in Workload \cup {None}
    BY <1>2 DEF ClusterOK, ChildObj, NoChild
  <1>4. pods[n] \in BOOLEAN
    BY DEF ClusterOK
  <1> QED  BY <1>3, <1>4 DEF Actual, Shown

LEMMA OutsideInv ==
    ASSUME OwnInv,
           \/ \E n \in Name : DeliverDeployment(n) \/ PodsReady(n) \/ PodsFail(n)
           \/ \E d \in Dep : ChangeDep(d)
           \/ \E c \in Controller, w \in Workload : ReconcileGone(c, w)
    PROVE  OwnInv'
  <1>1. UNCHANGED <<obj, cache, watch, child, op, undone>>
    BY DEF DeliverDeployment, PodsReady, PodsFail, ChangeDep, ReconcileGone
  <1>2. Steady
    BY <1>1, SteadyStep
  <1>3. ObjInv' /\ CacheInv' /\ WatchInv' /\ OpInv'
    BY <1>1, <1>2, SteadyObj, SteadyCache, SteadyWatch, SteadyOps DEF OwnInv
  <1>4. ClusterOK'
    <2>1. ASSUME NEW n \in Name, DeliverDeployment(n)
          PROVE  ClusterOK'
      BY <2>1, ActualType DEF DeliverDeployment, OwnInv, ClusterOK
    <2>2. ASSUME NEW n \in Name, PodsReady(n) \/ PodsFail(n)
          PROVE  ClusterOK'
      <3>1. pods' = [pods EXCEPT ![n] = TRUE] \/ pods' = [pods EXCEPT ![n] = FALSE]
        BY <2>2 DEF PodsReady, PodsFail
      <3>2. pods' \in [Name -> BOOLEAN]
        BY <3>1 DEF OwnInv, ClusterOK
      <3>3. trouble' \in Nat
        BY <2>2 DEF PodsReady, PodsFail, OwnInv, ClusterOK, Trouble
      <3> QED  BY <2>2, <3>2, <3>3 DEF PodsReady, PodsFail, OwnInv, ClusterOK
    <2>3. ASSUME NEW d \in Dep, ChangeDep(d)
          PROVE  ClusterOK'
      <3>1. deps' \in [Dep -> {"absent", "notReady", "ready"}] /\ trouble' \in Nat
        BY <2>3 DEF ChangeDep, OwnInv, ClusterOK, Trouble
      <3> QED  BY <2>3, <3>1 DEF ChangeDep, OwnInv, ClusterOK
    <2>4. ASSUME NEW c \in Controller, NEW w \in Workload, ReconcileGone(c, w)
          PROVE  ClusterOK'
      BY <2>4 DEF ReconcileGone, OwnInv, ClusterOK
    <2> QED  BY <2>1, <2>2, <2>3, <2>4
  <1> QED  BY <1>3, <1>4 DEF OwnInv

-----------------------------------------------------------------------------
(* The steps of a reconcile.                                               *)

LEMMA InFlightSteady ==
    ASSUME Steady, NEW c \in Controller, NEW p, InFlight(c, p)
    PROVE  InFlight(c, p)'
  <1>1. p.w \in Workload
    BY HandlesWorkload DEF InFlight
  <1> QED  BY <1>1, ChildrenAreKinds DEF Steady, InFlight, Copy

LEMMA SetOp ==
    ASSUME OwnInv, Steady, NEW c \in Controller, NEW p \in Reconcile,
           p.pc # "idle" => InFlight(c, p)', op' = [op EXCEPT ![c] = p]
    PROVE  OpInv'
  <1>1. OpInv
    BY DEF OwnInv
  <1>2. /\ op' \in [Controller -> Reconcile] /\ op'[c] = p
        /\ \A d \in Controller \ {c} : op'[d] = op[d]
    BY <1>1 DEF OpInv
  <1>3. \A d \in Controller \ {c} : op[d].pc # "idle" => InFlight(d, op[d])'
    BY <1>1, <1>2, SteadyOp
  <1>4. op'[c].pc # "idle" => InFlight(c, op[c])'
    BY <1>2 DEF InFlight, Copy
  <1> QED  BY <1>2, <1>3, <1>4 DEF OpInv

(* A step of the reconcile in memory alone. *)
LEMMA LocalStep ==
    ASSUME OwnInv, NEW c \in Controller, NEW p \in Reconcile,
           p.pc # "idle" => InFlight(c, p), op' = [op EXCEPT ![c] = p],
           UNCHANGED <<obj, cache, watch, deps, child, pods, dcache, told, undone>>,
           due' \subseteq Workload, trouble' \in Nat
    PROVE  OwnInv'
  <1>1. Steady
    BY SteadyStep
  <1>2. OpInv'
    BY <1>1, SetOp, InFlightSteady
  <1>3. ObjInv' /\ CacheInv' /\ WatchInv'
    BY <1>1, SteadyObj, SteadyCache, SteadyWatch DEF OwnInv
  <1>4. ClusterOK'
    BY DEF OwnInv, ClusterOK
  <1> QED  BY <1>2, <1>3, <1>4 DEF OwnInv

LEMMA SetFailedCopy ==
    ASSUME NEW w \in Workload, NEW o, Copy(w, o)
    PROVE  Copy(w, SetFailed(o)) /\ SetFailed(o).spec = o.spec
  <1>1. o \in Obj /\ o.conds \in Conditions
    BY DEF Copy, Obj
  <1>2. /\ SetFailed(o).state = o.state /\ SetFailed(o).spec = o.spec
        /\ SetFailed(o).phase = "Failed" /\ SetFailed(o).replicas = o.replicas
        /\ SetFailed(o).conds = [o.conds EXCEPT !.ready = "False"]
    BY <1>1 DEF SetFailed, Obj
  <1>3. [o.conds EXCEPT !.ready = "False"] \in Conditions
    BY <1>1 DEF Conditions, Condition
  <1>4. SetFailed(o) \in Obj
    BY <1>1, <1>2, <1>3 DEF SetFailed, Obj, Phase
  <1> QED  BY <1>2, <1>4 DEF Copy, Reported

LEMMA StartInv ==
    ASSUME OwnInv, NEW c \in Controller, NEW w \in Handles(c), NEW pc, NEW todo, NEW mem,
           Start(c, w, pc, todo, mem),
           pc \in {"rbac", "apply", "patch"}, todo \in SUBSET Kind,
           Copy(w, mem), mem.spec = cache[w].spec,
           pc = "rbac" => c = "agent" /\ todo = AgentRBAC(cache[w].spec),
           pc = "apply" => todo = ChildrenOf(w, cache[w].spec)
    PROVE  OwnInv'
  <1>1. w \in Workload /\ Copy(w, cache[w])
    BY HandlesWorkload DEF OwnInv, CacheInv
  <1>2. PICK p : p = [pc |-> pc, w |-> w, todo |-> todo, base |-> cache[w], mem |-> mem,
                      result |-> "done"]
    OBVIOUS
  <1>3. p \in Reconcile
    BY <1>1, <1>2 DEF Reconcile, Copy
  <1>4. InFlight(c, p)
    BY <1>1, <1>2 DEF InFlight
  <1>5. op' = [op EXCEPT ![c] = p]
    BY <1>2 DEF Start
  <1>6. UNCHANGED <<obj, cache, watch, deps, child, pods, dcache, told, undone, trouble>>
        /\ due' \subseteq Workload
    BY DEF Start, OwnInv, ClusterOK
  <1> QED  BY <1>3, <1>4, <1>5, <1>6, LocalStep DEF OwnInv, ClusterOK

LEMMA BeginInv ==
    ASSUME OwnInv, NEW w \in Workload, Begin(w)
    PROVE  OwnInv'
  <1>1. ASSUME w \in Agent, StartAgent(w)
        PROVE  OwnInv'
    <2>1. Copy(w, cache[w]) /\ w \in Handles("agent") /\ "agent" \in Controller
      BY <1>1 DEF OwnInv, CacheInv, Handles, Controller
    <2>2. Start("agent", w, "rbac", AgentRBAC(cache[w].spec), cache[w])
      BY <1>1 DEF StartAgent
    <2> QED  BY <2>1, <2>2, StartInv, ChildrenAreKinds
  <1>2. ASSUME w \in Channel, StartChannel(w)
        PROVE  OwnInv'
    <2>1. Copy(w, cache[w]) /\ w \in Handles("channel") /\ "channel" \in Controller
      BY <1>2 DEF OwnInv, CacheInv, Handles, Controller
    <2>2. Copy(w, SetFailed(cache[w])) /\ SetFailed(cache[w]).spec = cache[w].spec
      BY <2>1, SetFailedCopy
    <2>3. ChannelChildren(cache[w].spec) = ChildrenOf(w, cache[w].spec)
      BY <1>2, WorkloadAssumption DEF WorkloadAssumption, ChildrenOf
    <2>4. \/ Start("channel", w, "patch", {}, SetFailed(cache[w]))
          \/ Start("channel", w, "apply", ChannelChildren(cache[w].spec), cache[w])
      BY <1>2 DEF StartChannel
    <2>5. CASE Start("channel", w, "patch", {}, SetFailed(cache[w]))
      BY <2>1, <2>2, <2>5, StartInv
    <2>6. CASE Start("channel", w, "apply", ChannelChildren(cache[w].spec), cache[w])
      BY <2>1, <2>3, <2>6, StartInv, ChildrenAreKinds
    <2> QED  BY <2>4, <2>5, <2>6
  <1>3. "agent" \in Controller /\ "channel" \in Controller
    BY DEF Controller
  <1> QED  BY <1>1, <1>2, <1>3, OutsideInv DEF Begin

(* What a reconcile knows of itself. *)
LEMMA Flying ==
    ASSUME OwnInv, NEW c \in Controller, op[c].pc # "idle"
    PROVE  /\ op[c] \in Reconcile /\ InFlight(c, op[c]) /\ op[c].w \in Workload
           /\ op[c].base \in Obj /\ op[c].mem \in Obj /\ op[c].mem.spec \in Specs[op[c].w]
  BY HandlesWorkload DEF OwnInv, OpInv, InFlight, Copy

Updated(f, c, pc, todo, mem, result) ==
    [f EXCEPT ![c].pc = pc, ![c].todo = todo, ![c].mem = mem, ![c].result = result]

LEMMA SetFields ==
    ASSUME NEW f \in [Controller -> Reconcile], NEW c \in Controller,
           NEW pc, NEW todo, NEW mem, NEW result
    PROVE  Updated(f, c, pc, todo, mem, result)
           = [f EXCEPT ![c] = [pc |-> pc, w |-> f[c].w, todo |-> todo, base |-> f[c].base,
                               mem |-> mem, result |-> result]]
  <1>1. PICK P, W, T, B, M, R :
          f \in [Controller -> [pc : P, w : W, todo : T, base : B, mem : M, result : R]]
    BY Zenon DEF Reconcile
  <1>2. PICK g : g = Updated(f, c, pc, todo, mem, result)
    OBVIOUS
  <1>3. g[c] = [pc |-> pc, w |-> f[c].w, todo |-> todo, base |-> f[c].base,
                mem |-> mem, result |-> result]
    BY <1>1, <1>2 DEF Updated
  <1>4. g = [d \in Controller |-> g[d]] /\ \A d \in Controller \ {c} : g[d] = f[d]
    BY <1>1, <1>2 DEF Updated
  <1>5. \A p : g[c] = p => g = [f EXCEPT ![c] = p]
    BY <1>4
  <1> QED  BY <1>2, <1>3, <1>5

LEMMA ContinueInv ==
    ASSUME OwnInv, NEW c \in Controller, op[c].pc # "idle",
           NEW pc \in {"apply", "patch"}, NEW todo \in SUBSET Kind, NEW mem,
           NEW result \in {"done", "requeue", "error", "poll"},
           op' = Updated(op, c, pc, todo, mem, result),
           Copy(op[c].w, mem),
           pc = "apply" => \A k \in ChildrenOf(op[c].w, mem.spec) \ todo : Has(op[c].w, k),
           UNCHANGED <<obj, cache, watch, deps, child, pods, dcache, told, undone>>,
           UNCHANGED due, trouble' \in Nat
    PROVE  OwnInv'
  <1>1. op[c] \in Reconcile /\ InFlight(c, op[c])
    BY Flying
  <1>2. PICK p : p = [pc |-> pc, w |-> op[c].w, todo |-> todo, base |-> op[c].base,
                      mem |-> mem, result |-> result]
    OBVIOUS
  <1>3. p \in Reconcile
    BY <1>1, <1>2 DEF Reconcile, Copy
  <1>4. InFlight(c, p)
    BY <1>1, <1>2 DEF InFlight
  <1>5. op' = [op EXCEPT ![c] = p]
    <2>1. op \in [Controller -> Reconcile]
      BY DEF OwnInv, OpInv
    <2> QED  BY <1>2, <2>1, SetFields
  <1> QED  BY <1>3, <1>4, <1>5, LocalStep DEF OwnInv, ClusterOK

(* A reconcile that ends without a write. *)
LEMMA ReturnErrorInv ==
    ASSUME OwnInv, NEW c \in Controller, op[c].pc # "idle", ReturnError(c), trouble' \in Nat
    PROVE  OwnInv'
  <1>1. op[c].w \in Workload
    BY Flying
  <1> QED  BY <1>1, IdleType, LocalStep DEF ReturnError, OwnInv, ClusterOK

LEMMA ApplyErrorInv ==
    ASSUME OwnInv, NEW c \in Controller, ApplyError(c), trouble' \in Nat
    PROVE  OwnInv'
  <1>1. CASE op[c].pc = "apply" /\ ReturnError(c)
    BY <1>1, ReturnErrorInv
  <1>2. CASE op[c].pc = "rbac"
    <2>1. Copy(op[c].w, op[c].mem) /\ op[c].w \in Workload
      BY <1>2, Flying DEF InFlight
    <2>2. Copy(op[c].w, SetFailed(op[c].mem))
      BY <2>1, SetFailedCopy
    <2>3. /\ op' = Updated(op, c, "patch", {}, SetFailed(op[c].mem), "error")
          /\ UNCHANGED <<obj, cache, watch, deps, child, pods, dcache, told, due, undone>>
      BY <1>2 DEF ApplyError, Updated
    <2> QED  BY <1>2, <2>2, <2>3, ContinueInv
  <1> QED  BY <1>1, <1>2 DEF ApplyError

LEMMA ErrorsInv ==
    ASSUME OwnInv, NEW c \in Controller, ApplyConflict(c) \/ ApplyFails(c) \/ PatchFails(c)
    PROVE  OwnInv'
  <1>1. trouble' \in Nat
    BY DEF ApplyConflict, ApplyFails, PatchFails, Trouble, OwnInv, ClusterOK
  <1>2. CASE ApplyConflict(c) \/ ApplyFails(c)
    BY <1>1, <1>2, ApplyErrorInv DEF ApplyConflict, ApplyFails
  <1>3. CASE PatchFails(c)
    BY <1>1, <1>3, ReturnErrorInv DEF PatchFails
  <1> QED  BY <1>2, <1>3

(* A change of one condition says nothing about the workload. *)
LEMMA CondCopy ==
    ASSUME NEW w \in Workload, NEW o, Copy(w, o), NEW v \in Condition
    PROVE  /\ Copy(w, [o EXCEPT !.conds.integrations = v])
           /\ [o EXCEPT !.conds.integrations = v].spec = o.spec
           /\ Copy(w, [o EXCEPT !.conds.providers = v])
           /\ [o EXCEPT !.conds.providers = v].spec = o.spec
  <1>1. o \in Obj /\ o.conds \in Conditions
    BY DEF Copy, Obj
  <1>2. /\ [o.conds EXCEPT !.integrations = v] \in Conditions
        /\ [o.conds EXCEPT !.providers = v] \in Conditions
    BY <1>1 DEF Conditions
  <1>3. ASSUME NEW p, NEW cs \in Conditions, p = [o EXCEPT !.conds = cs]
        PROVE  Copy(w, p) /\ p.spec = o.spec
    <2>1. p \in Obj /\ p.spec = o.spec /\ p.phase = o.phase
      BY <1>1, <1>3 DEF Obj
    <2> QED  BY <2>1 DEF Copy
  <1>4. /\ [o EXCEPT !.conds.integrations = v] = [o EXCEPT !.conds = [o.conds EXCEPT !.integrations = v]]
        /\ [o EXCEPT !.conds.providers = v] = [o EXCEPT !.conds = [o.conds EXCEPT !.providers = v]]
    BY <1>1 DEF Obj
  <1> QED  BY <1>2, <1>3, <1>4

LEMMA ResolveInv ==
    ASSUME OwnInv, ResolveAgent
    PROVE  OwnInv'
  <1> DEFINE c == "agent"
             mem == op[c].mem
             v == IF mem.spec.integrations = {} THEN mem.conds.integrations ELSE "True"
             bound == [mem EXCEPT !.conds.integrations = v]
  <1>1. c \in Controller /\ op[c].pc = "rbac" /\ op[c].todo = {}
    BY DEF ResolveAgent, Controller
  <1>2. /\ Copy(op[c].w, mem) /\ op[c].w \in Workload /\ op[c].w \in Agent
        /\ \A k \in AgentRBAC(mem.spec) : Has(op[c].w, k)
    BY <1>1, Flying DEF InFlight, Handles
  <1>3. v \in Condition /\ "True" \in Condition /\ "False" \in Condition
    <2>1. mem.conds.integrations \in Condition
      BY <1>2 DEF Copy, Obj, Conditions
    <2> QED  BY <2>1 DEF Condition
  <1>4. Copy(op[c].w, bound) /\ bound.spec = mem.spec
    BY <1>2, <1>3, CondCopy
  <1>5. UNCHANGED <<obj, cache, watch, deps, child, pods, dcache, told, due, undone, trouble>>
    BY DEF ResolveAgent, Continue
  <1>6. \/ op' = Updated(op, c, "patch", {}, SetFailed([mem EXCEPT !.conds.integrations = "False"]), "requeue")
        \/ op' = Updated(op, c, "patch", {}, [mem EXCEPT !.conds.integrations = "False"], "requeue")
        \/ op' = Updated(op, c, "patch", {}, [bound EXCEPT !.conds.providers = "False"], "requeue")
        \/ op' = Updated(op, c, "apply", AgentChildren(mem.spec),
                         [bound EXCEPT !.conds.providers = "True"], "done")
    BY Zenon DEF ResolveAgent, Continue, Updated
  <1>7. trouble' \in Nat
    BY <1>5 DEF OwnInv, ClusterOK
  <1> HIDE DEF bound, v
  <1>8. CASE op' = Updated(op, c, "apply", AgentChildren(mem.spec),
                           [bound EXCEPT !.conds.providers = "True"], "done")
    <2>1. PICK n : n = [bound EXCEPT !.conds.providers = "True"]
      OBVIOUS
    <2>2. Copy(op[c].w, n) /\ n.spec = mem.spec
      BY <1>2, <1>3, <1>4, <2>1, CondCopy
    <2>3. AgentChildren(mem.spec) \in SUBSET Kind
      BY ChildrenAreKinds
    <2>4. \A k \in ChildrenOf(op[c].w, n.spec) \ AgentChildren(mem.spec) : Has(op[c].w, k)
      BY <1>2, <2>2 DEF ChildrenOf
    <2> QED  BY <1>1, <1>5, <1>7, <1>8, <2>1, <2>2, <2>3, <2>4, ContinueInv
  <1>9. ASSUME NEW n, Copy(op[c].w, n), op' = Updated(op, c, "patch", {}, n, "requeue")
        PROVE  OwnInv'
    BY <1>1, <1>5, <1>7, <1>9, ContinueInv
  <1>10. /\ Copy(op[c].w, [mem EXCEPT !.conds.integrations = "False"])
         /\ Copy(op[c].w, SetFailed([mem EXCEPT !.conds.integrations = "False"]))
         /\ Copy(op[c].w, [bound EXCEPT !.conds.providers = "False"])
    BY <1>2, <1>3, <1>4, CondCopy, SetFailedCopy
  <1> QED  BY <1>6, <1>8, <1>9, <1>10

(* A reconcile that has applied all has all. *)
LEMMA AllApplied ==
    ASSUME OwnInv, NEW c \in Controller, op[c].pc = "apply", op[c].todo = {}
    PROVE  Stands(op[c].w)
  <1>1. /\ op[c].w \in Workload /\ op[c].mem.spec \in Specs[op[c].w]
        /\ \A k \in ChildrenOf(op[c].w, op[c].mem.spec) : Has(op[c].w, k)
    BY Flying DEF InFlight
  <1> QED  BY <1>1, CoreFacts DEF Stands

WithPhase(o, phase, ready) == [o EXCEPT !.phase = phase, !.conds.ready = ready]
WithStatus(o, replicas, phase, ready) ==
    [o EXCEPT !.replicas = replicas, !.phase = phase, !.conds.ready = ready]

LEMMA StatusType ==
    ASSUME NEW w \in Workload, NEW o, Copy(w, o), NEW phase \in Phase, NEW replicas \in BOOLEAN,
           NEW ready \in Condition, Stands(w)
    PROVE  Copy(w, WithStatus(o, replicas, phase, ready)) /\ Copy(w, WithPhase(o, phase, ready))
  <1>1. o \in Obj /\ o.conds \in Conditions
    BY DEF Copy, Obj
  <1>2. [o.conds EXCEPT !.ready = ready] \in Conditions
    BY <1>1 DEF Conditions
  <1>3. PICK cs \in Conditions : cs = [o.conds EXCEPT !.ready = ready]
    BY <1>2
  <1>4. /\ WithStatus(o, replicas, phase, ready)
           = [o EXCEPT !.replicas = replicas, !.phase = phase, !.conds = cs]
        /\ WithPhase(o, phase, ready) = [o EXCEPT !.phase = phase, !.conds = cs]
    BY <1>1, <1>3 DEF Obj, WithStatus, WithPhase
  <1>5. /\ [o EXCEPT !.replicas = replicas, !.phase = phase, !.conds = cs] \in Obj
        /\ [o EXCEPT !.replicas = replicas, !.phase = phase, !.conds = cs].spec = o.spec
        /\ [o EXCEPT !.phase = phase, !.conds = cs] \in Obj
        /\ [o EXCEPT !.phase = phase, !.conds = cs].spec = o.spec
    BY <1>1 DEF Obj
  <1> QED  BY <1>4, <1>5 DEF Copy

LEMMA FinishInv ==
    ASSUME OwnInv, NEW c \in Controller, op[c].pc = "apply", op[c].todo = {}, NEW new,
           NEW result \in {"done", "requeue", "error", "poll"},
           Continue(c, "patch", {}, new, result), Copy(op[c].w, new)
    PROVE  OwnInv'
  <1>1. op' = Updated(op, c, "patch", {}, new, result)
    BY DEF Continue, Updated
  <1>2. UNCHANGED <<obj, cache, watch, deps, child, pods, dcache, told, due, undone, trouble>>
    BY DEF Continue
  <1>3. trouble' \in Nat
    BY <1>2 DEF OwnInv, ClusterOK
  <1> QED  BY <1>1, <1>2, <1>3, ContinueInv

LEMMA FinishAgentInv ==
    ASSUME OwnInv, FinishAgent
    PROVE  OwnInv'
  <1> DEFINE mem == op["agent"].mem
             w == op["agent"].w
             shown == dcache[NameOf[w]]
             new == IF mem.spec.mode = "task" THEN TaskStatus(mem) ELSE DaemonStatus(mem, shown)
  <1>1. "agent" \in Controller /\ op["agent"].pc = "apply" /\ op["agent"].todo = {}
    BY DEF FinishAgent, Controller
  <1>2. Copy(w, mem) /\ w \in Workload /\ Stands(w)
    BY <1>1, Flying, AllApplied DEF InFlight
  <1>3. shown.ready \in BOOLEAN /\ mem.replicas \in BOOLEAN
    <2>1. NameOf[w] \in Name
      BY <1>2, WorkloadAssumption DEF WorkloadAssumption
    <2>2. shown \in Shown
      BY <2>1 DEF OwnInv, ClusterOK
    <2> QED  BY <1>2, <2>2 DEF Shown, Copy, Obj
  <1>4. Copy(w, TaskStatus(mem))
    <2>1. TaskStatus(mem) = WithPhase(mem, "Ready", "True")
      BY DEF TaskStatus, WithPhase
    <2>2. "Ready" \in Phase /\ "True" \in Condition
      BY DEF Phase, Condition
    <2> QED  BY <1>2, <1>3, <2>1, <2>2, StatusType
  <1>5. Copy(w, DaemonStatus(mem, shown))
    <2>1. PICK r \in BOOLEAN : r = IF shown.owner = None THEN mem.replicas ELSE shown.ready
      BY <1>3
    <2>2. PICK ph \in Phase : ph = IF r THEN "Running" ELSE "Pending"
      BY DEF Phase
    <2>3. PICK cr \in Condition : cr = IF r THEN "True" ELSE "False"
      BY DEF Condition
    <2>4. DaemonStatus(mem, shown) = WithStatus(mem, r, ph, cr)
      BY <2>1, <2>2, <2>3, Zenon DEF DaemonStatus, WithStatus
    <2> QED  BY <1>2, <2>4, StatusType
  <1>6. Copy(w, new)
    BY <1>4, <1>5
  <1>7. PICK result \in {"done", "requeue", "error", "poll"} :
          Continue("agent", "patch", {}, new, result)
    BY DEF FinishAgent
  <1> HIDE DEF new
  <1> QED  BY <1>1, <1>6, <1>7, FinishInv

LEMMA FinishChannelInv ==
    ASSUME OwnInv, FinishChannel
    PROVE  OwnInv'
  <1> DEFINE mem == op["channel"].mem
             w == op["channel"].w
             shown == dcache[NameOf[w]]
             new == ChannelStatus(mem, shown)
  <1>1. "channel" \in Controller /\ op["channel"].pc = "apply" /\ op["channel"].todo = {}
    BY DEF FinishChannel, Controller
  <1>2. Copy(w, mem) /\ w \in Workload /\ Stands(w)
    BY <1>1, Flying, AllApplied DEF InFlight
  <1>3. CASE shown.owner = None
    <2>1. Copy(w, new)
      BY <1>2, <1>3 DEF ChannelStatus
    <2> QED  BY <1>1, <2>1, FinishInv DEF FinishChannel
  <1>4. CASE shown.owner # None
    <2>1. PICK ph \in Phase : ph = IF shown.ready THEN "Ready" ELSE "Pending"
      BY DEF Phase
    <2>2. PICK cr \in Condition : cr = IF shown.ready THEN "True" ELSE "False"
      BY DEF Condition
    <2>3. new = WithPhase(mem, ph, cr)
      BY <1>4, <2>1, <2>2, Zenon DEF ChannelStatus, WithPhase
    <2>4. Copy(w, new)
      BY <1>2, <2>3, StatusType
    <2> QED  BY <1>1, <2>4, FinishInv DEF FinishChannel
  <1> QED  BY <1>3, <1>4

(* A new child takes nothing from anybody. *)
LEMMA ApplyChildInv ==
    ASSUME OwnInv, NEW c \in Controller, ApplyChild(c)
    PROVE  OwnInv'
  <1>1. PICK k \in Kind :
          /\ IsNext(c, k)
          /\ child[Key(op[c].w, k)].owner \in {None, op[c].w}
          /\ WriteChild(Key(op[c].w, k),
                [owner |-> op[c].w,
                 spec |-> IF k = "PVC" /\ child[Key(op[c].w, k)] # NoChild
                            THEN child[Key(op[c].w, k)].spec ELSE Content(k, op[c].mem.spec)])
          /\ op' = [op EXCEPT ![c].todo = @ \ {k}]
          /\ UNCHANGED <<obj, cache, watch, deps, dcache, undone, trouble>>
    BY Zenon DEF ApplyChild
  <1>2. op[c].pc \in {"rbac", "apply"}
    BY <1>1 DEF IsNext
  <1>3. PICK p \in Reconcile : p = op[c]
    BY DEF OwnInv, OpInv
  <1>4. /\ InFlight(c, p) /\ p.w \in Workload /\ p.mem \in Obj /\ p.todo \subseteq Kind
        /\ p.pc \in {"rbac", "apply"}
    BY <1>2, <1>3, Flying DEF Reconcile
  <1>5. PICK key \in ChildKey : key = Key(p.w, k)
    BY <1>4, KeyFacts
  <1>6. PICK new \in ChildObj :
          new.owner = p.w /\ WriteChild(key, new)
    <2>1. child[key] \in ChildObj
      BY DEF OwnInv, ClusterOK
    <2>2. child[key] # NoChild => child[key].spec \in AnySpec \cup {None}
      BY <2>1 DEF ChildObj
    <2>3. Content(k, p.mem.spec) \in AnySpec \cup {None}
      BY <1>4 DEF Content, Obj
    <2>4. PICK spec \in AnySpec \cup {None} :
            spec = IF k = "PVC" /\ child[key] # NoChild THEN child[key].spec
                                                       ELSE Content(k, p.mem.spec)
      BY <2>2, <2>3
    <2>5. [owner |-> p.w, spec |-> spec] \in ChildObj
      BY <1>4 DEF ChildObj
    <2>6. WriteChild(key, [owner |-> p.w, spec |-> spec])
      BY <1>1, <1>3, <1>5, <2>4, Zenon
    <2> QED  BY <2>5, <2>6
  <1>7. /\ child' \in [ChildKey -> ChildObj] /\ child'[key] = new
        /\ \A j \in ChildKey \ {key} : child'[j] = child[j]
        /\ pods' \in [Name -> BOOLEAN]
        /\ told' \in [Name -> SUBSET Workload]
        /\ due' \subseteq Workload
    BY <1>6, WriteChildType DEF OwnInv
  <1>8. UNCHANGED <<obj, cache, watch, deps, dcache, undone, trouble>>
    BY <1>1
  <1>9. child[key].owner \in {None, p.w}
    BY <1>1, <1>3, <1>5
  <1>10. Steady
    <2>1. \A w \in Workload : child[key].owner = w => child'[key].owner = w
      BY <1>6, <1>7, <1>9, WorkloadAssumption DEF WorkloadAssumption
    <2> QED  BY <1>7, <1>8, <2>1, SteadyStep
  <1>11. Has(p.w, k)'
    BY <1>5, <1>6, <1>7 DEF Has
  <1>12. PICK q : q = [p EXCEPT !.todo = p.todo \ {k}]
    OBVIOUS
  <1>13. /\ q \in Reconcile /\ q.w = p.w /\ q.pc = p.pc /\ q.base = p.base /\ q.mem = p.mem
         /\ q.todo = p.todo \ {k}
    BY <1>12 DEF Reconcile
  <1>14. InFlight(c, q)'
    <2>1. InFlight(c, p)'
      BY <1>4, <1>10, InFlightSteady
    <2> QED  BY <1>11, <1>13, <2>1, ChildrenAreKinds DEF InFlight, Copy
  <1>15. op' = [op EXCEPT ![c] = q]
    BY <1>1, <1>3, <1>12
  <1>16. OpInv'
    BY <1>10, <1>13, <1>14, <1>15, SetOp
  <1>17. ObjInv' /\ CacheInv' /\ WatchInv'
    BY <1>8, <1>10, SteadyObj, SteadyCache, SteadyWatch DEF OwnInv
  <1>18. ClusterOK'
    BY <1>7, <1>8 DEF OwnInv, ClusterOK
  <1> QED  BY <1>16, <1>17, <1>18 DEF OwnInv

LEMMA MergeCopy ==
    ASSUME NEW w \in Workload, NEW cur, NEW base, NEW mem,
           Copy(w, cur), Copy(w, mem)
    PROVE  Copy(w, MergeFrom(cur, base, mem)) /\ MergeFrom(cur, base, mem).state = cur.state
  <1>1. cur \in Obj /\ mem \in Obj
    BY DEF Copy
  <1>2. PICK ph \in Phase : ph = IF mem.phase = base.phase THEN cur.phase ELSE mem.phase
    BY <1>1 DEF Obj
  <1>3. PICK r \in BOOLEAN : r = IF mem.replicas = base.replicas THEN cur.replicas ELSE mem.replicas
    BY <1>1 DEF Obj
  <1>4. PICK cs \in Conditions : cs = IF mem.conds = base.conds THEN cur.conds ELSE mem.conds
    BY <1>1 DEF Obj
  <1>5. MergeFrom(cur, base, mem) = [cur EXCEPT !.phase = ph, !.replicas = r, !.conds = cs]
    BY <1>2, <1>3, <1>4, <1>1 DEF MergeFrom, Obj
  <1>6. PICK n : n = [cur EXCEPT !.phase = ph, !.replicas = r, !.conds = cs]
    OBVIOUS
  <1>7. n \in Obj /\ n.spec = cur.spec /\ n.phase = ph /\ n.state = cur.state
    BY <1>1, <1>6 DEF Obj
  <1>8. Copy(w, n)
    BY <1>2, <1>7 DEF Copy
  <1> QED  BY <1>5, <1>6, <1>7, <1>8

LEMMA PatchInv ==
    ASSUME OwnInv, NEW c \in Controller, PatchStatus(c)
    PROVE  OwnInv'
  <1>1. /\ op[c].pc = "patch"
        /\ \/ UNCHANGED <<obj, watch>>
           \/ WriteObj(op[c].w, MergeFrom(obj[op[c].w], op[c].base, op[c].mem))
        /\ due' = due \cup {op[c].w} \/ due' = due
        /\ op' = [op EXCEPT ![c] = Idle]
        /\ UNCHANGED <<cache, deps, child, pods, dcache, told, undone, trouble>>
    BY Zenon DEF PatchStatus
  <1>2. PICK w \in Workload : w = op[c].w
    BY <1>1, Flying
  <1>3. Copy(w, op[c].base) /\ Copy(w, op[c].mem)
    BY <1>1, <1>2, Flying DEF InFlight
  <1>4. Steady /\ ObjInv' /\ WatchInv'
    <2>1. CASE UNCHANGED <<obj, watch>>
      <3>1. Steady
        BY <1>1, <2>1, SteadyStep
      <3> QED  BY <2>1, <3>1, SteadyObj, SteadyWatch DEF OwnInv
    <2>2. CASE WriteObj(op[c].w, MergeFrom(obj[op[c].w], op[c].base, op[c].mem))
      <3>1. PICK n : n = MergeFrom(obj[w], op[c].base, op[c].mem)
        OBVIOUS
      <3>2. Copy(w, obj[w])
        BY DEF OwnInv, ObjInv
      <3>3. Copy(w, n) /\ n.state = obj[w].state
        BY <1>3, <3>1, <3>2, MergeCopy
      <3>4. WriteObj(w, n)
        BY <1>2, <2>2, <3>1
      <3> QED  BY <1>1, <3>3, <3>4, WriteObjInv
    <2> QED  BY <1>1, <2>1, <2>2
  <1>5. OpInv'
    BY <1>1, <1>4, IdleType, SetOp
  <1>6. CacheInv'
    BY <1>1, <1>4, SteadyCache DEF OwnInv
  <1>7. ClusterOK'
    BY <1>1, <1>2 DEF OwnInv, ClusterOK
  <1> QED  BY <1>4, <1>5, <1>6, <1>7 DEF OwnInv

LEMMA RestartInv ==
    ASSUME OwnInv, OperatorRestarts
    PROVE  OwnInv'
  <1>1. UNCHANGED <<obj, deps, child, pods, undone>>
    BY DEF OperatorRestarts
  <1>2. Steady
    BY <1>1, SteadyStep
  <1>3. ObjInv'
    BY <1>1, <1>2, SteadyObj DEF OwnInv
  <1>4. CacheInv'
    BY <1>1, <1>3 DEF OperatorRestarts, ObjInv, CacheInv, Copy
  <1>5. WatchInv'
    <2>1. watch' = << >> /\ << >> \in Seq(Event) /\ Len(watch') = 0
      BY EmptySeq DEF OperatorRestarts
    <2> QED  BY <2>1 DEF WatchInv
  <1>6. OpInv'
    BY IdleType DEF OperatorRestarts, OpInv
  <1>7. ClusterOK'
    <2>1. dcache' \in [Name -> Shown]
      BY ActualType DEF OwnInv, OperatorRestarts
    <2>2. trouble' \in Nat
      BY DEF OwnInv, ClusterOK, OperatorRestarts, Trouble
    <2> QED  BY <1>1, <2>1, <2>2 DEF OwnInv, ClusterOK, OperatorRestarts
  <1> QED  BY <1>3, <1>4, <1>5, <1>6, <1>7 DEF OwnInv

-----------------------------------------------------------------------------
(* The theorems.                                                           *)

LEMMA OwnNext == OwnInv /\ [Next]_vars => OwnInv'
  <1> SUFFICES ASSUME OwnInv, [Next]_vars PROVE OwnInv'
    OBVIOUS
  <1>1. CASE Environment
    BY <1>1, UserWritesInv, RemoveChildInv, OutsideInv DEF Environment
  <1>2. CASE DeliverObj
    BY <1>2, DeliverObjInv
  <1>3. CASE \E n \in Name : DeliverDeployment(n)
    BY <1>3, OutsideInv
  <1>4. CASE \E w \in Workload : Begin(w)
    BY <1>4, BeginInv
  <1>5. ASSUME NEW c \in Controller, Step(c) \/ ApplyFails(c) \/ PatchFails(c)
        PROVE  OwnInv'
    BY <1>5, ApplyChildInv, ErrorsInv, PatchInv, ResolveInv, FinishAgentInv, FinishChannelInv
       DEF Step
  <1>6. CASE OperatorRestarts
    BY <1>6, RestartInv
  <1>7. CASE UNCHANGED vars
    <2>1. UNCHANGED <<obj, cache, watch, child, op, undone>>
      BY <1>7 DEF vars
    <2>2. Steady
      BY <2>1, SteadyStep
    <2>3. ObjInv' /\ CacheInv' /\ WatchInv' /\ OpInv'
      BY <2>1, <2>2, SteadyObj, SteadyCache, SteadyWatch, SteadyOps DEF OwnInv
    <2>4. ClusterOK'
      BY <1>7 DEF vars, OwnInv, ClusterOK
    <2> QED  BY <2>3, <2>4 DEF OwnInv
  <1> QED  BY <1>1, <1>2, <1>3, <1>4, <1>5, <1>6, <1>7 DEF Next

(* Every copy of an Agent or Channel that says Running or Ready, in the    *)
(* API server, in an informer, on its way there or in a reconcile, is      *)
(* backed by the children that patchStatus vouched for, through edits,     *)
(* deletions, errors, objects of one name and restarts of the operator.    *)
THEOREM WorkloadsInvariant == Spec => []OwnInv
  <1>1. Init => OwnInv
    BY OwnInit
  <1>2. OwnInv /\ [Next]_vars => OwnInv'
    BY OwnNext
  <1> QED  BY <1>1, <1>2, PTL DEF Spec

(* The objects, informers, queues and reconciles of the Agent and Channel  *)
(* controllers keep their types, and each reconciles its own kind.         *)
THEOREM WorkloadsTypeCorrect == Spec => []TypeOK
  <1>1. OwnInv => TypeOK
    BY InvType
  <1> QED  BY <1>1, WorkloadsInvariant, PTL

(* A live object that reports Running or Ready is the controller of every  *)
(* child that it needs under any spec, but for those that a user deleted:  *)
(* reconcileOwnedResource never takes a child over, and Reconcile returns  *)
(* before its status patch when one child cannot be applied.               *)
THEOREM ChildrenAlwaysOwned == Spec => []ReportedOwnsChildren
  <1>1. OwnInv => ReportedOwnsChildren
    BY InvOwns
  <1> QED  BY <1>1, WorkloadsInvariant, PTL
=============================================================================
