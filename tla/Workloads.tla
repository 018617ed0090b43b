----------------------------- MODULE Workloads ------------------------------
(***************************************************************************)
(* Agents and Channels, the objects that the operator turns into workloads *)
(* (internal/controller/agent_controller.go, channel_controller.go and the *)
(* helpers of common.go).  A reconcile resolves what the object refers to, *)
(* applies the child objects one API write at a time, reads the readiness  *)
(* of the Deployment and patches the status.                               *)
(*                                                                         *)
(* The two controllers have one worker each, so two reconciles may be in   *)
(* flight.  Neither controller watches the Integrations, Providers and (in *)
(* the case of Channels) Agents that it reads.  The copies of Agents,      *)
(* Channels and Deployments that a reconcile reads trail the API server.   *)
(* CreateOrUpdate on an old copy of another child ends in a conflict, which *)
(* is one of the failures of ApplyFails.                                   *)
(***************************************************************************)
EXTENDS Naturals, Sequences, FiniteSets

CONSTANTS
    Agent, Channel,         \* the objects
    Name, NameOf,           \* their names; an Agent and a Channel may share one
    Integration, Provider,  \* what they refer to
    Specs,                  \* [Workload -> the specs that users give it]
    InitSpec,               \* the first spec of each
    Casts,                  \* which objects users create, what there is at first, and a bound
                            \* on edits, failing pods, API errors and restarts
    Removable, Deletable,   \* the objects and the kinds of children that users delete
    None,                   \* no object
    MaxLag                  \* at most this many events are undelivered

Workload == Agent \cup Channel
Dep == Integration \cup Provider
AnySpec == UNION {Specs[w] : w \in Workload}

(* The parts of a spec that decide what a reconcile does.  ref: the        *)
(* integrationRef of a poll-based Channel, "missing" when it is empty,     *)
(* "unused" for other Channels.                                            *)
AgentSpec == [mode : {"daemon", "task"}, ownSA : BOOLEAN, storage : BOOLEAN,
              netpol : BOOLEAN, integrations : SUBSET Integration,
              providers : SUBSET Provider]
ChannelSpec == [agent : Agent, ref : Integration \cup {"missing", "unused"},
                webhook : BOOLEAN]

ASSUME WorkloadAssumption ==
    /\ Agent \cap Channel = {}
    /\ NameOf \in [Workload -> Name]
    /\ \A n \in Name : \E w \in Workload : NameOf[w] = n
    /\ \A v, w \in Workload :
          v # w /\ NameOf[v] = NameOf[w] => ~ ({v, w} \subseteq Agent \/ {v, w} \subseteq Channel)
    /\ Specs \in [Workload -> SUBSET (AgentSpec \cup ChannelSpec)]
    /\ \A a \in Agent : Specs[a] \subseteq AgentSpec /\ Specs[a] # {}
    /\ \A c \in Channel : Specs[c] \subseteq ChannelSpec /\ Specs[c] # {}
    /\ \A a \in Agent : \A s, t \in Specs[a] : s.mode = t.mode  \* immutable
    /\ InitSpec \in [Workload -> AnySpec] /\ \A w \in Workload : InitSpec[w] \in Specs[w]
    /\ None \notin Workload /\ None \notin AnySpec
    /\ {"missing", "unused"} \cap Integration = {}
    /\ MaxLag \in Nat \ {0}
    /\ Casts \subseteq [who : SUBSET Workload, deps : [Dep -> {"absent", "notReady", "ready"}],
                     trouble : Nat]

VARIABLES
    obj,     \* the Agents and Channels, as stored
    cache,   \* the operator's informer copies of them
    watch,   \* the events between the two, oldest first
    deps,    \* the Integrations and Providers, as the operator sees them
    child,   \* the child objects
    pods,    \* which Deployments have a ready replica
    dcache,  \* the operator's informer copies of the Deployments
    told,    \* the owners that undelivered Deployment events are about
    due,     \* the work queues
    op,      \* the reconcile in flight of each controller
    undone,  \* history: the children that a user has deleted
    trouble  \* how much of it there may still be

vars == <<obj, cache, watch, deps, child, pods, dcache, told, due, op,
          undone, trouble>>

-----------------------------------------------------------------------------
(* Children.                                                               *)

(* RBAC: the ServiceAccount, Role and RoleBinding of an owner.  They have  *)
(* no other user, so all that shows of them is whether they are there.     *)
Kind == {"RBAC", "PVC", "ConfigMap", "Deployment", "Service", "NetworkPolicy", "Ingress"}

(* Both reconcilers apply what they need of these in this order. *)
Rank == [k \in Kind |->
           CASE k = "RBAC" -> 1 [] k = "PVC" -> 2 [] k = "ConfigMap" -> 3
             [] k = "Deployment" -> 4 [] k = "Service" -> 5
             [] k = "NetworkPolicy" -> 6 [] k = "Ingress" -> 6]

Shared == {"Deployment", "Service"}

(* Deployment and Service have the name of their owner; every other child  *)
(* has a suffix (or a kind) that only owners of one kind use.              *)
Key(w, k) == IF k \in Shared THEN <<k, NameOf[w]>> ELSE <<k, w>>

ChildKey == {Key(w, k) : w \in Workload, k \in Kind}
NoChild == [owner |-> None, spec |-> None]
ChildObj == [owner : Workload, spec : AnySpec \cup {None}] \cup {NoChild}

(* reconcileAgentRBAC, unless the user names a ServiceAccount. *)
AgentRBAC(spec) == IF spec.ownSA THEN {} ELSE {"RBAC"}

(* reconcileDaemon, reconcileTask. *)
AgentChildren(spec) ==
    IF spec.mode = "task"
      THEN {"ConfigMap"}
      ELSE {"ConfigMap", "Deployment", "Service"}
             \cup (IF spec.storage THEN {"PVC"} ELSE {})
             \cup (IF spec.netpol THEN {"NetworkPolicy"} ELSE {})

ChannelChildren(spec) ==
    {"RBAC", "Deployment", "Service"} \cup (IF spec.webhook THEN {"Ingress"} ELSE {})

ChildrenOf(w, spec) ==
    IF w \in Agent THEN AgentRBAC(spec) \cup AgentChildren(spec) ELSE ChannelChildren(spec)

(* What w needs under every spec that it may have. *)
CoreOf(w) == {k \in Kind : \A s \in Specs[w] : k \in ChildrenOf(w, s)}

-----------------------------------------------------------------------------
(* State.                                                                  *)

Condition == {"", "True", "False"}
Conditions == [ready : Condition, integrations : Condition, providers : Condition]
NoConditions == [ready |-> "", integrations |-> "", providers |-> ""]

Phase == {"", "Pending", "Running", "Ready", "Failed"}
Reported == {"Running", "Ready"}   \* the phases that vouch for the workload

(* replicas: status.readyReplicas is positive. *)
Obj == [state : {"absent", "live", "deleted"}, spec : AnySpec,
        phase : Phase, replicas : BOOLEAN, conds : Conditions]

(* todo: the kinds still to be applied.  result: what Reconcile returns    *)
(* after its status patch; with "poll" that depends on the phase then.     *)
Reconcile == [pc : {"idle", "rbac", "apply", "patch"}, w : Workload \cup {None},
              todo : SUBSET Kind, base : Obj \cup {None}, mem : Obj \cup {None},
              result : {"done", "requeue", "error", "poll"}]
Idle == [pc |-> "idle", w |-> None, todo |-> {}, base |-> None, mem |-> None,
         result |-> "done"]

Controller == {"agent", "channel"}
Handles(c) == IF c = "agent" THEN Agent ELSE Channel

(* What the Deployment informer shows. *)
Shown == [owner : Workload \cup {None}, ready : BOOLEAN]
Actual(n) == [owner |-> child[<<"Deployment", n>>].owner, ready |-> pods[n]]

TypeOK ==
    /\ obj \in [Workload -> Obj]
    /\ cache \in [Workload -> Obj]
    /\ \A w \in Workload : obj[w].spec \in Specs[w] /\ cache[w].spec \in Specs[w]
    /\ watch \in Seq([w : Workload, obj : Obj])
    /\ deps \in [Dep -> {"absent", "notReady", "ready"}]
    /\ child \in [ChildKey -> ChildObj]
    /\ pods \in [Name -> BOOLEAN]
    /\ dcache \in [Name -> Shown]
    /\ told \in [Name -> SUBSET Workload]
    /\ due \subseteq Workload
    /\ op \in [Controller -> Reconcile]
    /\ \A c \in Controller : op[c].pc # "idle" => op[c].w \in Handles(c)
    /\ undone \subseteq ChildKey
    /\ trouble \in Nat

Init ==
    /\ \E cast \in Casts :
          /\ obj = [w \in Workload |->
                      [state |-> IF w \in cast.who THEN "absent" ELSE "deleted",
                       spec |-> InitSpec[w], phase |-> "", replicas |-> FALSE,
                       conds |-> NoConditions]]
          /\ deps = cast.deps
          /\ trouble = cast.trouble
    /\ cache = obj
    /\ watch = << >>
    /\ child = [k \in ChildKey |-> NoChild]
    /\ pods = [n \in Name |-> FALSE]
    /\ dcache = [n \in Name |-> [owner |-> None, ready |-> FALSE]]
    /\ told = [n \in Name |-> {}]
    /\ due = {}
    /\ op = [c \in Controller |-> Idle]
    /\ undone = {}

-----------------------------------------------------------------------------
(* Informers.                                                              *)

(* Store o, unless that changes nothing. *)
WriteObj(w, o) ==
    IF o = obj[w]
      THEN UNCHANGED <<obj, watch>>
      ELSE /\ Len(watch) < MaxLag
           /\ obj' = [obj EXCEPT ![w] = o]
           /\ watch' = Append(watch, [w |-> w, obj |-> o])

(* For(): every event about an object puts it on the work queue. *)
DeliverObj ==
    /\ watch # << >>
    /\ cache' = [cache EXCEPT ![Head(watch).w] = Head(watch).obj]
    /\ due' = due \cup {Head(watch).w}
    /\ watch' = Tail(watch)
    /\ UNCHANGED <<obj, deps, child, pods, dcache, told, op, undone, trouble>>

(* The Deployment informer catches up.                                     *)
DeliverDeployment(n) ==
    /\ dcache[n] # Actual(n) \/ told[n] # {}
    /\ dcache' = [dcache EXCEPT ![n] = Actual(n)]
    /\ due' = due \cup told[n]
    /\ told' = [told EXCEPT ![n] = {}]
    /\ UNCHANGED <<obj, cache, watch, deps, child, pods, op, undone, trouble>>

(* Owns(): the owners of what child k was and of what it becomes hear of a *)
(* change.  Of a Deployment they hear through its informer, and, with      *)
(* GenerationChangedPredicate, only of changes of child[k], not of pods.   *)
WriteChild(k, o) ==
    LET owners == IF o = child[k] THEN {} ELSE {child[k].owner, o.owner} \ {None}
    IN  /\ child' = [child EXCEPT ![k] = o]
        /\ IF k[1] = "Deployment"
             THEN /\ told' = [told EXCEPT ![k[2]] = @ \cup owners]
                  /\ pods' = [pods EXCEPT ![k[2]] = @ /\ o # NoChild]
                  /\ due' = due
             ELSE /\ due' = due \cup owners
                  /\ UNCHANGED <<told, pods>>

-----------------------------------------------------------------------------
(* Users, the Deployment controller and the garbage collector.             *)

Trouble ==
    /\ trouble > 0
    /\ trouble' = trouble - 1

(* Users create each object once, in any order: an object that is deleted  *)
(* (or not of the cast) does not come back.                                *)
CreateObj(w) ==
    /\ obj[w].state = "absent"
    /\ WriteObj(w, [obj[w] EXCEPT !.state = "live"])
    /\ UNCHANGED <<cache, deps, child, pods, dcache, told, due, op, undone, trouble>>

EditObj(w) ==
    /\ Trouble
    /\ obj[w].state = "live"
    /\ \E s \in Specs[w] \ {obj[w].spec} : WriteObj(w, [obj[w] EXCEPT !.spec = s])
    /\ UNCHANGED <<cache, deps, child, pods, dcache, told, due, op, undone>>

DeleteObj(w) ==
    /\ Trouble
    /\ w \in Removable
    /\ obj[w].state = "live"
    /\ WriteObj(w, [obj[w] EXCEPT !.state = "deleted"])
    /\ UNCHANGED <<cache, deps, child, pods, dcache, told, due, op, undone>>

(* The children of an object that is gone are collected.  The others are   *)
(* of no interest to anybody.                                              *)
CollectChild(k) ==
    /\ k[1] \in Shared
    /\ \E w \in Workload : child[k].owner = w /\ obj[w].state = "deleted"
    /\ WriteChild(k, NoChild)
    /\ UNCHANGED <<obj, cache, watch, deps, dcache, op, undone, trouble>>

DeleteChild(k) ==
    /\ Trouble
    /\ k[1] \in Deletable
    /\ child[k] # NoChild
    /\ WriteChild(k, NoChild)
    /\ undone' = undone \cup {k}
    /\ UNCHANGED <<obj, cache, watch, deps, dcache, op>>

(* What an object that exists refers to. *)
InUse(d) ==
    \E w \in Workload :
        /\ obj[w].state = "live"
        /\ IF w \in Agent THEN d \in obj[w].spec.integrations \cup obj[w].spec.providers
             ELSE d = obj[w].spec.ref

(* An Integration or Provider appears, becomes Ready, fails or disappears. *)
(* Nobody notices while no object refers to it.                            *)
ChangeDep(d) ==
    /\ Trouble
    /\ InUse(d)
    /\ \E s \in {"absent", "notReady", "ready"} \ {deps[d]} :
          deps' = [deps EXCEPT ![d] = s]
    /\ UNCHANGED <<obj, cache, watch, child, pods, dcache, told, due, op, undone>>

PodsReady(n) ==
    /\ child[<<"Deployment", n>>] # NoChild
    /\ ~ pods[n]
    /\ pods' = [pods EXCEPT ![n] = TRUE]
    /\ UNCHANGED <<obj, cache, watch, deps, child, dcache, told, due, op, undone, trouble>>

PodsFail(n) ==
    /\ Trouble
    /\ pods[n]
    /\ pods' = [pods EXCEPT ![n] = FALSE]
    /\ UNCHANGED <<obj, cache, watch, deps, child, dcache, told, due, op, undone>>

-----------------------------------------------------------------------------
(* Reconcile, in steps.                                                    *)

Busy(c) == op[c].pc # "idle"

(* The API server has an Agent or Channel that the cache shows as it was.  *)
Start(c, w, pc, todo, mem) ==
    /\ ~ Busy(c)
    /\ w \in due
    /\ cache[w].state = "live"
    /\ op' = [op EXCEPT ![c] = [pc |-> pc, w |-> w, todo |-> todo, base |-> cache[w],
                                mem |-> mem, result |-> "done"]]
    /\ due' = due \ {w}
    /\ UNCHANGED <<obj, cache, watch, deps, child, pods, dcache, told, undone, trouble>>

(* Nothing to do: the object is gone. *)
ReconcileGone(c, w) ==
    /\ ~ Busy(c)
    /\ w \in due
    /\ cache[w].state # "live"
    /\ due' = due \ {w}
    /\ UNCHANGED <<obj, cache, watch, deps, child, pods, dcache, told, op, undone,
                   trouble>>

(* setAgentFailedStatus, setChannelFailedStatus. *)
SetFailed(o) == [o EXCEPT !.phase = "Failed", !.conds.ready = "False"]

StartAgent(a) == Start("agent", a, "rbac", AgentRBAC(cache[a].spec), cache[a])

(* The Agent is looked up in the cache; the Integration need not be Ready. *)
ChannelResolves(spec) ==
    \/ spec.ref = "unused"
    \/ spec.ref \in Integration /\ deps[spec.ref] # "absent"

StartChannel(ch) ==
    LET spec == cache[ch].spec
        resolved == cache[spec.agent].state = "live" /\ ChannelResolves(spec)
    IN  \/ /\ ~ resolved
           /\ Start("channel", ch, "patch", {}, SetFailed(cache[ch]))
        \/ /\ resolved
           /\ Start("channel", ch, "apply", ChannelChildren(spec), cache[ch])

(* Controller c goes on with its reconcile. *)
Continue(c, pc, todo, mem, result) ==
    /\ op' = [op EXCEPT ![c].pc = pc, ![c].todo = todo, ![c].mem = mem, ![c].result = result]
    /\ UNCHANGED <<obj, cache, watch, deps, child, pods, dcache, told, due, undone,
                   trouble>>

(* Reconcile returns an error, which puts the object on the queue again. *)
ReturnError(c) ==
    /\ op' = [op EXCEPT ![c] = Idle]
    /\ due' = due \cup {op[c].w}
    /\ UNCHANGED <<obj, cache, watch, deps, child, pods, dcache, told, undone>>

(* resolveIntegrations, validateIntegrationsReady, resolveProviders and    *)
(* validateProvidersReady.  Only a missing Integration changes the phase.  *)
ResolveAgent ==
    LET mem == op["agent"].mem
        s == mem.spec
        bound == [mem EXCEPT !.conds.integrations = IF s.integrations = {} THEN @ ELSE "True"]
    IN  /\ op["agent"].pc = "rbac"
        /\ op["agent"].todo = {}
        /\ \/ /\ \E i \in s.integrations : deps[i] = "absent"
              /\ Continue("agent", "patch", {},
                          SetFailed([mem EXCEPT !.conds.integrations = "False"]), "requeue")
           \/ /\ \A i \in s.integrations : deps[i] # "absent"
              /\ \E i \in s.integrations : deps[i] # "ready"
              /\ Continue("agent", "patch", {},
                          [mem EXCEPT !.conds.integrations = "False"], "requeue")
           \/ /\ \A i \in s.integrations : deps[i] = "ready"
              /\ \E p \in s.providers : deps[p] # "ready"
              /\ Continue("agent", "patch", {},
                          [bound EXCEPT !.conds.providers = "False"], "requeue")
           \/ /\ \A d \in s.integrations \cup s.providers : deps[d] = "ready"
              /\ Continue("agent", "apply", AgentChildren(s),
                          [bound EXCEPT !.conds.providers = "True"], "done")

(* The kind that is applied next. *)
IsNext(c, k) ==
    /\ op[c].pc \in {"rbac", "apply"}
    /\ k \in op[c].todo
    /\ \A j \in op[c].todo : Rank[k] <= Rank[j]

(* The fields of a child that come from the spec of its owner. *)
Content(k, spec) ==
    IF k \in {"PVC", "ConfigMap", "Deployment", "Ingress"} THEN spec ELSE None

(* reconcileOwnedResource: create or update, unless another object is the  *)
(* child's controller.  The spec of a PVC is set at its creation only.     *)
ApplyChild(c) ==
    \E k \in Kind :
        LET w == op[c].w
            cur == child[Key(w, k)]
        IN  /\ IsNext(c, k)
            /\ cur.owner \in {None, w}
            /\ WriteChild(Key(w, k),
                  [owner |-> w, spec |-> IF k = "PVC" /\ cur # NoChild
                                           THEN cur.spec ELSE Content(k, op[c].mem.spec)])
            /\ op' = [op EXCEPT ![c].todo = @ \ {k}]
            /\ UNCHANGED <<obj, cache, watch, deps, dcache, undone, trouble>>

(* Mutant: an error in applying a child is passed over. *)
ApplyErrorIgnored(c) ==
    /\ op' = [op EXCEPT ![c].todo = {}]
    /\ UNCHANGED <<obj, cache, watch, deps, child, pods, dcache, told, due, undone>>

(* An error of reconcileAgentRBAC is recorded in the status; any other     *)
(* error leaves the status as it was.                                      *)
ApplyError(c) ==
    \/ /\ op[c].pc = "rbac"
       /\ op' = [op EXCEPT ![c].pc = "patch", ![c].todo = {},
                           ![c].mem = SetFailed(op[c].mem), ![c].result = "error"]
       /\ UNCHANGED <<obj, cache, watch, deps, child, pods, dcache, told, due, undone>>
    \/ /\ op[c].pc = "apply"
       /\ ReturnError(c)

(* SetControllerReference refuses a child of another object, and so does   *)
(* the API server in the case of a Deployment: its selector is immutable.  *)
ApplyConflict(c) ==
    /\ \E k \in Kind : IsNext(c, k) /\ child[Key(op[c].w, k)].owner \notin {None, op[c].w}
    /\ ApplyError(c)
    /\ UNCHANGED trouble

ApplyFails(c) ==
    /\ Trouble
    /\ op[c].todo # {}
    /\ ApplyError(c)

(* Mutant: a replica that is not ready makes the phase NotReady. *)
DaemonNotReady(mem, shown) ==
    [mem EXCEPT !.replicas = shown.ready, !.phase = IF shown.ready THEN "Running" ELSE "NotReady",
                !.conds.ready = IF shown.ready THEN "True" ELSE "False"]

(* The status of a daemon Agent follows the Deployment in the cache; when  *)
(* there is none, the number of replicas is the one reported before.       *)
DaemonStatus(mem, shown) ==
    LET replicas == IF shown.owner = None THEN mem.replicas ELSE shown.ready
    IN  [mem EXCEPT !.replicas = replicas,
                    !.phase = IF replicas THEN "Running" ELSE "Pending",
                    !.conds.ready = IF replicas THEN "True" ELSE "False"]

TaskStatus(mem) == [mem EXCEPT !.phase = "Ready", !.conds.ready = "True"]

FinishAgent ==
    LET mem == op["agent"].mem
        new == IF mem.spec.mode = "task" THEN TaskStatus(mem)
                 ELSE DaemonStatus(mem, dcache[NameOf[op["agent"].w]])
    IN  /\ op["agent"].pc = "apply"
        /\ op["agent"].todo = {}
        /\ Continue("agent", "patch", {}, new,
                    IF new.phase \in Reported THEN "done" ELSE "requeue")

ChannelStatus(mem, shown) ==
    IF shown.owner = None THEN mem
      ELSE [mem EXCEPT !.phase = IF shown.ready THEN "Ready" ELSE "Pending",
                       !.conds.ready = IF shown.ready THEN "True" ELSE "False"]

FinishChannel ==
    LET new == ChannelStatus(op["channel"].mem, dcache[NameOf[op["channel"].w]])
    IN  /\ op["channel"].pc = "apply"
        /\ op["channel"].todo = {}
        /\ Continue("channel", "patch", {}, new, "poll")

(* A JSON merge patch: it carries what differs from the copy that was read *)
(* and no resourceVersion; the list of conditions is one value.            *)
MergeFrom(cur, base, mem) ==
    [cur EXCEPT !.phase = IF mem.phase = base.phase THEN @ ELSE mem.phase,
                !.replicas = IF mem.replicas = base.replicas THEN @ ELSE mem.replicas,
                !.conds = IF mem.conds = base.conds THEN @ ELSE mem.conds]

(* Mutant: nothing is requeued after a patch. *)
PatchAndRest(c) ==
    LET o == op[c]
    IN  /\ o.pc = "patch"
        /\ obj[o.w].state = "live" /\ WriteObj(o.w, MergeFrom(obj[o.w], o.base, o.mem))
        /\ op' = [op EXCEPT ![c] = Idle]
        /\ UNCHANGED <<due, cache, deps, child, pods, dcache, told, undone, trouble>>

(* patchStatus: nothing is sent when nothing changed; a patch of an object *)
(* that is gone is an error.  What is sent comes back as the API server    *)
(* has it then, and that is the phase a Channel's requeue depends on.      *)
PatchStatus(c) ==
    LET o == op[c]
        sent == o.mem # o.base
        gone == obj[o.w].state # "live" /\ sent
        new == MergeFrom(obj[o.w], o.base, o.mem)
        again == \/ o.result \in {"requeue", "error"}
                 \/ o.result = "poll" /\ (IF sent THEN new ELSE o.mem).phase # "Ready"
    IN  /\ o.pc = "patch"
        /\ IF gone THEN UNCHANGED <<obj, watch>> ELSE WriteObj(o.w, new)
        /\ due' = IF gone \/ again THEN due \cup {o.w} ELSE due
        /\ op' = [op EXCEPT ![c] = Idle]
        /\ UNCHANGED <<cache, deps, child, pods, dcache, told, undone, trouble>>

PatchFails(c) ==
    /\ Trouble
    /\ op[c].pc = "patch"
    /\ op[c].mem # op[c].base
    /\ ReturnError(c)

(* The operator restarts: its informers list everything afresh, and every  *)
(* object that exists is put on the queue.                                 *)
OperatorRestarts ==
    /\ Trouble
    /\ op' = [c \in Controller |-> Idle]
    /\ cache' = obj
    /\ watch' = << >>
    /\ dcache' = [n \in Name |-> Actual(n)]
    /\ told' = [n \in Name |-> {}]
    /\ due' = {w \in Workload : obj[w].state = "live"}
    /\ UNCHANGED <<obj, deps, child, pods, undone>>

-----------------------------------------------------------------------------

Begin(w) ==
    \/ w \in Agent /\ (StartAgent(w) \/ ReconcileGone("agent", w))
    \/ w \in Channel /\ (StartChannel(w) \/ ReconcileGone("channel", w))

Step(c) ==
    \/ ApplyChild(c)
    \/ ApplyConflict(c)
    \/ PatchStatus(c)
    \/ c = "agent" /\ (ResolveAgent \/ FinishAgent)
    \/ c = "channel" /\ FinishChannel

Environment ==
    \/ \E w \in Workload : CreateObj(w) \/ EditObj(w) \/ DeleteObj(w)
    \/ \E k \in ChildKey : CollectChild(k) \/ DeleteChild(k)
    \/ \E d \in Dep : ChangeDep(d)
    \/ \E n \in Name : PodsReady(n) \/ PodsFail(n)

Next ==
    \/ Environment
    \/ DeliverObj
    \/ \E n \in Name : DeliverDeployment(n)
    \/ \E w \in Workload : Begin(w)
    \/ \E c \in Controller : Step(c) \/ ApplyFails(c) \/ PatchFails(c)
    \/ OperatorRestarts

Spec == Init /\ [][Next]_vars

(* The queues are first-in first-out, a reconcile that has begun goes on,  *)
(* informers catch up, the garbage collector collects, and the Deployment  *)
(* controller brings pods up.                                              *)
Fairness ==
    /\ \A w \in Workload : SF_vars(Begin(w))
    /\ \A c \in Controller : WF_vars(Step(c))
    /\ WF_vars(DeliverObj)
    /\ WF_vars(\E n \in Name : DeliverDeployment(n))
    /\ WF_vars(\E n \in Name : PodsReady(n))
    /\ WF_vars(\E k \in ChildKey : CollectChild(k))

FairSpec == Spec /\ Fairness

-----------------------------------------------------------------------------
(* Properties.                                                             *)

(* A live object that reports Running or Ready has every child that it     *)
(* needs under any spec, and is their controller, unless a user has        *)
(* deleted that child: no error, crash or object of the same name on the   *)
(* way lets Reconcile vouch for a workload that is not there or belongs to *)
(* somebody else.                                                          *)
ReportedOwnsChildren ==
    \A w \in Workload :
        obj[w].state = "live" /\ obj[w].phase \in Reported =>
            \A k \in CoreOf(w) : Key(w, k) \in undone \/ child[Key(w, k)].owner = w

(* The names that w needs are its own, or free. *)
Unopposed(w) ==
    \A k \in ChildrenOf(w, obj[w].spec) : child[Key(w, k)].owner \in {None, w}

UpToDate(w) ==
    \A k \in ChildrenOf(w, obj[w].spec) :
        /\ child[Key(w, k)].owner = w
        /\ k # "PVC" => child[Key(w, k)].spec = Content(k, obj[w].spec)

(* Once users rest, an Agent whose Integrations and Providers are all      *)
(* Ready has its children in their current form and reports Running (task: *)
(* Ready), whatever was missing or failed before: "Requeue so the agent    *)
(* recovers automatically" (agent_controller.go:104).                      *)
AgentSettles ==
    <>[] \A a \in Agent :
            /\ obj[a].state = "live"
            /\ \A d \in obj[a].spec.integrations \cup obj[a].spec.providers : deps[d] = "ready"
            /\ Unopposed(a)
            => /\ UpToDate(a)
               /\ obj[a].phase = IF obj[a].spec.mode = "task" THEN "Ready" ELSE "Running"
               /\ obj[a].conds.ready = "True"

(* Once users rest, a Channel that is not Failed has its children in their *)
(* current form and reports Ready.  A Failed one may stay Failed: it is    *)
(* not requeued, and neither its Agent nor its Integration is watched.     *)
ChannelSettles ==
    <>[] \A c \in Channel :
            obj[c].state = "live" /\ obj[c].phase # "Failed" /\ Unopposed(c)
            => /\ UpToDate(c)
               /\ obj[c].phase = "Ready"
               /\ obj[c].conds.ready = "True"
=============================================================================
