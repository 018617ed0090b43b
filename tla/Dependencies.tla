---------------------------- MODULE Dependencies ----------------------------
(***************************************************************************)
(* Providers and Integrations, the objects that Agents refer to:           *)
(* internal/controller/provider_controller.go, integration_controller.go.  *)
(* Each is validated, protected from deletion by a finalizer while Agents  *)
(* refer to it, and reconciled again when a watch says so.                 *)
(*                                                                         *)
(* A reconcile reads caches and ends with one write, made in a step of its *)
(* own.  Each kind of object has its own informer: events of one kind come *)
(* in order, those of two kinds do not.  The two controllers have a worker *)
(* each; as neither reads or writes what the other does, one reconcile in  *)
(* flight and one stream of their objects' events stand for both.          *)
(***************************************************************************)
EXTENDS Naturals, Sequences, FiniteSets

CONSTANTS
    Provider, Integration,  \* their names
    Agent, Secret,          \* the Agents and Secrets of the namespace
    NoSecret,               \* the object uses no apiKeySecret
    NoDep,                  \* "no reconcile in flight"
    MaxLag,                 \* at most this many events of a kind are undelivered
    MaxEdits,               \* bound on what users do
    MaxFaults               \* bound on API errors and restarts

Dep == Provider \cup Integration

ASSUME DepAssumption ==
    /\ Provider \cap Integration = {}
    /\ IsFiniteSet(Agent)
    /\ NoDep \notin Dep
    /\ NoSecret \notin Secret
    /\ MaxLag \in Nat \ {0}
    /\ MaxEdits \in Nat
    /\ MaxFaults \in Nat

VARIABLES
    dep,           \* the Providers and Integrations, as stored
    depCache,      \* the operator's informer copies of them
    depEvents,     \* the events between the two, oldest first
    refs,          \* the objects that each Agent refers to
    refsCache,     \* what the Agent informer shows of that
    refsEvents,    \* and the events in between
    secrets,       \* the Secrets that exist and have the key
    secretsCache, secretsEvents,
    due,           \* the work queue
    op,            \* the reconcile in flight
    kept,          \* history: see DeleteDep
    edits, faults

depVars == <<dep, depCache, depEvents>>
refsVars == <<refs, refsCache, refsEvents>>
secretVars == <<secrets, secretsCache, secretsEvents>>
vars == <<dep, depCache, depEvents, refs, refsCache, refsEvents,
          secrets, secretsCache, secretsEvents, due, op, kept, edits, faults>>

(* spec: validateConfig (validateResource) accepts it; the apiKeySecret. *)
DepSpec == [valid : BOOLEAN, secret : Secret \cup {NoSecret}]
DepObj == [state : {"absent", "live", "deleting"}, fin : BOOLEAN, spec : DepSpec,
           phase : {"", "Ready", "Failed"}, bound : Nat]
NoObj == [state |-> "absent", fin |-> FALSE,
          spec |-> [valid |-> FALSE, secret |-> NoSecret], phase |-> "", bound |-> 0]

Event(Name, Value) == [name : Name, value : Value]

(* fresh: the copy that was read still has the current resourceVersion. *)
Reconcile == [pc : {"idle", "update", "patch"}, dep : Dep \cup {NoDep},
              base : DepObj, mem : DepObj, fresh : BOOLEAN]
Idle == [pc |-> "idle", dep |-> NoDep, base |-> NoObj, mem |-> NoObj, fresh |-> FALSE]

TypeOK ==
    /\ dep \in [Dep -> DepObj]
    /\ depCache \in [Dep -> DepObj]
    /\ depEvents \in Seq(Event(Dep, DepObj))
    /\ refs \in [Agent -> SUBSET Dep]
    /\ refsCache \in [Agent -> SUBSET Dep]
    /\ refsEvents \in Seq(Event(Agent, SUBSET Dep))
    /\ secrets \in [Secret -> BOOLEAN]
    /\ secretsCache \in [Secret -> BOOLEAN]
    /\ secretsEvents \in Seq(Event(Secret, BOOLEAN))
    /\ due \subseteq Dep
    /\ op \in Reconcile
    /\ op.pc # "idle" => op.dep \in Dep
    /\ kept \in [Dep -> SUBSET Agent]
    /\ edits \in Nat
    /\ faults \in Nat

Init ==
    /\ dep = [d \in Dep |-> NoObj]
    /\ depCache = dep
    /\ depEvents = << >>
    /\ refs \in [Agent -> SUBSET Dep]   \* the Agents may be there first
    /\ refsCache = refs
    /\ refsEvents = << >>
    /\ secrets \in [Secret -> BOOLEAN]
    /\ secretsCache = secrets
    /\ secretsEvents = << >>
    /\ due = {}
    /\ op = Idle
    /\ kept = [d \in Dep |-> {}]
    /\ edits = 0
    /\ faults = 0

-----------------------------------------------------------------------------
(* Informers.                                                              *)

Pending(events, x) == {i \in 1..Len(events) : events[i].name = x}

(* Store obj, unless that changes nothing. *)
WriteDep(d, obj) ==
    IF obj = dep[d]
      THEN UNCHANGED <<dep, depEvents>>
      ELSE /\ Len(depEvents) < MaxLag
           /\ dep' = [dep EXCEPT ![d] = obj]
           /\ depEvents' = Append(depEvents, [name |-> d, value |-> obj])

(* For(): every event about an object puts it on the work queue. *)
DeliverDep ==
    /\ depEvents # << >>
    /\ LET e == Head(depEvents)
       IN  /\ depCache' = [depCache EXCEPT ![e.name] = e.value]
           /\ due' = due \cup {e.name}
    /\ depEvents' = Tail(depEvents)
    /\ UNCHANGED <<dep, refsVars, secretVars, op, kept, edits, faults>>

(* Mutant: only the new references are looked at. *)
NewReferences(old, new) == new \cap Provider

(* agentToProviderRequests, for the old and the new object of an update.   *)
(* There is no such watch for Integrations.                                *)
AgentToProviderRequests(old, new) == (old \cup new) \cap Provider

DeliverRefs ==
    /\ refsEvents # << >>
    /\ LET e == Head(refsEvents)
       IN  /\ refsCache' = [refsCache EXCEPT ![e.name] = e.value]
           /\ due' = due \cup AgentToProviderRequests(refsCache[e.name], e.value)
    /\ refsEvents' = Tail(refsEvents)
    /\ UNCHANGED <<depVars, refs, secretVars, op, kept, edits, faults>>

SecretToProviderRequests(s) ==
    {d \in Provider : depCache[d].state # "absent" /\ depCache[d].spec.secret = s}

DeliverSecret ==
    /\ secretsEvents # << >>
    /\ LET e == Head(secretsEvents)
       IN  /\ secretsCache' = [secretsCache EXCEPT ![e.name] = e.value]
           /\ due' = due \cup SecretToProviderRequests(e.name)
    /\ secretsEvents' = Tail(secretsEvents)
    /\ UNCHANGED <<depVars, refsVars, secrets, op, kept, edits, faults>>

-----------------------------------------------------------------------------
(* Users.                                                                  *)

UserEdit ==
    /\ edits < MaxEdits
    /\ edits' = edits + 1

SpecOf(d) == {s \in DepSpec : d \in Integration => s.secret = NoSecret}

(* Somebody other than the reconcile in flight writes d: its copy is old. *)
Overtake(d) == op' = IF op.dep = d THEN [op EXCEPT !.fresh = FALSE] ELSE op

CreateDep(d) ==
    /\ UserEdit
    /\ dep[d].state = "absent"
    /\ \E s \in SpecOf(d) :
          WriteDep(d, [NoObj EXCEPT !.state = "live", !.spec = s])
    /\ Overtake(d)
    /\ UNCHANGED <<depCache, refsVars, secretVars, due, kept, faults>>

EditDep(d) ==
    /\ UserEdit
    /\ dep[d].state # "absent"
    /\ \E s \in SpecOf(d) \ {dep[d].spec} : WriteDep(d, [dep[d] EXCEPT !.spec = s])
    /\ Overtake(d)
    /\ UNCHANGED <<depCache, refsVars, secretVars, due, kept, faults>>

(* Agent a refers to d, and the operator has seen it. *)
Known(a, d) ==
    /\ d \in refs[a] \cap refsCache[a]
    /\ \A i \in Pending(refsEvents, a) : d \in refsEvents[i].value

(* The API server marks an object with a finalizer and removes any other   *)
(* at once.  kept[d] are the Agents that were known to refer to d when its *)
(* deletion was asked for and have referred to it ever since.              *)
DeleteDep(d) ==
    /\ UserEdit
    /\ dep[d].state = "live"
    /\ WriteDep(d, IF dep[d].fin THEN [dep[d] EXCEPT !.state = "deleting"] ELSE NoObj)
    /\ kept' = [kept EXCEPT ![d] =
                  IF dep[d].fin THEN {a \in Agent : Known(a, d)} ELSE {}]
    /\ Overtake(d)
    /\ UNCHANGED <<depCache, refsVars, secretVars, due, faults>>

(* An Agent is created, edited or deleted. *)
SetRefs(a) ==
    /\ UserEdit
    /\ Len(refsEvents) < MaxLag
    /\ \E S \in SUBSET Dep \ {refs[a]} :
          /\ refs' = [refs EXCEPT ![a] = S]
          /\ refsEvents' = Append(refsEvents, [name |-> a, value |-> S])
          /\ kept' = [d \in Dep |-> IF d \in S THEN kept[d] ELSE kept[d] \ {a}]
    /\ UNCHANGED <<depVars, refsCache, secretVars, due, op, faults>>

SetSecret(s) ==
    /\ UserEdit
    /\ Len(secretsEvents) < MaxLag
    /\ secrets' = [secrets EXCEPT ![s] = ~ @]
    /\ secretsEvents' = Append(secretsEvents, [name |-> s, value |-> ~ secrets[s]])
    /\ UNCHANGED <<depVars, refsVars, secretsCache, due, op, kept, faults>>

-----------------------------------------------------------------------------
(* Reconcile.                                                              *)

(* countBoundAgents lists the Agents in the cache. *)
BoundAgents(d) == {a \in Agent : d \in refsCache[a]}

ValidateSecret(spec) == spec.secret = NoSecret \/ secretsCache[spec.secret]

(* Mutant: a phase that the API does not have. *)
ReconciledNotReady(d, o) ==
    [o EXCEPT !.phase = IF o.spec.valid /\ ValidateSecret(o.spec)
                          THEN "Ready" ELSE "NotReady",
              !.bound = IF d \in Provider THEN Cardinality(BoundAgents(d)) ELSE @]

(* The status that Reconcile computes for an object that is not deleted. *)
ReconciledStatus(d, o) ==
    [o EXCEPT !.phase = IF o.spec.valid /\ ValidateSecret(o.spec)
                          THEN "Ready" ELSE "Failed",
              !.bound = IF d \in Provider THEN Cardinality(BoundAgents(d)) ELSE @]

(* The reconcile of d has read its caches and is about to write mem. *)
Start(d, pc, mem) ==
    /\ op.pc = "idle"
    /\ d \in due
    /\ op' = [pc |-> pc, dep |-> d, base |-> depCache[d], mem |-> mem,
              fresh |-> Pending(depEvents, d) = {}]
    /\ due' = due \ {d}
    /\ UNCHANGED <<depVars, refsVars, secretVars, kept, edits, faults>>

(* Nothing to do: the object is gone. *)
ReconcileAbsent(d) ==
    /\ op.pc = "idle"
    /\ d \in due
    /\ depCache[d].state = "absent"
    /\ due' = due \ {d}
    /\ UNCHANGED <<depVars, refsVars, secretVars, op, kept, edits, faults>>

AddFinalizer(d) ==
    /\ depCache[d].state = "live"
    /\ ~ depCache[d].fin
    /\ Start(d, "update", [depCache[d] EXCEPT !.fin = TRUE])

(* Mutant: the finalizer is not added first. *)
ReconcileUnprotected(d) ==
    /\ depCache[d].state = "live"
    /\ Start(d, "patch", ReconciledStatus(d, depCache[d]))

ReconcileLive(d) ==
    /\ depCache[d].state = "live"
    /\ depCache[d].fin
    /\ Start(d, "patch", ReconciledStatus(d, depCache[d]))

(* Mutant: one Agent is not enough to block. *)
RemoveFinalizerEarly(d) ==
    /\ depCache[d].state = "deleting"
    /\ Cardinality(BoundAgents(d)) <= 1
    /\ Start(d, "update", [depCache[d] EXCEPT !.fin = FALSE])

RemoveFinalizer(d) ==
    /\ depCache[d].state = "deleting"
    /\ BoundAgents(d) = {}
    /\ Start(d, "update", [depCache[d] EXCEPT !.fin = FALSE])

DeletionBlocked(d) ==
    /\ depCache[d].state = "deleting"
    /\ BoundAgents(d) # {}
    /\ Start(d, "patch",
             [depCache[d] EXCEPT
                !.bound = IF d \in Provider THEN Cardinality(BoundAgents(d)) ELSE @])

(* r.Update: a conflict unless the copy is current.  The API server        *)
(* removes an object that is being deleted with its last finalizer.        *)
UpdateDep ==
    /\ op.pc = "update"
    /\ IF op.fresh
         THEN /\ WriteDep(op.dep, IF op.mem.state = "deleting" THEN NoObj ELSE op.mem)
              /\ due' = due
         ELSE /\ UNCHANGED <<dep, depEvents>>
              /\ due' = due \cup {op.dep}
    /\ op' = Idle
    /\ UNCHANGED <<depCache, refsVars, secretVars, kept, edits, faults>>

MergeFrom(cur, base, mem) ==
    [cur EXCEPT !.phase = IF mem.phase = base.phase THEN @ ELSE mem.phase,
                !.bound = IF mem.bound = base.bound THEN @ ELSE mem.bound]

(* Mutant: a blocked deletion is not looked at again. *)
PatchWithoutRequeue ==
    /\ op.pc = "patch"
    /\ IF dep[op.dep].state # "absent"
         THEN WriteDep(op.dep, MergeFrom(dep[op.dep], op.base, op.mem))
         ELSE UNCHANGED <<dep, depEvents>>
    /\ due' = due
    /\ op' = Idle
    /\ UNCHANGED <<depCache, refsVars, secretVars, kept, edits, faults>>

(* patchStatus sends no empty patch, and carries no resourceVersion.  A    *)
(* patch of an absent object is an error; an error and a blocked deletion  *)
(* put the object on the queue again.                                      *)
PatchDep ==
    /\ op.pc = "patch"
    /\ IF dep[op.dep].state # "absent"
         THEN /\ WriteDep(op.dep, MergeFrom(dep[op.dep], op.base, op.mem))
              /\ due' = IF op.base.state = "deleting" THEN due \cup {op.dep} ELSE due
         ELSE /\ UNCHANGED <<dep, depEvents>>
              /\ due' = IF op.mem = op.base /\ op.base.state = "live"
                          THEN due ELSE due \cup {op.dep}
    /\ op' = Idle
    /\ UNCHANGED <<depCache, refsVars, secretVars, kept, edits, faults>>

(* The write fails: the reconcile returns the error and is repeated. *)
WriteFails ==
    /\ op.pc # "idle"
    /\ faults < MaxFaults
    /\ faults' = faults + 1
    /\ op' = Idle
    /\ due' = due \cup {op.dep}
    /\ UNCHANGED <<depVars, refsVars, secretVars, kept, edits>>

(* The operator restarts: its informers list everything afresh, and every  *)
(* object that exists is put on the queue.                                 *)
OperatorRestarts ==
    /\ faults < MaxFaults
    /\ faults' = faults + 1
    /\ op' = Idle
    /\ depCache' = dep /\ depEvents' = << >>
    /\ refsCache' = refs /\ refsEvents' = << >>
    /\ secretsCache' = secrets /\ secretsEvents' = << >>
    /\ due' = {d \in Dep : dep[d].state # "absent"}
    /\ UNCHANGED <<dep, refs, secrets, kept, edits>>

-----------------------------------------------------------------------------

ReconcileDep(d) ==
    \/ ReconcileAbsent(d)
    \/ AddFinalizer(d)
    \/ ReconcileLive(d)
    \/ RemoveFinalizer(d)
    \/ DeletionBlocked(d)

UserStep ==
    \/ \E d \in Dep : CreateDep(d) \/ EditDep(d) \/ DeleteDep(d)
    \/ \E a \in Agent : SetRefs(a)
    \/ \E s \in Secret : SetSecret(s)

Next ==
    \/ UserStep
    \/ DeliverDep
    \/ DeliverRefs
    \/ DeliverSecret
    \/ \E d \in Dep : ReconcileDep(d)
    \/ UpdateDep
    \/ PatchDep
    \/ WriteFails
    \/ OperatorRestarts

Spec == Init /\ [][Next]_vars

(* The queue is first-in first-out, a reconcile that has begun goes on,    *)
(* and informers catch up.                                                 *)
Fairness ==
    /\ \A d \in Dep : SF_vars(ReconcileDep(d))
    /\ WF_vars(UpdateDep)
    /\ WF_vars(PatchDep)
    /\ WF_vars(DeliverDep)
    /\ WF_vars(DeliverRefs)
    /\ WF_vars(DeliverSecret)

FairSpec == Spec /\ Fairness

-----------------------------------------------------------------------------
(* Properties.                                                             *)

(* However stale the caches, an object with the finalizer is not removed   *)
(* while an Agent refers to it that was known to do so when the deletion   *)
(* was asked for (reconcileDelete: "preventing silent breakage of running  *)
(* agents").                                                               *)
HeldWhileInUse == \A d \in Dep : kept[d] # {} => dep[d].state = "deleting"

(* An object that has been given a phase carries the finalizer, also when  *)
(* an object of the same name was there before: a late status patch never  *)
(* vouches for an object that could vanish at once.                        *)
ReportedIsProtected == \A d \in Dep : dep[d].phase # "" => dep[d].fin

(* Once users rest, each Provider and Integration has its finalizer, its   *)
(* phase says whether its configuration is valid and its Secret exists,    *)
(* and a Provider's boundAgents is the number of Agents that refer to it:  *)
(* no event that matters is missed, whatever the order of delivery.        *)
StatusSettles ==
    <>[] \A d \in Dep :
            dep[d].state = "live" =>
               /\ dep[d].fin
               /\ dep[d].phase =
                     IF /\ dep[d].spec.valid
                        /\ dep[d].spec.secret = NoSecret \/ secrets[dep[d].spec.secret]
                       THEN "Ready" ELSE "Failed"
               /\ d \in Provider =>
                     dep[d].bound = Cardinality({a \in Agent : d \in refs[a]})

(* Once users rest, nothing that was deleted stays, unless it is in use. *)
UnusedIsRemoved ==
    <>[] \A d \in Dep :
            dep[d].state = "deleting" => \E a \in Agent : d \in refs[a]
=============================================================================
