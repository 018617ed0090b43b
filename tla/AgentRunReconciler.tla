------------------------- MODULE AgentRunReconciler -------------------------
(***************************************************************************)
(* The mode-independent half of the AgentRun reconciler                    *)
(* (internal/controller/agentrun_controller.go): fetching the run and its  *)
(* Agent, labelling, the concurrency policy, and the final status patch.   *)
(* TaskRun and DaemonRun extend it with the two dispatch modes.            *)
(*                                                                         *)
(* One reconcile is in flight at a time (MaxConcurrentReconciles is 1); it *)
(* is cut into steps at its API writes, so that users, Jobs, informers and *)
(* failures interleave with it.  Reads go to the informer cache, which     *)
(* trails the API server by the events in `watch'.                         *)
(***************************************************************************)
EXTENDS Naturals, Sequences, FiniteSets

CONSTANTS
    Run,                \* the AgentRuns of one Agent
    NoRun,              \* "no reconcile in flight"
    CreationTimestamp,  \* [Run -> Nat], in seconds: equal stamps are ties
    Concurrency,        \* the values of agent.spec.concurrency, defaults applied
    AgentStates,        \* which of "pending", "known", "deleted" the Agent goes through
    Deletable,          \* the runs a user may delete
    MaxLag,             \* at most this many AgentRun events are undelivered
    MaxFaults,          \* bound on API errors and operator outages
    MaxEdits            \* bound on edits of agent.spec.concurrency

Policy == {"queue", "reject", "replace"}

ASSUME RunAssumption ==
    /\ IsFiniteSet(Run)
    /\ NoRun \notin Run
    /\ CreationTimestamp \in [Run -> Nat]
    /\ Concurrency # {}
    /\ Concurrency \subseteq [maxRuns : Nat \ {0}, policy : Policy]
    /\ AgentStates \subseteq {"pending", "known", "deleted"}
    /\ Deletable \subseteq Run
    /\ MaxLag \in Nat
    /\ MaxFaults \in Nat
    /\ MaxEdits \in Nat

VARIABLES
    store,   \* the API server's AgentRun objects
    cache,   \* the operator's informer copies of them
    watch,   \* the events between the two, oldest first
    agent,   \* the Agent as the operator's informer shows it
    op,      \* the reconcile in flight
    faults,  \* API errors and outages so far
    edits    \* edits of agent.spec.concurrency so far

runVars == <<store, cache, watch, agent, op, faults, edits>>

Phase == {"", "Pending", "Queued", "Running", "Succeeded", "Failed"}
Terminal == {"Succeeded", "Failed"}
Gone == {"Absent", "Deleted"}    \* not created yet; deleted

(* status.output: empty, one of the reconciler's own messages, or the text *)
(* that the execution of a run produced, named by that run.                *)
Message == {"AgentNotFound", "Rejected", "Cancelled", "TimedOut", "Error"}
Output == {""} \cup Message \cup Run

ASSUME OutputAssumption == Run \cap ({""} \cup Message) = {}

RunObj == [phase : Phase \cup Gone, label : BOOLEAN, output : Output]
Event == [run : Run, obj : RunObj]
NoObj == [phase |-> "Absent", label |-> FALSE, output |-> ""]

Exists(o) == o.phase \notin Gone

(* The reconcile in flight: the step it is about to take, the run, the     *)
(* concurrency settings of the Agent it fetched, the cached copy of the    *)
(* run that its patch is computed against, and the copy it modifies.       *)
Pc == {"idle", "check", "dispatch", "create", "patch"}
Reconcile == [pc : Pc, run : Run \cup {NoRun}, spec : Concurrency,
              base : RunObj, mem : RunObj]
Idle == [pc |-> "idle", run |-> NoRun, spec |-> CHOOSE c \in Concurrency : TRUE,
         base |-> NoObj, mem |-> NoObj]

TypeOK ==
    /\ store \in [Run -> RunObj]
    /\ cache \in [Run -> RunObj]
    /\ watch \in Seq(Event)
    /\ agent \in [state : {"pending", "known", "deleted"}, spec : Concurrency]
    /\ op \in Reconcile
    /\ op.pc # "idle" => op.run \in Run
    /\ faults \in Nat
    /\ edits \in Nat

RunInit ==
    /\ store = [r \in Run |-> NoObj]
    /\ cache = store
    /\ watch = << >>
    /\ agent \in [state : AgentStates \ {"deleted"}, spec : Concurrency]
    /\ op = Idle
    /\ faults = 0
    /\ edits = 0

-----------------------------------------------------------------------------
(* The API server and its informers.                                       *)

(* A write changes the stored object and, unless it is a no-op, sends an   *)
(* event.  The cache never trails by more than MaxLag events: with         *)
(* MaxLag = 0 every read sees every earlier write.                         *)
Write(r, obj) ==
    LET q == IF obj = store[r] THEN watch
                               ELSE Append(watch, [run |-> r, obj |-> obj])
    IN  /\ store' = [store EXCEPT ![r] = obj]
        /\ IF Len(q) > MaxLag
             THEN /\ watch' = Tail(q)
                  /\ cache' = [cache EXCEPT ![Head(q).run] = Head(q).obj]
             ELSE /\ watch' = q
                  /\ cache' = cache

Deliver ==
    /\ watch # << >>
    /\ cache' = [cache EXCEPT ![Head(watch).run] = Head(watch).obj]
    /\ watch' = Tail(watch)
    /\ UNCHANGED <<store, agent, op, faults, edits>>

(* The cached copy of r carries the current resourceVersion. *)
Fresh(r) == \A i \in 1..Len(watch) : watch[i].run # r

(* A JSON merge patch sets the fields in which the modified copy differs   *)
(* from the copy it was made from, and leaves the others as stored.        *)
MergeFrom(cur, base, mem) ==
    [cur EXCEPT
       !.phase  = IF mem.phase = base.phase THEN @ ELSE mem.phase,
       !.output = IF mem.output = base.output THEN @ ELSE mem.output]

(* patchStatus: a patch of a deleted run is an error and changes nothing. *)
PatchStatus(r, base, mem) ==
    IF Exists(store[r])
      THEN Write(r, MergeFrom(store[r], base, mem))
      ELSE UNCHANGED <<store, cache, watch>>

(* Mutant: phase and message swapped. *)
SwappedFailedStatus(o, message) == [o EXCEPT !.phase = message, !.output = "Failed"]

SetRunFailedStatus(o, message) == [o EXCEPT !.phase = "Failed", !.output = message]

-----------------------------------------------------------------------------
(* Users.                                                                  *)

(* Channels, schedules, the console and agents create runs, with or        *)
(* without the agent label, in the order of their timestamps.              *)
CreateRun(r) ==
    /\ store[r].phase = "Absent"
    /\ \A s \in Run : CreationTimestamp[s] < CreationTimestamp[r]
                         => store[s].phase # "Absent"
    /\ \E l \in BOOLEAN : Write(r, [phase |-> "", label |-> l, output |-> ""])
    /\ UNCHANGED <<agent, op, faults, edits>>

DeleteRun(r) ==
    /\ r \in Deletable
    /\ Exists(store[r])
    /\ Write(r, [NoObj EXCEPT !.phase = "Deleted"])
    /\ UNCHANGED <<agent, op, faults, edits>>

AgentAppears ==
    /\ agent.state = "pending"
    /\ "known" \in AgentStates
    /\ agent' = [agent EXCEPT !.state = "known"]
    /\ UNCHANGED <<store, cache, watch, op, faults, edits>>

AgentDeleted ==
    /\ agent.state = "known"
    /\ "deleted" \in AgentStates
    /\ agent' = [agent EXCEPT !.state = "deleted"]
    /\ UNCHANGED <<store, cache, watch, op, faults, edits>>

EditConcurrency ==
    /\ edits < MaxEdits
    /\ \E c \in Concurrency \ {agent.spec} : agent' = [agent EXCEPT !.spec = c]
    /\ edits' = edits + 1
    /\ UNCHANGED <<store, cache, watch, op, faults>>

-----------------------------------------------------------------------------
(* Reconcile, up to the dispatch on the agent's mode.                      *)

(* Mutant: terminal runs are not skipped. *)
BeginAny(r) == op = Idle /\ Exists(cache[r])

Begin(r) ==
    /\ op = Idle
    /\ Exists(cache[r])
    /\ cache[r].phase \notin Terminal

AgentNotFound(r) ==
    /\ Begin(r)
    /\ agent.state # "known"
    /\ op' = [pc |-> "patch", run |-> r, spec |-> agent.spec, base |-> cache[r],
              mem |-> SetRunFailedStatus(cache[r], "AgentNotFound")]
    /\ UNCHANGED <<store, cache, watch, agent, faults, edits>>

Labelled(r) ==
    /\ Begin(r)
    /\ agent.state = "known"
    /\ cache[r].label
    /\ op' = [pc |-> "check", run |-> r, spec |-> agent.spec, base |-> cache[r],
              mem |-> cache[r]]
    /\ UNCHANGED <<store, cache, watch, agent, faults, edits>>

(* Mutant: the label is set on the local copy only. *)
EnsureLabelLocally(r) ==
    /\ Begin(r)
    /\ agent.state = "known"
    /\ ~ cache[r].label
    /\ op' = [pc |-> "check", run |-> r, spec |-> agent.spec, base |-> cache[r],
              mem |-> [cache[r] EXCEPT !.label = TRUE]]
    /\ UNCHANGED <<store, cache, watch, agent, faults, edits>>

(* r.Update carries the cached resourceVersion: from a stale copy it is a  *)
(* conflict, the reconcile returns the error, and nothing has changed.     *)
EnsureLabel(r) ==
    /\ Begin(r)
    /\ agent.state = "known"
    /\ ~ cache[r].label
    /\ Fresh(r)
    /\ Write(r, [cache[r] EXCEPT !.label = TRUE])
    /\ op' = [pc |-> "check", run |-> r, spec |-> agent.spec, base |-> cache[r],
              mem |-> [cache[r] EXCEPT !.label = TRUE]]
    /\ UNCHANGED <<agent, faults, edits>>

(* Mutants: the run counts itself; queued runs count as active. *)
ActiveWithSelf(r) == {s \in Run : cache[s].label /\ cache[s].phase = "Running"}
ActiveOrQueued(r) ==
    {s \in Run \ {r} : cache[s].label /\ cache[s].phase \in {"Running", "Queued"}}

(* The other runs that checkConcurrency counts. *)
Active(r) == {s \in Run \ {r} : cache[s].label /\ cache[s].phase = "Running"}

(* Mutant: off by one. *)
AboveLimit == Cardinality(Active(op.run)) > op.spec.maxRuns

AtLimit == Cardinality(Active(op.run)) >= op.spec.maxRuns

QueueRun ==
    /\ op.pc = "check"
    /\ AtLimit
    /\ op.spec.policy = "queue"
    /\ PatchStatus(op.run, op.base, [op.mem EXCEPT !.phase = "Queued"])
    /\ op' = Idle
    /\ UNCHANGED <<agent, faults, edits>>

RejectRun ==
    /\ op.pc = "check"
    /\ AtLimit
    /\ op.spec.policy = "reject"
    /\ PatchStatus(op.run, op.base, SetRunFailedStatus(op.mem, "Rejected"))
    /\ op' = Idle
    /\ UNCHANGED <<agent, faults, edits>>

(* Mutant: every admitted run is set to Pending. *)
AdmittedAsPending == [op EXCEPT !.pc = "dispatch", !.mem.phase = "Pending"]

(* The initial phase is persisted as Pending at least. *)
Admitted == [op EXCEPT !.pc = "dispatch",
                       !.mem.phase = IF @ = "" THEN "Pending" ELSE @]

Oldest(S) == {s \in S : \A t \in S : CreationTimestamp[s] <= CreationTimestamp[t]}

(* cancelOldestRun patches the oldest active run; if that run is gone the  *)
(* patch fails and the reconcile returns the error.                        *)
CancelOldestRun ==
    /\ op.pc = "check"
    /\ AtLimit
    /\ op.spec.policy = "replace"
    /\ \E o \in Oldest(Active(op.run)) :
          /\ PatchStatus(o, cache[o], SetRunFailedStatus(cache[o], "Cancelled"))
          /\ op' = IF Exists(store[o]) THEN Admitted ELSE Idle
    /\ UNCHANGED <<agent, faults, edits>>

AdmitRun ==
    /\ op.pc = "check"
    /\ ~ AtLimit
    /\ op' = Admitted
    /\ UNCHANGED <<store, cache, watch, agent, faults, edits>>

(* The dispatch to the agent's mode returns, leaving the run as mem. *)
ToPatch(mem) == op' = [op EXCEPT !.pc = "patch", !.mem = mem]

(* The status patch at the end of Reconcile. *)
FinishReconcile ==
    /\ op.pc = "patch"
    /\ PatchStatus(op.run, op.base, op.mem)
    /\ op' = Idle
    /\ UNCHANGED <<agent, faults, edits>>

(* An API call fails, or the operator stops: the reconcile ends where it   *)
(* is.  (A restarted operator also lists afresh: that is Deliver steps.)   *)
AbortReconcile ==
    /\ op # Idle
    /\ faults < MaxFaults
    /\ op' = Idle
    /\ faults' = faults + 1
    /\ UNCHANGED <<store, cache, watch, agent, edits>>

-----------------------------------------------------------------------------

StartReconcile(r) == AgentNotFound(r) \/ Labelled(r) \/ EnsureLabel(r)

CheckConcurrency == QueueRun \/ RejectRun \/ CancelOldestRun \/ AdmitRun

UserStep ==
    \/ \E r \in Run : CreateRun(r) \/ DeleteRun(r)
    \/ AgentAppears
    \/ AgentDeleted
    \/ EditConcurrency

-----------------------------------------------------------------------------
(* Properties of both modes.                                               *)

(* The operator reads runs that are up to MaxLag writes old: with current  *)
(* copies, or unless a policy is replace, checkConcurrency lets at most    *)
(* MaxLag runs more than a limit of the Agent be Running, however often    *)
(* the limit is edited and whichever reconciles fail midway.               *)
SlotsBounded ==
    (MaxLag = 0 \/ \A c \in Concurrency : c.policy # "replace") =>
       \E c \in Concurrency :
          Cardinality({r \in Run : store[r].phase = "Running"}) <= c.maxRuns + MaxLag

(* The end of a run as the operator's cache shows it, with no event of the *)
(* run under way and no reconcile of it in flight.                         *)
EndSeen(r) ==
    /\ store[r].phase \in Terminal
    /\ cache[r] = store[r] /\ Fresh(r)
    /\ op.run # r

(* Once the operator has seen the end of a run, its status is final,       *)
(* however stale the copies of other runs are and whatever fails: Reconcile *)
(* skips the run and cancelOldestRun passes it over.  (A patch from an     *)
(* older copy of the run can still overwrite an end that is not seen yet.) *)
EndSeenStays ==
    [][\A r \in Run : EndSeen(r) =>
          \/ EndSeen(r)' /\ store'[r] = store[r]
          \/ store'[r].phase = "Deleted"]_runVars

(* "queue (FIFO wait)" (README.md): a run starts only if no older run of   *)
(* the same agent is Queued.                                               *)
FIFOWait ==
    [][\A r, s \in Run :
          /\ CreationTimestamp[s] < CreationTimestamp[r]
          /\ store[s].phase = "Queued"
          => ~ (store[r].phase # "Running" /\ store'[r].phase = "Running")]_store

(* Every run that is created ends, or is deleted. *)
EveryRunEnds ==
    \A r \in Run : Exists(store[r]) ~> store[r].phase \in Terminal \cup {"Deleted"}

(* With fresh caches and an unchanged Agent the reconciler implements the  *)
(* abstract slot discipline of RunSlots.                                   *)
Slots == INSTANCE RunSlots WITH
            phase <- [r \in Run |-> store[r].phase],
            limit <- agent.spec.maxRuns
ImplementsSlots == Slots!Spec
=============================================================================
