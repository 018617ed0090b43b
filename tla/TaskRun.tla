------------------------------- MODULE TaskRun -------------------------------
(***************************************************************************)
(* Task-mode AgentRuns: reconcileTaskRun of agentrun_controller.go, the    *)
(* Jobs it creates (internal/resources/agent_job.go) and the Kubernetes    *)
(* Job controller that runs, finishes and garbage-collects them.           *)
(***************************************************************************)
EXTENDS AgentRunReconciler

CONSTANT GitRuns    \* the runs with spec.git

ASSUME GitAssumption == GitRuns \subseteq Run

VARIABLES
    job,          \* the Job named after each run, as stored
    jobCache,     \* the operator's informer copy of it
    runConfig,    \* the runs whose per-run ConfigMap exists
    configReady,  \* the Agent's base ConfigMap exists
    execs,        \* Jobs created for each run so far: 0, 1 or "2 or more"
    results       \* how the Jobs of each run have ended so far

jobVars == <<job, jobCache, runConfig, configReady, execs, results>>
vars == <<store, cache, watch, agent, op, faults, edits,
          job, jobCache, runConfig, configReady, execs, results>>

JobState == {"none", "active", "succeeded", "failed"}
Finished == {"succeeded", "failed"}
ExecCap == 2

TaskTypeOK ==
    /\ TypeOK
    /\ job \in [Run -> JobState]
    /\ jobCache \in [Run -> JobState]
    /\ runConfig \subseteq GitRuns
    /\ configReady \in BOOLEAN
    /\ execs \in [Run -> 0..ExecCap]
    /\ results \in [Run -> SUBSET Finished]

Init ==
    /\ RunInit
    /\ job = [r \in Run |-> "none"]
    /\ jobCache = job
    /\ runConfig = {}
    /\ configReady = (GitRuns = {})
    /\ execs = [r \in Run |-> 0]
    /\ results = [r \in Run |-> {}]

-----------------------------------------------------------------------------
(* Jobs.                                                                   *)

(* A Job changes; its informer sees that at once only if nothing lags. *)
SetJob(r, s) ==
    /\ job' = [job EXCEPT ![r] = s]
    /\ jobCache' = IF MaxLag = 0 THEN job' ELSE jobCache

DeliverJob(r) ==
    /\ jobCache[r] # job[r]
    /\ jobCache' = [jobCache EXCEPT ![r] = job[r]]
    /\ UNCHANGED <<runVars, job, runConfig, configReady, execs, results>>

(* BackoffLimit is 0 and ActiveDeadlineSeconds is set: a Job ends, once. *)
JobEnds(r) ==
    /\ job[r] = "active"
    /\ \E s \in Finished :
          /\ SetJob(r, s)
          /\ results' = [results EXCEPT ![r] = @ \cup {s}]
    /\ UNCHANGED <<runVars, runConfig, configReady, execs>>

(* TTLSecondsAfterFinished is 120: long enough for a working operator to   *)
(* see the end of a Job (and much longer than a reconcile), unless the run *)
(* is Queued, where the Job is not looked at.  Otherwise it takes an       *)
(* outage to lose a finished Job.                                          *)
JobExpires(r) ==
    /\ job[r] \in Finished
    /\ \/ /\ store[r].phase \in Terminal \cup {"Queued"}
          /\ op.run # r
          /\ faults' = faults
       \/ faults < MaxFaults /\ faults' = faults + 1
    /\ SetJob(r, "none")
    /\ UNCHANGED <<store, cache, watch, agent, op, edits,
                   runConfig, configReady, execs, results>>

(* The run owns its Job and ConfigMap: they are collected after it. *)
CollectOwned(r) ==
    /\ store[r].phase = "Deleted"
    /\ job[r] # "none" \/ r \in runConfig
    /\ SetJob(r, "none")
    /\ runConfig' = runConfig \ {r}
    /\ UNCHANGED <<runVars, configReady, execs, results>>

(* The Agent reconciler writes the base ConfigMap. *)
BaseConfigWritten ==
    /\ ~ configReady
    /\ configReady' = TRUE
    /\ UNCHANGED <<runVars, job, jobCache, runConfig, execs, results>>

-----------------------------------------------------------------------------
(* reconcileTaskRun.                                                       *)

(* The Integration of a git run is missing or cannot be resolved. *)
GitWorkspaceError ==
    /\ op.pc = "dispatch"
    /\ jobCache[op.run] = "none"
    /\ op.run \in GitRuns
    /\ ToPatch(SetRunFailedStatus(op.mem, "Error"))
    /\ UNCHANGED <<store, cache, watch, agent, faults, edits, jobVars>>

(* The Agent's ConfigMap is missing: an error, after the status patch. *)
BaseConfigMissing ==
    /\ op.pc = "dispatch"
    /\ jobCache[op.run] = "none"
    /\ op.run \in GitRuns
    /\ ~ configReady
    /\ ToPatch(op.mem)
    /\ UNCHANGED <<store, cache, watch, agent, faults, edits, jobVars>>

(* Mutant: the per-run ConfigMap is not created. *)
SkipRunConfig ==
    /\ op.pc = "dispatch"
    /\ jobCache[op.run] = "none"
    /\ op' = [op EXCEPT !.pc = "create"]
    /\ UNCHANGED <<store, cache, watch, agent, faults, edits, jobVars>>

(* No Job: a git run first gets its own ConfigMap, or keeps the one of an  *)
(* earlier attempt.                                                        *)
CreateRunConfig ==
    /\ op.pc = "dispatch"
    /\ jobCache[op.run] = "none"
    /\ op.run \in GitRuns => configReady
    /\ runConfig' = runConfig \cup ({op.run} \cap GitRuns)
    /\ op' = [op EXCEPT !.pc = "create"]
    /\ UNCHANGED <<store, cache, watch, agent, faults, edits,
                   job, jobCache, configReady, execs, results>>

(* Mutant: the phase is not set to Running. *)
CreateJobSilently ==
    /\ op.pc = "create"
    /\ IF job[op.run] = "none"
         THEN /\ SetJob(op.run, "active")
              /\ execs' = [execs EXCEPT ![op.run] = IF @ < ExecCap THEN @ + 1 ELSE @]
         ELSE UNCHANGED <<job, jobCache, execs>>
    /\ ToPatch(op.mem)
    /\ UNCHANGED <<store, cache, watch, agent, faults, edits,
                   runConfig, configReady, results>>

(* Mutant: every Job gets a name of its own. *)
CreateJobUnnamed ==
    /\ op.pc = "create"
    /\ SetJob(op.run, "active")
    /\ execs' = [execs EXCEPT ![op.run] = IF @ < ExecCap THEN @ + 1 ELSE @]
    /\ ToPatch([op.mem EXCEPT !.phase = "Running"])
    /\ UNCHANGED <<store, cache, watch, agent, faults, edits,
                   runConfig, configReady, results>>

(* Create the Job, or find that it exists already. *)
CreateJob ==
    /\ op.pc = "create"
    /\ IF job[op.run] = "none"
         THEN /\ SetJob(op.run, "active")
              /\ execs' = [execs EXCEPT ![op.run] = IF @ < ExecCap THEN @ + 1 ELSE @]
         ELSE UNCHANGED <<job, jobCache, execs>>
    /\ ToPatch([op.mem EXCEPT !.phase = "Running"])
    /\ UNCHANGED <<store, cache, watch, agent, faults, edits,
                   runConfig, configReady, results>>

(* The API server refuses the Job: the error is returned after the patch. *)
CreateJobFails ==
    /\ op.pc = "create"
    /\ faults < MaxFaults
    /\ faults' = faults + 1
    /\ ToPatch(op.mem)
    /\ UNCHANGED <<store, cache, watch, agent, edits, jobVars>>

(* Mutants: the output is not recorded; a Job that ended counts as success. *)
ObserveJobNoOutput ==
    /\ op.pc = "dispatch"
    /\ \/ /\ jobCache[op.run] = "succeeded"
          /\ ToPatch([op.mem EXCEPT !.phase = "Succeeded"])
       \/ /\ jobCache[op.run] = "failed"
          /\ ToPatch(SetRunFailedStatus(op.mem, op.run))
    /\ UNCHANGED <<store, cache, watch, agent, faults, edits, jobVars>>

ObserveJobEnded ==
    /\ op.pc = "dispatch"
    /\ jobCache[op.run] \in Finished
    /\ ToPatch([op.mem EXCEPT !.phase = "Succeeded", !.output = op.run])
    /\ UNCHANGED <<store, cache, watch, agent, faults, edits, jobVars>>

(* The Job exists: its end decides the phase; while it runs the phase is   *)
(* left as it is.                                                          *)
ObserveJob ==
    /\ op.pc = "dispatch"
    /\ \/ /\ jobCache[op.run] = "succeeded"
          /\ ToPatch([op.mem EXCEPT !.phase = "Succeeded", !.output = op.run])
       \/ /\ jobCache[op.run] = "failed"
          /\ ToPatch(SetRunFailedStatus(op.mem, op.run))
       \/ /\ jobCache[op.run] = "active"
          /\ ToPatch(op.mem)
    /\ UNCHANGED <<store, cache, watch, agent, faults, edits, jobVars>>

ReconcileTaskRun ==
    \/ GitWorkspaceError
    \/ BaseConfigMissing
    \/ CreateRunConfig
    \/ CreateJob
    \/ CreateJobFails
    \/ ObserveJob

-----------------------------------------------------------------------------

Shared ==
    \/ UserStep
    \/ Deliver
    \/ \E r \in Run : StartReconcile(r)
    \/ CheckConcurrency
    \/ FinishReconcile
    \/ AbortReconcile

Next ==
    \/ Shared /\ UNCHANGED jobVars
    \/ ReconcileTaskRun
    \/ BaseConfigWritten
    \/ \E r \in Run : DeliverJob(r) \/ JobEnds(r) \/ JobExpires(r) \/ CollectOwned(r)

Spec == Init /\ [][Next]_vars

(* The work queue is first-in first-out and every unfinished run is put    *)
(* back on it (by RequeueAfter, by an error, or by the list at start-up),  *)
(* so each run is reconciled again and again; a reconcile that has begun   *)
(* goes on; informers catch up; Jobs have a deadline; the Agent            *)
(* reconciler writes the base ConfigMap.                                   *)
Fairness ==
    /\ \A r \in Run :
          /\ SF_vars(StartReconcile(r) /\ UNCHANGED jobVars)
          /\ WF_vars(JobEnds(r))
          /\ WF_vars(DeliverJob(r))
    /\ WF_vars(CheckConcurrency /\ UNCHANGED jobVars)
    /\ WF_vars(ReconcileTaskRun)
    /\ WF_vars(FinishReconcile /\ UNCHANGED jobVars)
    /\ WF_vars(Deliver /\ UNCHANGED jobVars)
    /\ WF_vars(BaseConfigWritten)

FairSpec == Spec /\ Fairness

-----------------------------------------------------------------------------
(* Properties.                                                             *)

(* Whatever the caches and the failures do, a run is reported Succeeded    *)
(* only if a Job of it really succeeded (reconcileTaskRun's reading of     *)
(* Job.Status), never on the word of a stale copy of another state.        *)
SucceededIsReal ==
    \A r \in Run : store[r].phase = "Succeeded" => "succeeded" \in results[r]

(* A Running run carries the agent label, without which checkConcurrency   *)
(* would not count it, and its Job has been created.                       *)
RunningIsCounted ==
    \A r \in Run : store[r].phase = "Running" => store[r].label /\ execs[r] > 0

(* The Job of a git run never starts before its per-run ConfigMap exists,  *)
(* also when an attempt dies between the two Creates and is repeated.      *)
GitJobHasConfig ==
    \A r \in GitRuns : Exists(store[r]) /\ job[r] # "none" => r \in runConfig

(* With fresh caches and no failure, maxRuns also bounds the Jobs that are *)
(* executing (under replace the cancelled run's Job goes on).              *)
JobsWithinLimit ==
    faults = 0 /\ agent.spec.policy # "replace" =>
       Cardinality({r \in Run : Exists(store[r]) /\ job[r] = "active"})
          <= agent.spec.maxRuns

(* With fresh caches, no failure and an unchanged Agent, an AgentRun is    *)
(* executed at most once, and while it is Running its Job exists.          *)
SingleExecution ==
    faults = 0 =>
       \A r \in Run : Exists(store[r]) =>
          /\ execs[r] <= 1
          /\ store[r].phase = "Running" => job[r] # "none"

(* CreateJob goes by the name of the run, so that a stale or failed look   *)
(* at the Job never starts a second one beside it: however stale the       *)
(* copies and whatever fails, a run gets another Job only after one of its *)
(* Jobs has ended.                                                         *)
ReexecutedAfterEnd ==
    \A r \in Run : Exists(store[r]) /\ execs[r] > 1 => results[r] # {}

(* Patches from stale copies may mix their fields.  Still no run is ever   *)
(* Succeeded or Failed without a text that says why, and a text that is    *)
(* the output of a run is that of a Job of its own that has ended.         *)
EndIsExplained ==
    \A r \in Run :
       /\ store[r].phase \in Terminal => store[r].output # ""
       /\ store[r].output \in Run => store[r].output = r /\ results[r] # {}

(* "an AgentRun records a single execution request; re-running requires    *)
(* creating a new AgentRun" (api/v1alpha1/agentrun_types.go).              *)
ExecutedOnce == \A r \in Run : Exists(store[r]) => execs[r] <= 1

=============================================================================
