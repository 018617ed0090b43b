---------------------------- MODULE TaskRunProofs ----------------------------
(***************************************************************************)
(* Proofs about TaskRun, for any set of runs, limit and policy, and for    *)
(* any lag of the caches and number of failures, lost Jobs, deletions and  *)
(* edits of the Agent.                                                     *)
(***************************************************************************)
EXTENDS TaskRun, ReconcilerProofs

LEMMA SharedStep == Shared <=> ReconcilerStep
BY DEF Shared, ReconcilerStep

-----------------------------------------------------------------------------
(* Type correctness.                                                       *)

LEMMA InitType == Init => TaskTypeOK
<1> SUFFICES ASSUME Init PROVE TaskTypeOK
  OBVIOUS
<1>1. TypeOK
  BY RunInitType DEF Init
<1>2. execs \in [Run -> 0..ExecCap]
  BY DEF Init, ExecCap
<1>3. job \in [Run -> JobState] /\ jobCache \in [Run -> JobState]
  BY DEF Init, JobState
<1>4. results \in [Run -> SUBSET Finished]
  BY DEF Init
<1> QED
  BY <1>1, <1>2, <1>3, <1>4 DEF TaskTypeOK, Init

(* The parts of TaskTypeOK that the Job variables make up. *)
JobTypeOK ==
    /\ job \in [Run -> JobState]
    /\ jobCache \in [Run -> JobState]
    /\ runConfig \subseteq GitRuns
    /\ configReady \in BOOLEAN
    /\ execs \in [Run -> 0..ExecCap]
    /\ results \in [Run -> SUBSET Finished]

LEMMA SetJobType ==
    ASSUME JobTypeOK, NEW r \in Run, NEW s \in JobState, SetJob(r, s)
    PROVE  job' \in [Run -> JobState] /\ jobCache' \in [Run -> JobState]
BY DEF SetJob, JobTypeOK

(* The steps of reconcileTaskRun. *)
LEMMA ReconcileTaskRunType ==
    ASSUME TypeOK, JobTypeOK, ReconcileTaskRun
    PROVE  TypeOK' /\ JobTypeOK'
<1>1. op.pc # "idle" /\ op.run \in Run /\ op.mem \in RunObj
  BY DEF TypeOK, Reconcile, ReconcileTaskRun, GitWorkspaceError, BaseConfigMissing,
         CreateRunConfig, CreateJob, CreateJobFails, ObserveJob
<1>2. CASE GitWorkspaceError
  <2>1. SetRunFailedStatus(op.mem, "Error") \in RunObj
    BY <1>1, FailedType DEF Output, Message
  <2> QED
    BY <1>1, <1>2, <2>1, ToPatchType DEF GitWorkspaceError, TypeOK, JobTypeOK, jobVars
<1>3. CASE BaseConfigMissing
  BY <1>1, <1>3, ToPatchType DEF BaseConfigMissing, TypeOK, JobTypeOK, jobVars
<1>4. CASE CreateRunConfig
  <2>1. op' \in Reconcile /\ op'.run \in Run
    BY <1>1, <1>4 DEF CreateRunConfig, TypeOK, Reconcile, Pc
  <2> QED
    BY <1>4, <2>1 DEF CreateRunConfig, TypeOK, JobTypeOK
<1>5. CASE CreateJob
  <2>1. [op.mem EXCEPT !.phase = "Running"] \in RunObj
    BY <1>1 DEF RunObj, Phase
  <2>2. op' \in Reconcile /\ op'.run \in Run
    BY <1>1, <1>5, <2>1, ToPatchType DEF CreateJob
  <2>3. /\ job' \in [Run -> JobState]
        /\ jobCache' \in [Run -> JobState]
        /\ execs' \in [Run -> 0..ExecCap]
    BY <1>1, <1>5, SetJobType DEF CreateJob, JobState, JobTypeOK, ExecCap
  <2> QED
    BY <1>5, <2>2, <2>3 DEF CreateJob, TypeOK, JobTypeOK
<1>6. CASE CreateJobFails
  BY <1>1, <1>6, ToPatchType DEF CreateJobFails, TypeOK, JobTypeOK, jobVars
<1>7. CASE ObserveJob
  <2>1. /\ [op.mem EXCEPT !.phase = "Succeeded", !.output = op.run] \in RunObj
        /\ SetRunFailedStatus(op.mem, op.run) \in RunObj
    BY <1>1, FailedType DEF RunObj, Phase, Output
  <2>2. op' \in Reconcile /\ op'.run \in Run
    BY <1>1, <1>7, <2>1, ToPatchType DEF ObserveJob
  <2> QED
    BY <1>7, <2>2 DEF ObserveJob, TypeOK, JobTypeOK, jobVars
<1> QED
  BY <1>2, <1>3, <1>4, <1>5, <1>6, <1>7 DEF ReconcileTaskRun

(* The steps of Jobs, garbage collection and the Agent reconciler. *)
JobStep(r) == DeliverJob(r) \/ JobEnds(r) \/ JobExpires(r) \/ CollectOwned(r)

LEMMA JobStepType ==
    ASSUME TypeOK, JobTypeOK, BaseConfigWritten \/ \E r \in Run : JobStep(r)
    PROVE  TypeOK' /\ JobTypeOK'
<1>1. CASE BaseConfigWritten
  BY <1>1 DEF BaseConfigWritten, TypeOK, JobTypeOK, runVars
<1>2. ASSUME NEW r \in Run, DeliverJob(r) PROVE TypeOK' /\ JobTypeOK'
  BY <1>2 DEF DeliverJob, TypeOK, JobTypeOK, runVars
<1>3. ASSUME NEW r \in Run, JobEnds(r) PROVE TypeOK' /\ JobTypeOK'
  <2>1. PICK s \in Finished :
           SetJob(r, s) /\ results' = [results EXCEPT ![r] = @ \cup {s}]
    BY <1>3 DEF JobEnds
  <2>2. job' \in [Run -> JobState] /\ jobCache' \in [Run -> JobState]
    BY <2>1, SetJobType DEF Finished, JobState
  <2> QED
    BY <1>3, <2>1, <2>2 DEF JobEnds, TypeOK, JobTypeOK, runVars
<1>4. ASSUME NEW r \in Run, JobExpires(r) PROVE TypeOK' /\ JobTypeOK'
  <2>1. job' \in [Run -> JobState] /\ jobCache' \in [Run -> JobState]
    BY <1>4, SetJobType DEF JobExpires, JobState
  <2> QED
    BY <1>4, <2>1 DEF JobExpires, TypeOK, JobTypeOK
<1>5. ASSUME NEW r \in Run, CollectOwned(r) PROVE TypeOK' /\ JobTypeOK'
  <2>1. job' \in [Run -> JobState] /\ jobCache' \in [Run -> JobState]
    BY <1>5, SetJobType DEF CollectOwned, JobState
  <2> QED
    BY <1>5, <2>1 DEF CollectOwned, TypeOK, JobTypeOK, runVars
<1> QED
  BY <1>1, <1>2, <1>3, <1>4, <1>5 DEF JobStep

(* The variables of every reachable state of the task-mode reconciler have *)
(* the types TaskTypeOK gives them, whatever the lag and the failures.     *)
THEOREM TypeCorrect == Spec => []TaskTypeOK
<1>1. TaskTypeOK <=> TypeOK /\ JobTypeOK
  BY DEF TaskTypeOK, JobTypeOK
<1>2. ASSUME TaskTypeOK, [Next]_vars PROVE TaskTypeOK'
  <2>1. CASE Shared /\ UNCHANGED jobVars
    BY <1>1, <1>2, <2>1, SharedStep, StepType DEF TaskTypeOK, jobVars
  <2>2. CASE ReconcileTaskRun
    BY <1>1, <1>2, <2>2, ReconcileTaskRunType DEF TaskTypeOK, JobTypeOK
  <2>3. CASE BaseConfigWritten \/ \E r \in Run : JobStep(r)
    BY <1>1, <1>2, <2>3, JobStepType DEF TaskTypeOK, JobTypeOK
  <2>4. CASE UNCHANGED vars
    BY <1>2, <2>4 DEF TaskTypeOK, TypeOK, vars
  <2> QED
    BY <1>2, <2>1, <2>2, <2>3, <2>4 DEF Next, JobStep
<1> QED
  BY <1>2, InitType, PTL DEF Spec

-----------------------------------------------------------------------------
(* What holds whatever the lag.                                            *)

(* A copy that is Running was written after its Job was created. *)
StartedInv ==
    \A r \in Run : \A c \in Copies(r) : c.phase = "Running" => execs[r] > 0

(* The reconcile in flight past EnsureLabel concerns a labelled run, and   *)
(* it only turns a run Running, or Succeeded, for a reason.                *)
OpInv ==
    op.pc # "idle" =>
       /\ op.mem.phase \in Phase
       /\ op.pc # "patch" => HasLabel(op.run) /\ op.mem.phase \notin Terminal
       /\ op.mem.phase = "Running" =>
             op.base.phase = "Running" \/ (HasLabel(op.run) /\ execs[op.run] > 0)
       /\ op.mem.phase = "Succeeded" => "succeeded" \in results[op.run]

(* A Job that exists was created, and the end that it has come to, or that *)
(* the cache shows, is a result of its run.                                *)
ResultInv ==
    /\ \A r \in Run : job[r] # "none" => execs[r] > 0
    /\ \A r \in Run : \A s \in Finished : s \in {job[r], jobCache[r]} => s \in results[r]

AnyLagInv ==
    /\ LabelInv /\ StartedInv /\ OpInv /\ ResultInv
    /\ SucceededIsReal /\ RunningIsCounted

(* A patch that turns a run Running or Succeeded only with reason keeps    *)
(* the two properties.                                                     *)
LEMMA PatchSafe ==
    ASSUME TypeOK, LabelInv, NEW r \in Run, NEW base \in RunObj, NEW mem \in RunObj,
           mem.phase \in Phase, PatchStatus(r, base, mem),
           SucceededIsReal, RunningIsCounted, UNCHANGED jobVars,
           mem.phase = "Running" =>
              base.phase = "Running" \/ (HasLabel(r) /\ execs[r] > 0),
           mem.phase = "Succeeded" => "succeeded" \in results[r]
    PROVE  SucceededIsReal' /\ RunningIsCounted'
<1>1. ASSUME NEW s \in Run
      PROVE  /\ store'[s].phase = "Succeeded" => "succeeded" \in results[s]
             /\ store'[s].phase = "Running" => store'[s].label /\ execs[s] > 0
  <2>1. CASE store'[s] = store[s]
    BY <2>1 DEF SucceededIsReal, RunningIsCounted
  <2>2. CASE store'[s] # store[s]
    <3>1. /\ s = r
          /\ Exists(store[r])
          /\ store'[r] = MergeFrom(store[r], base, mem)
      BY <2>2, PatchEffect
    <3>2. /\ store'[r].label = store[r].label
          /\ store'[r].phase = IF mem.phase = base.phase THEN store[r].phase
                                                        ELSE mem.phase
      BY <3>1 DEF MergeFrom, TypeOK, RunObj
    <3> QED
      BY <3>1, <3>2 DEF SucceededIsReal, RunningIsCounted, HasLabel, Exists, Gone
  <2> QED
    BY <2>1, <2>2
<1> QED
  BY <1>1 DEF SucceededIsReal, RunningIsCounted, jobVars

LEMMA AnyLagInit == Init => AnyLagInv
<1> SUFFICES ASSUME Init PROVE AnyLagInv
  OBVIOUS
<1>1. NoObj.phase = "Absent" /\ NoObj.label = FALSE
  BY DEF NoObj
<1>2. \A r \in Run : store[r] = NoObj /\ cache[r] = NoObj
  BY DEF Init, RunInit
<1>3. ASSUME NEW r \in Run PROVE Copies(r) = {NoObj}
  <2>1. 1..Len(watch) = {}
    BY DEF Init, RunInit
  <2> QED
    BY <1>2, <2>1 DEF Copies
<1>4. LabelInv /\ StartedInv
  BY <1>1, <1>2, <1>3 DEF LabelInv, StartedInv
<1>5. OpInv
  BY IdleType DEF OpInv, Init, RunInit
<1>6. ResultInv
  BY DEF ResultInv, Init, Finished
<1>7. SucceededIsReal /\ RunningIsCounted
  BY <1>1, <1>2 DEF SucceededIsReal, RunningIsCounted
<1> QED
  BY <1>4, <1>5, <1>6, <1>7 DEF AnyLagInv

LEMMA AnyLagShared ==
    ASSUME TaskTypeOK, AnyLagInv, Shared, UNCHANGED jobVars
    PROVE  AnyLagInv'
<1>1. /\ TypeOK /\ LabelInv /\ StartedInv /\ OpInv /\ ResultInv
      /\ SucceededIsReal /\ RunningIsCounted
  BY DEF TaskTypeOK, AnyLagInv
<1>2. ResultInv' /\ execs' = execs /\ results' = results
  BY <1>1 DEF ResultInv, jobVars
<1>3. op.pc # "idle" => op.run \in Run /\ op.base \in RunObj /\ op.mem \in RunObj
  BY <1>1 DEF TypeOK, Reconcile
<1> DEFINE Grow == /\ LabelInv'
                   /\ \A s \in Run : HasLabel(s) => HasLabel(s)'
                   /\ \A s \in Run : Copies(s)' \subseteq Copies(s) \cup {store'[s]}
<1>4. ASSUME Grow, SucceededIsReal', RunningIsCounted', OpInv' PROVE AnyLagInv'
  BY <1>1, <1>2, <1>4 DEF AnyLagInv, StartedInv, RunningIsCounted
<1>5. ASSUME UNCHANGED store PROVE SucceededIsReal' /\ RunningIsCounted'
  BY <1>1, <1>2, <1>5 DEF SucceededIsReal, RunningIsCounted
<1>6. ASSUME UNCHANGED <<store, cache, watch>> PROVE Grow
  BY <1>1, <1>6 DEF LabelInv, HasLabel, Copies
<1>7. ASSUME UNCHANGED op, Grow PROVE OpInv'
  BY <1>1, <1>2, <1>3, <1>7 DEF OpInv
<1>8. ASSUME op' = Idle PROVE OpInv'
  BY <1>8, IdleType DEF OpInv
<1> HIDE DEF Grow
<1>9. ASSUME NEW r \in Run, NEW base \in RunObj, NEW mem \in RunObj,
             mem.phase \in Phase, PatchStatus(r, base, mem)
      PROVE  Grow
  BY <1>1, <1>9, PatchEffect DEF Grow
<1>10. ASSUME NEW r \in Run, CreateRun(r) PROVE AnyLagInv'
  <2>1. PICK l \in BOOLEAN : Write(r, [phase |-> "", label |-> l, output |-> ""])
    BY <1>10 DEF CreateRun
  <2> DEFINE obj == [phase |-> "", label |-> l, output |-> ""]
  <2>2. obj \in RunObj
    BY DEF RunObj, Phase, Output
  <2>3. ~ HasLabel(r) /\ UNCHANGED op
    BY <1>1, <1>10 DEF CreateRun, LabelInv, HasLabel
  <2>4. Grow
    BY <1>1, <2>1, <2>2, <2>3, WriteLabel DEF Grow
  <2>5. SucceededIsReal' /\ RunningIsCounted'
    BY <1>1, <1>2, <2>1 DEF SucceededIsReal, RunningIsCounted, TypeOK, Write
  <2> QED
    BY <1>4, <1>7, <2>3, <2>4, <2>5
<1>11. ASSUME NEW r \in Run, DeleteRun(r) PROVE AnyLagInv'
  <2> DEFINE obj == [NoObj EXCEPT !.phase = "Deleted"]
  <2>1. obj \in RunObj /\ obj.phase = "Deleted"
    BY DEF NoObj, RunObj, Gone, Output
  <2>2. Write(r, obj) /\ UNCHANGED op
    BY <1>11 DEF DeleteRun
  <2>3. Grow
    BY <1>1, <2>1, <2>2, WriteLabel DEF Grow
  <2>4. SucceededIsReal' /\ RunningIsCounted'
    BY <1>1, <1>2, <2>1, <2>2 DEF SucceededIsReal, RunningIsCounted, TypeOK, Write
  <2> QED
    BY <1>4, <1>7, <2>2, <2>3, <2>4
<1>12. CASE AgentAppears \/ AgentDeleted \/ EditConcurrency
  BY <1>4, <1>5, <1>6, <1>7, <1>12 DEF AgentAppears, AgentDeleted, EditConcurrency
<1>13. CASE Deliver
  <2>1. Grow
    BY <1>1, <1>13, DeliverCopies DEF Grow, LabelInv, HasLabel, Deliver
  <2> QED
    BY <1>4, <1>5, <1>7, <1>13, <2>1 DEF Deliver
<1>14. ASSUME NEW r \in Run, AgentNotFound(r) PROVE AnyLagInv'
  <2>1. OpInv'
    BY <1>1, <1>14
    DEF AgentNotFound, OpInv, SetRunFailedStatus, TypeOK, RunObj, Phase
  <2> QED
    BY <1>4, <1>5, <1>6, <1>14, <2>1 DEF AgentNotFound
<1>15. ASSUME NEW r \in Run, Begin(r)
       PROVE  cache[r] \in RunObj /\ cache[r].phase \in Phase \ Terminal
  BY <1>1, <1>15 DEF Begin, Exists, TypeOK, RunObj
<1>16. ASSUME NEW r \in Run, Labelled(r) PROVE AnyLagInv'
  <2>1. HasLabel(r) /\ HasLabel(r)'
    BY <1>1, <1>16 DEF Labelled, LabelInv, Copies, HasLabel
  <2>2. OpInv'
    BY <1>15, <1>16, <2>1 DEF Labelled, OpInv, Terminal
  <2> QED
    BY <1>4, <1>5, <1>6, <1>16, <2>2 DEF Labelled
<1>17. ASSUME NEW r \in Run, EnsureLabel(r) PROVE AnyLagInv'
  <2> DEFINE obj == [cache[r] EXCEPT !.label = TRUE]
  <2>1. /\ cache[r] \in RunObj
        /\ cache[r].phase \in Phase \ Terminal
        /\ cache[r] \in Copies(r)
    BY <1>15, <1>17 DEF EnsureLabel, Copies
  <2>2. obj \in RunObj /\ obj.label /\ obj.phase = cache[r].phase
    BY <2>1 DEF RunObj
  <2>3. obj.phase # "Absent"
    BY <2>1, <2>2 DEF Phase
  <2>4. Write(r, obj)
    BY <1>17 DEF EnsureLabel
  <2>5. Grow
    BY <1>1, <2>2, <2>3, <2>4, WriteLabel DEF Grow
  <2>6. store' = [store EXCEPT ![r] = obj] /\ store \in [Run -> RunObj]
    BY <1>1, <2>4 DEF Write, TypeOK
  <2>7. SucceededIsReal' /\ RunningIsCounted'
    BY <1>1, <1>2, <2>1, <2>2, <2>6
    DEF SucceededIsReal, RunningIsCounted, StartedInv, Terminal
  <2>8. HasLabel(r)'
    BY <2>2, <2>6 DEF HasLabel
  <2>9. OpInv'
    BY <1>17, <2>1, <2>8 DEF EnsureLabel, OpInv, Terminal, RunObj
  <2> QED
    BY <1>4, <2>5, <2>7, <2>9
<1>18. CASE QueueRun
  <2> DEFINE mem == [op.mem EXCEPT !.phase = "Queued"]
  <2>1. /\ op.run \in Run /\ op.base \in RunObj /\ mem \in RunObj
        /\ mem.phase = "Queued" /\ mem.phase \in Phase
    BY <1>3, <1>18 DEF QueueRun, RunObj, Phase
  <2>2. PatchStatus(op.run, op.base, mem) /\ op' = Idle
    BY <1>18 DEF QueueRun
  <2>3. SucceededIsReal' /\ RunningIsCounted'
    BY <1>1, <2>1, <2>2, PatchSafe
  <2> QED
    BY <1>4, <1>8, <1>9, <2>1, <2>2, <2>3
<1>19. CASE RejectRun
  <2> DEFINE mem == SetRunFailedStatus(op.mem, "Rejected")
  <2>1. /\ op.run \in Run /\ op.base \in RunObj /\ mem \in RunObj
        /\ mem.phase = "Failed" /\ mem.phase \in Phase
    BY <1>3, <1>19 DEF RejectRun, SetRunFailedStatus, RunObj, Phase, Output, Message
  <2>2. PatchStatus(op.run, op.base, mem) /\ op' = Idle
    BY <1>19 DEF RejectRun
  <2>3. SucceededIsReal' /\ RunningIsCounted'
    BY <1>1, <2>1, <2>2, PatchSafe
  <2> QED
    BY <1>4, <1>8, <1>9, <2>1, <2>2, <2>3
<1>20. ASSUME op.pc = "check", op' = Admitted, Grow PROVE OpInv'
  <2>1. /\ op'.pc = "dispatch" /\ op'.run = op.run /\ op'.base = op.base
        /\ op'.mem.phase = IF op.mem.phase = "" THEN "Pending" ELSE op.mem.phase
    BY <1>1, <1>3, <1>20 DEF Admitted, TypeOK, Reconcile, RunObj
  <2>2. HasLabel(op.run)'
    BY <1>1, <1>3, <1>20, <2>1 DEF OpInv, Grow, HasLabel
  <2>3. /\ op.mem.phase \in Phase \ Terminal
        /\ op.mem.phase = "Running" =>
             op.base.phase = "Running" \/ (HasLabel(op.run) /\ execs[op.run] > 0)
    BY <1>1, <1>20 DEF OpInv
  <2>4. op'.mem.phase \in Phase \ Terminal
    BY <2>1, <2>3 DEF Phase, Terminal
  <2>5. op'.mem.phase = "Running" =>
           op'.base.phase = "Running" \/ (HasLabel(op.run)' /\ execs'[op'.run] > 0)
    BY <1>2, <2>1, <2>2, <2>3
  <2>6. op'.mem.phase # "Succeeded"
    BY <2>4 DEF Terminal
  <2> QED
    BY <2>1, <2>2, <2>4, <2>5, <2>6 DEF OpInv
<1>21. CASE CancelOldestRun
  <2>1. PICK o \in Oldest(Active(op.run)) :
           /\ PatchStatus(o, cache[o], SetRunFailedStatus(cache[o], "Cancelled"))
           /\ op' = IF Exists(store[o]) THEN Admitted ELSE Idle
    BY <1>21 DEF CancelOldestRun
  <2> DEFINE mem == SetRunFailedStatus(cache[o], "Cancelled")
  <2>2. /\ o \in Run /\ cache[o] \in RunObj /\ mem \in RunObj
        /\ mem.phase = "Failed" /\ mem.phase \in Phase
    BY <1>1 DEF Oldest, Active, TypeOK, SetRunFailedStatus, RunObj, Phase, Output, Message
  <2>3. SucceededIsReal' /\ RunningIsCounted' /\ Grow
    BY <1>1, <1>9, <2>1, <2>2, PatchSafe
  <2>4. OpInv'
    BY <1>8, <1>20, <1>21, <2>1, <2>3 DEF CancelOldestRun
  <2> QED
    BY <1>4, <2>3, <2>4
<1>22. CASE AdmitRun
  BY <1>4, <1>5, <1>6, <1>20, <1>22 DEF AdmitRun
<1>23. CASE FinishReconcile
  <2>1. /\ op.run \in Run /\ op.base \in RunObj /\ op.mem \in RunObj
        /\ op.mem.phase \in Phase
    BY <1>1, <1>3, <1>23 DEF FinishReconcile, OpInv
  <2>2. PatchStatus(op.run, op.base, op.mem) /\ op' = Idle
    BY <1>23 DEF FinishReconcile
  <2>3. SucceededIsReal' /\ RunningIsCounted'
    BY <1>1, <1>23, <2>1, <2>2, PatchSafe DEF OpInv, FinishReconcile
  <2> QED
    BY <1>4, <1>8, <1>9, <2>1, <2>2, <2>3
<1>24. CASE AbortReconcile
  BY <1>4, <1>5, <1>6, <1>8, <1>24 DEF AbortReconcile
<1> QED
  BY <1>10, <1>11, <1>12, <1>13, <1>14, <1>16, <1>17, <1>18, <1>19, <1>21, <1>22,
     <1>23, <1>24
  DEF Shared, UserStep, StartReconcile, CheckConcurrency

(* A step that leaves the runs alone and forgets neither executions nor    *)
(* results keeps everything that does not mention the reconcile in flight. *)
LEMMA AnyLagKept ==
    ASSUME AnyLagInv, UNCHANGED <<store, cache, watch>>, ResultInv', OpInv',
           \A r \in Run : execs[r] > 0 => execs'[r] > 0,
           \A r \in Run : results[r] \subseteq results'[r]
    PROVE  AnyLagInv'
<1>1. \A r \in Run : Copies(r)' = Copies(r) /\ HasLabel(r)' = HasLabel(r)
  BY DEF Copies, HasLabel
<1>2. LabelInv' /\ StartedInv'
  BY <1>1 DEF AnyLagInv, LabelInv, StartedInv
<1>3. SucceededIsReal' /\ RunningIsCounted'
  BY DEF AnyLagInv, SucceededIsReal, RunningIsCounted
<1> QED
  BY <1>2, <1>3 DEF AnyLagInv

(* The steps of reconcileTaskRun. *)
LEMMA AnyLagReconcile ==
    ASSUME TaskTypeOK, AnyLagInv, ReconcileTaskRun
    PROVE  AnyLagInv'
<1>1. TypeOK /\ JobTypeOK /\ OpInv /\ ResultInv
  BY DEF TaskTypeOK, JobTypeOK, AnyLagInv
<1>2. /\ op.pc \in {"dispatch", "create"}
      /\ op.run \in Run /\ op.mem \in RunObj /\ op \in Reconcile
  BY <1>1 DEF TypeOK, Reconcile, ReconcileTaskRun, GitWorkspaceError,
              BaseConfigMissing, CreateRunConfig, CreateJob, CreateJobFails, ObserveJob
<1>3. /\ HasLabel(op.run)
      /\ op.mem.phase \in Phase \ Terminal
      /\ op.mem.phase = "Running" => op.base.phase = "Running" \/ execs[op.run] > 0
  BY <1>1, <1>2 DEF OpInv
<1>4. UNCHANGED <<store, cache, watch>>
  BY DEF ReconcileTaskRun, GitWorkspaceError,
         BaseConfigMissing, CreateRunConfig, CreateJob, CreateJobFails, ObserveJob
(* A step to the status patch that keeps the phase, or fails the run. *)
<1>5. ASSUME UNCHANGED jobVars, NEW mem \in RunObj, ToPatch(mem),
             mem.phase \in {op.mem.phase, "Failed"}
      PROVE  AnyLagInv'
  <2>1. op' = [op EXCEPT !.pc = "patch", !.mem = mem]
    BY <1>5 DEF ToPatch
  <2>2. /\ op'.pc = "patch" /\ op'.run = op.run /\ op'.base = op.base
        /\ op'.mem.phase \in {op.mem.phase, "Failed"}
    BY <1>2, <1>5, <2>1 DEF Reconcile
  <2>3. HasLabel(op.run)'
    BY <1>3, <1>4, <2>2 DEF HasLabel
  <2>4. OpInv'
    BY <1>3, <1>5, <2>2, <2>3 DEF OpInv, Phase, Terminal, jobVars
  <2>5. ResultInv'
    BY <1>1, <1>5 DEF ResultInv, jobVars
  <2> QED
    BY <1>4, <1>5, <2>4, <2>5, AnyLagKept DEF jobVars
<1>6. CASE GitWorkspaceError
  <2>1. SetRunFailedStatus(op.mem, "Error") \in RunObj
    BY <1>2, FailedType DEF Output, Message
  <2>2. SetRunFailedStatus(op.mem, "Error").phase = "Failed"
    BY <1>2 DEF SetRunFailedStatus, RunObj
  <2> QED
    BY <1>5, <1>6, <2>1, <2>2 DEF GitWorkspaceError
<1>7. CASE BaseConfigMissing
  BY <1>2, <1>5, <1>7 DEF BaseConfigMissing
<1>8. CASE CreateJobFails
  BY <1>2, <1>5, <1>8 DEF CreateJobFails
<1>9. CASE CreateRunConfig
  <2>1. /\ op'.pc = "create" /\ op'.run = op.run
        /\ op'.base = op.base /\ op'.mem = op.mem
    BY <1>2, <1>9 DEF CreateRunConfig, Reconcile
  <2>2. HasLabel(op.run)'
    BY <1>3, <1>4, <2>1 DEF HasLabel
  <2>3. OpInv'
    BY <1>3, <1>9, <2>1, <2>2 DEF OpInv, CreateRunConfig, Terminal
  <2>4. ResultInv'
    BY <1>1, <1>9 DEF ResultInv, CreateRunConfig
  <2> QED
    BY <1>4, <1>9, <2>3, <2>4, AnyLagKept DEF CreateRunConfig
<1>10. CASE CreateJob
  <2>1. op' = [op EXCEPT !.pc = "patch", !.mem = [op.mem EXCEPT !.phase = "Running"]]
    BY <1>10 DEF CreateJob, ToPatch
  <2>2. /\ op'.pc = "patch" /\ op'.run = op.run /\ op'.base = op.base
        /\ op'.mem.phase = "Running"
    BY <1>2, <2>1 DEF Reconcile, RunObj
  <2>3. HasLabel(op.run)'
    BY <1>3, <1>4, <2>2 DEF HasLabel
  <2>4. \A r \in Run : execs[r] > 0 => execs'[r] > 0
    BY <1>1, <1>10 DEF CreateJob, JobTypeOK, ExecCap
  <2>5. execs'[op.run] > 0
    <3>1. CASE job[op.run] = "none"
      BY <1>1, <1>2, <1>10, <3>1 DEF CreateJob, JobTypeOK, ExecCap
    <3>2. CASE job[op.run] # "none"
      BY <1>1, <1>2, <1>10, <3>2 DEF CreateJob, ResultInv
    <3> QED
      BY <3>1, <3>2
  <2>6. ResultInv'
    <3>1. \A r \in Run : job'[r] # "none" => execs'[r] > 0
      BY <1>1, <1>10, <2>4, <2>5 DEF CreateJob, SetJob, ResultInv, JobTypeOK
    <3>2. /\ results' = results
          /\ \A r \in Run : job'[r] \in {job[r], "active"}
          /\ \A r \in Run : jobCache'[r] \in {jobCache[r], job[r], "active"}
      BY <1>1, <1>10 DEF CreateJob, SetJob, JobTypeOK
    <3>3. "active" \notin Finished
      BY DEF Finished
    <3>4. \A r \in Run : \A s \in Finished :
             s \in {job'[r], jobCache'[r]} => s \in {job[r], jobCache[r]}
      BY <3>2, <3>3
    <3> QED
      BY <1>1, <3>1, <3>2, <3>4 DEF ResultInv
  <2>7. OpInv'
    BY <2>2, <2>3, <2>5 DEF OpInv, Phase
  <2> QED
    BY <1>4, <1>10, <2>4, <2>6, <2>7, AnyLagKept DEF CreateJob
<1>11. CASE ObserveJob
  <2>1. CASE ToPatch(op.mem)
    BY <1>2, <1>5, <1>11, <2>1 DEF ObserveJob
  <2>2. CASE ToPatch(SetRunFailedStatus(op.mem, op.run))
    <3>1. SetRunFailedStatus(op.mem, op.run) \in RunObj
      BY <1>2, FailedType DEF Output, Message
    <3>2. SetRunFailedStatus(op.mem, op.run).phase = "Failed"
      BY <1>2 DEF SetRunFailedStatus, RunObj
    <3> QED
      BY <1>5, <1>11, <2>2, <3>1, <3>2 DEF ObserveJob
  <2>3. CASE /\ jobCache[op.run] = "succeeded"
             /\ ToPatch([op.mem EXCEPT !.phase = "Succeeded", !.output = op.run])
    <3>1. /\ op'.pc = "patch" /\ op'.run = op.run
          /\ op'.mem.phase = "Succeeded"
      BY <1>2, <2>3 DEF ToPatch, Reconcile, RunObj
    <3>2. "succeeded" \in results'[op.run]
      BY <1>1, <1>2, <1>11, <2>3 DEF ResultInv, ObserveJob, jobVars, Finished
    <3>3. OpInv'
      BY <3>1, <3>2 DEF OpInv, Phase
    <3>4. ResultInv'
      BY <1>1, <1>11 DEF ResultInv, ObserveJob, jobVars
    <3> QED
      BY <1>4, <1>11, <3>3, <3>4, AnyLagKept DEF ObserveJob, jobVars
  <2> QED
    BY <1>11, <2>1, <2>2, <2>3 DEF ObserveJob
<1> QED
  BY <1>6, <1>7, <1>8, <1>9, <1>10, <1>11 DEF ReconcileTaskRun

(* The steps of Jobs, garbage collection and the Agent reconciler. *)
LEMMA AnyLagJobStep ==
    ASSUME TaskTypeOK, AnyLagInv, BaseConfigWritten \/ \E r \in Run : JobStep(r)
    PROVE  AnyLagInv'
<1>1. TypeOK /\ JobTypeOK /\ OpInv /\ ResultInv
  BY DEF TaskTypeOK, JobTypeOK, AnyLagInv
<1>2. UNCHANGED <<store, cache, watch, op, execs>>
  BY DEF JobStep, BaseConfigWritten, DeliverJob, JobEnds, JobExpires, CollectOwned,
         runVars
<1>3. /\ \A r \in Run : results[r] \subseteq results'[r]
      /\ ResultInv'
  <2>1. CASE BaseConfigWritten
    BY <1>1, <2>1 DEF BaseConfigWritten, ResultInv
  <2>2. ASSUME NEW r \in Run, DeliverJob(r)
        PROVE  results' = results /\ ResultInv'
    BY <1>1, <2>2 DEF DeliverJob, ResultInv, JobTypeOK
  <2>3. ASSUME NEW r \in Run, JobEnds(r)
        PROVE  (\A s \in Run : results[s] \subseteq results'[s]) /\ ResultInv'
    <3>1. PICK s \in Finished :
             SetJob(r, s) /\ results' = [results EXCEPT ![r] = @ \cup {s}]
      BY <2>3 DEF JobEnds
    <3>2. \A t \in Run : results[t] \subseteq results'[t]
      BY <1>1, <3>1 DEF JobTypeOK
    <3>3. \A t \in Run : job'[t] # "none" => execs'[t] > 0
      BY <1>1, <1>2, <2>3, <3>1 DEF SetJob, ResultInv, JobTypeOK, JobEnds
    <3>4. \A t \in Run : \A e \in Finished : job'[t] = e => e \in results'[t]
      BY <1>1, <3>1 DEF SetJob, ResultInv, JobTypeOK
    <3>5. \A t \in Run : \A e \in Finished : jobCache'[t] = e => e \in results'[t]
      BY <1>1, <3>1, <3>2, <3>4 DEF SetJob, ResultInv
    <3> QED
      BY <3>2, <3>3, <3>4, <3>5 DEF ResultInv
  <2>4. ASSUME NEW r \in Run, JobExpires(r) \/ CollectOwned(r)
        PROVE  results' = results /\ ResultInv'
    <3>1. UNCHANGED <<results, execs>> /\ SetJob(r, "none")
      BY <2>4 DEF JobExpires, CollectOwned
    <3>2. /\ \A t \in Run : job'[t] \in {job[t], "none"}
          /\ \A t \in Run : jobCache'[t] \in {jobCache[t], job[t], "none"}
      BY <1>1, <3>1 DEF SetJob, JobTypeOK
    <3>3. "none" \notin Finished
      BY DEF Finished
    <3>4. \A t \in Run : \A s \in Finished :
             s \in {job'[t], jobCache'[t]} => s \in {job[t], jobCache[t]}
      BY <3>2, <3>3
    <3> QED
      BY <1>1, <3>1, <3>2, <3>4 DEF ResultInv
  <2> QED
    BY <2>1, <2>2, <2>3, <2>4 DEF JobStep, BaseConfigWritten
<1>4. OpInv'
  BY <1>1, <1>2, <1>3 DEF OpInv, HasLabel, TypeOK
<1> QED
  BY <1>2, <1>3, <1>4, AnyLagKept

(* AnyLagInv is an invariant, whatever the lag, the failures, the edits of *)
(* the Agent and the deletions of runs.                                    *)
THEOREM AnyLagInvariant == Spec => []AnyLagInv
<1>1. ASSUME TaskTypeOK, AnyLagInv, [Next]_vars PROVE AnyLagInv'
  <2>1. CASE Shared /\ UNCHANGED jobVars
    BY <1>1, <2>1, AnyLagShared
  <2>2. CASE ReconcileTaskRun
    BY <1>1, <2>2, AnyLagReconcile
  <2>3. CASE BaseConfigWritten \/ \E r \in Run : JobStep(r)
    BY <1>1, <2>3, AnyLagJobStep
  <2>4. CASE UNCHANGED vars
    BY <1>1, <2>4
    DEF AnyLagInv, LabelInv, StartedInv, OpInv, ResultInv, SucceededIsReal,
        RunningIsCounted, HasLabel, Copies, vars
  <2> QED
    BY <1>1, <2>1, <2>2, <2>3, <2>4 DEF Next, JobStep
<1> QED
  BY <1>1, AnyLagInit, TypeCorrect, PTL DEF Spec

(* No stale copy, lost Job, failed call or edit of the Agent makes the     *)
(* reconciler report success for a run of which no Job succeeded.          *)
THEOREM NeverFalseSuccess == Spec => []SucceededIsReal
<1>1. AnyLagInv => SucceededIsReal
  BY DEF AnyLagInv
<1> QED
  BY <1>1, AnyLagInvariant, PTL

(* However stale the operator's copies, a stored Running run carries the   *)
(* label by which checkConcurrency finds it, and a Job was created for it. *)
THEOREM RunningAlwaysCounted == Spec => []RunningIsCounted
<1>1. AnyLagInv => RunningIsCounted
  BY DEF AnyLagInv
<1> QED
  BY <1>1, AnyLagInvariant, PTL

(* The Job of a git run, or the Create that is about to make it, comes     *)
(* after the per-run ConfigMap, which only the deletion of the run takes   *)
(* away again.                                                             *)
ConfigFirst ==
    \A r \in GitRuns :
       job[r] # "none" \/ (op.pc = "create" /\ op.run = r) =>
          r \in runConfig \/ store[r].phase = "Deleted"

LEMMA ConfigFirstNext ==
    ASSUME TaskTypeOK, CacheTrails, ConfigFirst, [Next]_vars
    PROVE  CacheTrails' /\ ConfigFirst'
<1>1. TypeOK /\ JobTypeOK /\ GitRuns \subseteq Run
  BY GitAssumption DEF TaskTypeOK, JobTypeOK
<1>2. CASE Shared /\ UNCHANGED jobVars
  <2>1. CacheTrails' /\ DeletedForGood
    BY <1>1, <1>2, SharedStep, StepTrails
  <2>2. op'.pc = "create" => op' = op
    <3>1. CASE UserStep \/ Deliver
      BY <3>1 DEF UserStep, CreateRun, DeleteRun, AgentAppears, AgentDeleted,
                  EditConcurrency, Deliver
    <3>2. CASE \E r \in Run : StartReconcile(r)
      BY <3>2 DEF StartReconcile, AgentNotFound, Labelled, EnsureLabel
    <3>3. CASE op' = Idle
      BY <3>3, IdleType
    <3>4. CASE op' = Admitted
      BY <1>1, <3>4 DEF Admitted, TypeOK, Reconcile
    <3>5. CASE CheckConcurrency \/ FinishReconcile \/ AbortReconcile
      BY <3>3, <3>4, <3>5 DEF CheckConcurrency, QueueRun, RejectRun,
                             CancelOldestRun, AdmitRun, FinishReconcile, AbortReconcile
    <3> QED
      BY <1>2, <3>1, <3>2, <3>5 DEF Shared
  <2>3. ConfigFirst'
    BY <1>1, <1>2, <2>1, <2>2 DEF ConfigFirst, DeletedForGood, jobVars
  <2> QED
    BY <2>1, <2>3
<1>3. CASE ReconcileTaskRun
  <2>1. UNCHANGED <<store, cache, watch>>
    BY <1>3 DEF ReconcileTaskRun, GitWorkspaceError, BaseConfigMissing,
                CreateRunConfig, CreateJob, CreateJobFails, ObserveJob
  <2>2. CASE GitWorkspaceError \/ BaseConfigMissing \/ CreateJobFails \/ ObserveJob
    <3>1. op'.pc = "patch" /\ UNCHANGED jobVars
      BY <1>1, <2>2 DEF GitWorkspaceError, BaseConfigMissing, CreateJobFails,
                        ObserveJob, ToPatch, TypeOK, Reconcile
    <3> QED
      BY <2>1, <3>1 DEF ConfigFirst, jobVars, CacheTrails
  <2>3. CASE CreateRunConfig
    <3>1. op'.run = op.run
      BY <1>1, <2>3 DEF CreateRunConfig, TypeOK, Reconcile
    <3>2. runConfig' = runConfig \cup ({op.run} \cap GitRuns) /\ job' = job
      BY <2>3 DEF CreateRunConfig
    <3> QED
      BY <2>1, <3>1, <3>2 DEF ConfigFirst, CacheTrails
  <2>4. CASE CreateJob
    <3>1. op'.pc = "patch"
      BY <1>1, <2>4 DEF CreateJob, ToPatch, TypeOK, Reconcile
    <3>2. op.pc = "create" /\ runConfig' = runConfig
      BY <2>4 DEF CreateJob
    <3>3. \A r \in Run : r # op.run => job'[r] = job[r]
      BY <1>1, <2>4 DEF CreateJob, SetJob, JobTypeOK
    <3> QED
      BY <1>1, <2>1, <3>1, <3>2, <3>3 DEF ConfigFirst, CacheTrails
  <2> QED
    BY <1>3, <2>2, <2>3, <2>4 DEF ReconcileTaskRun
<1>4. CASE \/ BaseConfigWritten \/ UNCHANGED vars
           \/ \E r \in Run : DeliverJob(r) \/ JobEnds(r) \/ JobExpires(r)
  <2>1. UNCHANGED <<store, cache, watch, op, runConfig>>
    BY <1>4 DEF BaseConfigWritten, vars, DeliverJob, JobEnds, JobExpires, runVars
  <2>2. \A r \in Run : job'[r] # "none" => job[r] # "none"
    BY <1>1, <1>4 DEF BaseConfigWritten, vars, DeliverJob, JobEnds, JobExpires,
                      SetJob, JobTypeOK
  <2> QED
    BY <1>1, <2>1, <2>2 DEF ConfigFirst, CacheTrails
<1>5. ASSUME NEW r \in Run, CollectOwned(r) PROVE CacheTrails' /\ ConfigFirst'
  <2>1. /\ UNCHANGED <<store, cache, watch, op>>
        /\ store[r].phase = "Deleted"
        /\ runConfig' = runConfig \ {r}
        /\ \A s \in Run : job'[s] # "none" => job[s] # "none"
    BY <1>1, <1>5 DEF CollectOwned, SetJob, JobTypeOK, runVars
  <2> QED
    BY <1>1, <2>1 DEF ConfigFirst, CacheTrails
<1> QED
  BY <1>2, <1>3, <1>4, <1>5 DEF Next

(* Whatever the lag, the failures and the deletions, the Job of a git run  *)
(* that exists has its per-run ConfigMap, also when an attempt dies        *)
(* between the two Creates and a later one repeats it.                     *)
THEOREM GitJobAlwaysHasConfig == Spec => []GitJobHasConfig
<1>1. Init => CacheTrails /\ ConfigFirst
  BY InitTrails, GitAssumption, IdleType DEF Init, RunInit, ConfigFirst
<1>2. ConfigFirst => GitJobHasConfig
  BY DEF ConfigFirst, GitJobHasConfig, Exists, Gone
<1> QED
  BY <1>1, <1>2, ConfigFirstNext, TypeCorrect, PTL DEF Spec

-----------------------------------------------------------------------------
(* Slots and seen ends, by the lemmas of ReconcilerProofs.                 *)

(* reconcileTaskRun leaves the run as it is, or Running, or ended with a   *)
(* message or with the output of a Job that has ended.                     *)
LEMMA TaskDispatch ==
    ASSUME TaskTypeOK, ResultInv, ReconcileTaskRun
    PROVE  /\ op.pc \in {"dispatch", "create"} /\ op.run \in Run
           /\ Dispatches
           /\ \/ /\ op'.mem.output = op.mem.output
                 /\ op'.mem.phase \in {op.mem.phase, "Running"}
              \/ op'.mem.phase \in Terminal /\ op'.mem.output = "Error"
              \/ /\ op'.mem.phase \in Terminal /\ op'.mem.output = op.run
                 /\ results[op.run] # {}
<1> DEFINE Ends == \/ /\ op'.mem.output = op.mem.output
                      /\ op'.mem.phase \in {op.mem.phase, "Running"}
                   \/ op'.mem.phase \in Terminal /\ op'.mem.output = "Error"
                   \/ /\ op'.mem.phase \in Terminal /\ op'.mem.output = op.run
                      /\ results[op.run] # {}
<1>1. /\ op.pc \in {"dispatch", "create"} /\ TypeOK
      /\ op.run \in Run /\ op.mem \in RunObj /\ op \in Reconcile
  BY DEF TaskTypeOK, TypeOK, Reconcile, ReconcileTaskRun, GitWorkspaceError,
         BaseConfigMissing, CreateRunConfig, CreateJob, CreateJobFails, ObserveJob
<1> SUFFICES Dispatches /\ Ends
  BY <1>1
<1>2. UNCHANGED <<store, cache, watch>>
  BY DEF ReconcileTaskRun, GitWorkspaceError, BaseConfigMissing, CreateRunConfig,
         CreateJob, CreateJobFails, ObserveJob
<1>3. ASSUME NEW mem \in RunObj, ToPatch(mem),
             \/ /\ mem.output = op.mem.output
                /\ mem.phase \in {op.mem.phase, "Running"}
             \/ mem.phase \in Terminal /\ mem.output = "Error"
             \/ /\ mem.phase \in Terminal /\ mem.output = op.run
                /\ results[op.run] # {}
      PROVE  Dispatches /\ Ends
  BY <1>1, <1>2, <1>3, ToPatchFields DEF Dispatches
<1>4. ASSUME NEW text \in Output
      PROVE  /\ SetRunFailedStatus(op.mem, text) \in RunObj
             /\ SetRunFailedStatus(op.mem, text).phase \in Terminal
             /\ SetRunFailedStatus(op.mem, text).output = text
             /\ [op.mem EXCEPT !.phase = "Succeeded", !.output = text] \in RunObj
             /\ [op.mem EXCEPT !.phase = "Succeeded", !.output = text].phase \in Terminal
             /\ [op.mem EXCEPT !.phase = "Succeeded", !.output = text].output = text
  BY <1>1 DEF SetRunFailedStatus, RunObj, Phase, Terminal
<1>5. "Error" \in Output /\ op.run \in Output
  BY <1>1 DEF Output, Message
<1>6. CASE GitWorkspaceError
  <2>1. ToPatch(SetRunFailedStatus(op.mem, "Error"))
    BY <1>6 DEF GitWorkspaceError
  <2>2. /\ SetRunFailedStatus(op.mem, "Error") \in RunObj
        /\ SetRunFailedStatus(op.mem, "Error").phase \in Terminal
        /\ SetRunFailedStatus(op.mem, "Error").output = "Error"
    BY <1>4, <1>5
  <2> HIDE DEF Ends
  <2> QED
    BY <1>3, <2>1, <2>2
<1>7. CASE BaseConfigMissing \/ CreateJobFails
  BY <1>1, <1>3, <1>7 DEF BaseConfigMissing, CreateJobFails
<1>8. CASE CreateRunConfig
  <2>1. /\ op'.pc = "create" /\ op'.run = op.run
        /\ op'.base = op.base /\ op'.mem = op.mem
    BY <1>1, <1>8 DEF CreateRunConfig, Reconcile
  <2> QED
    BY <1>1, <1>2, <2>1 DEF Dispatches
<1>9. CASE CreateJob
  <2>1. /\ [op.mem EXCEPT !.phase = "Running"] \in RunObj
        /\ [op.mem EXCEPT !.phase = "Running"].phase = "Running"
        /\ [op.mem EXCEPT !.phase = "Running"].output = op.mem.output
    BY <1>1 DEF RunObj, Phase
  <2>2. ToPatch([op.mem EXCEPT !.phase = "Running"])
    BY <1>9 DEF CreateJob
  <2> HIDE DEF Ends
  <2> QED
    BY <1>3, <2>1, <2>2
<1>10. CASE ObserveJob
  <2>1. CASE ToPatch(op.mem)
    BY <1>1, <1>3, <2>1
  <2>2. CASE jobCache[op.run] \in Finished
    <3>1. results[op.run] # {}
      BY <1>1, <2>2 DEF ResultInv
    <3>2. \/ ToPatch([op.mem EXCEPT !.phase = "Succeeded", !.output = op.run])
          \/ ToPatch(SetRunFailedStatus(op.mem, op.run))
      BY <1>10, <2>2 DEF ObserveJob, Finished
    <3> DEFINE good == [op.mem EXCEPT !.phase = "Succeeded", !.output = op.run]
               bad == SetRunFailedStatus(op.mem, op.run)
    <3>3. /\ good \in RunObj /\ good.phase \in Terminal /\ good.output = op.run
          /\ bad \in RunObj /\ bad.phase \in Terminal /\ bad.output = op.run
      BY <1>4, <1>5
    <3>4. ToPatch(good) \/ ToPatch(bad)
      BY <3>2
    <3> HIDE DEF Ends, good, bad
    <3> QED
      BY <1>3, <3>1, <3>3, <3>4
  <2> QED
    BY <1>10, <2>1, <2>2 DEF ObserveJob, Finished
<1> QED
  BY <1>1, <1>6, <1>7, <1>8, <1>9, <1>10 DEF ReconcileTaskRun

LEMMA JobRests ==
    ASSUME BaseConfigWritten \/ (\E r \in Run : JobStep(r)) \/ UNCHANGED vars
    PROVE  UNCHANGED <<store, cache, watch, op, execs>>
BY DEF JobStep, BaseConfigWritten, DeliverJob, JobEnds, JobExpires, CollectOwned,
       runVars, vars

LEMMA LagNext ==
    ASSUME TaskTypeOK, AnyLagInv, LagInv, [Next]_vars
    PROVE  LagInv'
<1>1. TypeOK /\ ResultInv
  BY DEF TaskTypeOK, AnyLagInv
<1>2. CASE Shared
  BY <1>1, <1>2, SharedStep, StepLag
<1>3. CASE ReconcileTaskRun
  BY <1>1, <1>3, TaskDispatch, DispatchesLag
<1>4. CASE BaseConfigWritten \/ (\E r \in Run : JobStep(r)) \/ UNCHANGED vars
  BY <1>4, JobRests, RestsLag DEF Rests
<1> QED
  BY <1>2, <1>3, <1>4 DEF Next, JobStep

(* Whatever the lag, the edits, the failures, the lost Jobs and the        *)
(* deletions: no more runs of an Agent are Running than a limit of it and  *)
(* the lag allow, with current copies or without the policy replace.       *)
THEOREM SlotsAlwaysBounded == Spec => []SlotsBounded
<1>1. Init => LagInv
  BY InitLag DEF Init
<1>2. LagInv => SlotsBounded
  BY DEF LagInv
<1> QED
  BY <1>1, <1>2, LagNext, AnyLagInvariant, TypeCorrect, PTL DEF Spec

(* Once the operator's cache shows the end of a run, and no reconcile of   *)
(* it is in flight, its status never changes again.                        *)
THEOREM EndSeenAlwaysStays == Spec => EndSeenStays
<1>1. ASSUME TaskTypeOK, AnyLagInv, [Next]_vars PROVE EndStep
  <2>1. TypeOK /\ ResultInv
    BY <1>1 DEF TaskTypeOK, AnyLagInv
  <2>2. CASE Shared
    BY <2>1, <2>2, SharedStep, StepEnd
  <2>3. CASE ReconcileTaskRun
    BY <1>1, <2>1, <2>3, TaskDispatch, RestEnd DEF Dispatches
  <2>4. CASE BaseConfigWritten \/ (\E r \in Run : JobStep(r)) \/ UNCHANGED vars
    BY <2>4, JobRests, RestEnd
  <2> QED
    BY <1>1, <2>2, <2>3, <2>4 DEF Next, JobStep
<1>2. EndStep => [\A r \in Run : EndSeen(r) =>
                    \/ EndSeen(r)' /\ store'[r] = store[r]
                    \/ store'[r].phase = "Deleted"]_runVars
  BY DEF EndStep
<1> QED
  BY <1>1, <1>2, AnyLagInvariant, TypeCorrect, PTL DEF Spec, EndSeenStays

-----------------------------------------------------------------------------
(* A run is executed again only after an execution of it has ended.        *)

AgainInv ==
    \A r \in Run :
       \/ store[r].phase = "Deleted"
       \/ /\ job[r] = "none" /\ execs[r] > 0 => results[r] # {}
          /\ execs[r] > 1 => results[r] # {}

LEMMA AgainNext ==
    ASSUME TaskTypeOK, AnyLagInv, CacheTrails, AgainInv, [Next]_vars
    PROVE  AgainInv'
<1>1. TypeOK /\ JobTypeOK /\ ResultInv
  BY DEF TaskTypeOK, JobTypeOK, AnyLagInv
<1>2. CASE Shared /\ UNCHANGED jobVars
  <2>1. DeletedForGood
    BY <1>1, <1>2, SharedStep, StepTrails
  <2> QED
    BY <1>2, <2>1 DEF AgainInv, DeletedForGood, jobVars
<1>3. CASE ReconcileTaskRun
  <2>1. UNCHANGED store /\ op.run \in Run
    BY <1>1, <1>3, TaskDispatch DEF Dispatches
  <2>2. CASE GitWorkspaceError \/ BaseConfigMissing \/ CreateJobFails \/ ObserveJob
             \/ CreateRunConfig
    <3>1. UNCHANGED <<job, execs, results>>
      BY <2>2 DEF GitWorkspaceError, BaseConfigMissing, CreateJobFails, ObserveJob,
                  CreateRunConfig, jobVars
    <3> QED
      BY <2>1, <3>1 DEF AgainInv
  <2>3. CASE CreateJob
    <3>1. results' = results
      BY <2>3 DEF CreateJob
    <3>2. CASE job[op.run] # "none"
      BY <2>1, <2>3, <3>1, <3>2 DEF CreateJob, AgainInv
    <3>3. CASE job[op.run] = "none"
      <4>1. /\ job' = [job EXCEPT ![op.run] = "active"]
            /\ execs' = [execs EXCEPT ![op.run] = IF @ < ExecCap THEN @ + 1 ELSE @]
        BY <2>3, <3>3 DEF CreateJob, SetJob
      <4>2. \A r \in Run : r # op.run => job'[r] = job[r] /\ execs'[r] = execs[r]
        BY <1>1, <4>1 DEF JobTypeOK
      <4>3. job'[op.run] = "active" /\ (execs'[op.run] > 1 => execs[op.run] > 0)
        BY <1>1, <2>1, <4>1 DEF JobTypeOK, ExecCap
      <4> QED
        BY <2>1, <3>1, <3>3, <4>2, <4>3 DEF AgainInv
    <3> QED
      BY <3>2, <3>3
  <2> QED
    BY <1>3, <2>2, <2>3 DEF ReconcileTaskRun
<1>4. CASE BaseConfigWritten \/ (\E r \in Run : JobStep(r)) \/ UNCHANGED vars
  <2>1. UNCHANGED <<store, execs>>
    BY <1>4, JobRests
  <2>2. CASE BaseConfigWritten \/ (\E r \in Run : DeliverJob(r)) \/ UNCHANGED vars
    <3>1. UNCHANGED <<job, results>>
      BY <2>2 DEF BaseConfigWritten, DeliverJob, vars
    <3> QED
      BY <2>1, <3>1 DEF AgainInv
  <2>3. ASSUME NEW r \in Run, JobEnds(r) PROVE AgainInv'
    <3>1. PICK s \in Finished :
             SetJob(r, s) /\ results' = [results EXCEPT ![r] = @ \cup {s}]
      BY <2>3 DEF JobEnds
    <3>2. results'[r] # {} /\ \A t \in Run : t # r =>
                                  results'[t] = results[t] /\ job'[t] = job[t]
      BY <1>1, <3>1 DEF JobTypeOK, SetJob
    <3> QED
      BY <2>1, <3>2 DEF AgainInv
  <2>4. ASSUME NEW r \in Run, JobExpires(r) \/ CollectOwned(r) PROVE AgainInv'
    <3>1. /\ results' = results /\ \A t \in Run : t # r => job'[t] = job[t]
          /\ job[r] \in Finished \/ store[r].phase = "Deleted"
      BY <1>1, <2>4 DEF JobExpires, CollectOwned, SetJob, JobTypeOK
    <3>2. results[r] # {} \/ store[r].phase = "Deleted"
      BY <1>1, <3>1 DEF ResultInv
    <3> QED
      BY <2>1, <3>1, <3>2 DEF AgainInv
  <2> QED
    BY <1>4, <2>2, <2>3, <2>4 DEF JobStep
<1> QED
  BY <1>2, <1>3, <1>4 DEF Next, JobStep

(* Whatever the lag, the failures and the edits, a run that still exists   *)
(* gets a second Job only after a Job of it has come to an end.            *)
THEOREM AlwaysReexecutedAfterEnd == Spec => []ReexecutedAfterEnd
<1>1. Init => CacheTrails /\ ConfigFirst /\ AgainInv
  BY InitTrails, GitAssumption, IdleType DEF Init, RunInit, ConfigFirst, AgainInv
<1>2. AgainInv => ReexecutedAfterEnd
  BY DEF AgainInv, ReexecutedAfterEnd, Exists, Gone
<1> QED
  BY <1>1, <1>2, ConfigFirstNext, AgainNext, AnyLagInvariant, TypeCorrect, PTL DEF Spec

-----------------------------------------------------------------------------
(* Every end has its text.  Two stale patches may mix their fields, but an *)
(* output, once set, is never emptied, and no patch ends a run without.    *)

HasOutput(r) == store[r].output # "" \/ store[r].phase = "Deleted"

TextInv ==
    \A r \in Run :
       /\ store[r].phase = "Absent" => store[r].output = ""
       /\ store[r].phase \in Terminal => store[r].output # ""
       /\ \A c \in Copies(r) : c.output # "" => HasOutput(r)

TextOp ==
    op.pc # "idle" =>
       /\ op.base.output # "" => HasOutput(op.run)
       /\ op.mem.output = op.base.output \/ op.mem.output # ""
       /\ op.mem.phase \in Terminal => op.mem.output # ""

LEMMA WriteText ==
    ASSUME TypeOK, TextInv, NEW r \in Run, NEW obj \in RunObj, Write(r, obj),
           HasOutput(r) => obj.output # "" \/ obj.phase = "Deleted",
           obj.phase = "Absent" => obj.output = "",
           obj.phase \in Terminal => obj.output # ""
    PROVE  TextInv' /\ \A s \in Run : HasOutput(s) => HasOutput(s)'
<1>1. store' = [store EXCEPT ![r] = obj] /\ store \in [Run -> RunObj]
  BY DEF Write, TypeOK
<1>2. \A s \in Run : HasOutput(s) => HasOutput(s)'
  BY <1>1 DEF HasOutput
<1>3. ASSUME NEW s \in Run, NEW c \in Copies(s)', c.output # "" PROVE HasOutput(s)'
  <2>1. CASE c \in Copies(s)
    BY <1>2, <1>3, <2>1 DEF TextInv
  <2>2. CASE s = r /\ c = obj
    BY <1>1, <1>3, <2>2 DEF HasOutput
  <2> QED
    BY <2>1, <2>2, WriteCopies
<1>4. \A s \in Run : /\ store'[s].phase = "Absent" => store'[s].output = ""
                     /\ store'[s].phase \in Terminal => store'[s].output # ""
  BY <1>1 DEF TextInv
<1> QED
  BY <1>2, <1>3, <1>4 DEF TextInv

LEMMA SameText ==
    ASSUME TextInv, UNCHANGED <<store, cache, watch>>
    PROVE  TextInv' /\ \A s \in Run : HasOutput(s) => HasOutput(s)'
<1>1. \A s \in Run : Copies(s)' = Copies(s) /\ (HasOutput(s) => HasOutput(s)')
  BY DEF Copies, HasOutput
<1> QED
  BY <1>1 DEF TextInv

LEMMA PatchText ==
    ASSUME TypeOK, TextInv, NEW r \in Run, NEW base \in RunObj, NEW mem \in RunObj,
           PatchStatus(r, base, mem), mem.phase # "Absent",
           base.output # "" => HasOutput(r),
           mem.output = base.output \/ mem.output # "",
           mem.phase \in Terminal => mem.output # ""
    PROVE  TextInv' /\ \A s \in Run : HasOutput(s) => HasOutput(s)'
<1>1. CASE Exists(store[r])
  <2> DEFINE obj == MergeFrom(store[r], base, mem)
  <2>1. obj \in RunObj /\ store[r] \in RunObj /\ Write(r, obj)
    BY <1>1, MergeType DEF TypeOK, PatchStatus
  <2>2. obj.phase = IF mem.phase = base.phase THEN store[r].phase ELSE mem.phase
    BY <2>1 DEF MergeFrom, RunObj
  <2>3. obj.output = IF mem.output = base.output THEN store[r].output ELSE mem.output
    BY <2>1 DEF MergeFrom, RunObj
  <2> HIDE DEF obj
  <2>4. store[r].phase \notin {"Absent", "Deleted"}
    BY <1>1 DEF Exists, Gone
  <2>5. /\ HasOutput(r) => obj.output # ""
        /\ obj.phase # "Absent"
        /\ obj.phase \in Terminal => obj.output # ""
    BY <2>2, <2>3, <2>4 DEF HasOutput, TextInv
  <2> QED
    BY <2>1, <2>5, WriteText
<1>2. CASE ~ Exists(store[r])
  BY <1>2, SameText DEF PatchStatus
<1> QED
  BY <1>1, <1>2

(* The reconcile in flight goes on with the same copies. *)
LEMMA TextOpKept ==
    ASSUME TypeOK, TextOp, op.pc # "idle",
           op'.run = op.run, op'.base = op.base,
           HasOutput(op.run) => HasOutput(op.run)',
           op'.mem.output = op.mem.output \/ op'.mem.output # "",
           op'.mem.phase \in Terminal => op'.mem.output # ""
    PROVE  TextOp'
BY DEF TextOp

LEMMA TextStep ==
    ASSUME TypeOK, LagInv, OpInv, TextInv, TextOp, ReconcilerStep
    PROVE  TextInv' /\ TextOp'
<1>1. op.pc # "idle" => op.run \in Run /\ op.base \in RunObj /\ op.mem \in RunObj
  BY DEF TypeOK, Reconcile
<1>2. op'.pc = "idle" => TextOp'
  BY DEF TextOp
<1>3. ASSUME op' = op, \A s \in Run : HasOutput(s) => HasOutput(s)' PROVE TextOp'
  <2>1. op.pc # "idle" /\ HasOutput(op.run) => HasOutput(op.run)'
    BY <1>1, <1>3 DEF HasOutput
  <2> QED
    BY <1>3, <2>1 DEF TextOp
<1>4. CASE Rests
  BY <1>2, <1>3, <1>4, SameText, IdleRun DEF Rests
<1>5. CASE Deliver
  <2>1. UNCHANGED <<store, op>>
    BY <1>5 DEF Deliver
  <2>2. TextInv' /\ \A s \in Run : HasOutput(s) => HasOutput(s)'
    BY <1>5, <2>1, DeliverCopies DEF TextInv, HasOutput
  <2> QED
    BY <1>3, <2>1, <2>2
<1>6. ASSUME op.pc = "check", op' = Admitted,
             \A s \in Run : HasOutput(s) => HasOutput(s)'
      PROVE  TextOp'
  <2>1. /\ op'.run = op.run /\ op'.base = op.base /\ op'.mem.output = op.mem.output
        /\ op'.mem.phase = IF op.mem.phase = "" THEN "Pending" ELSE op.mem.phase
    BY <1>6, AdmittedFields
  <2>2. op.mem.phase \notin Terminal
    BY <1>6 DEF OpInv
  <2>3. op'.mem.phase \notin Terminal
    BY <2>1, <2>2 DEF Terminal
  <2>4. HasOutput(op.run) => HasOutput(op.run)'
    BY <1>1, <1>6, <2>1 DEF HasOutput
  <2> QED
    BY <1>6, <2>1, <2>3, <2>4, TextOpKept
<1>7. CASE AdmitRun
  BY <1>6, <1>7, SameText DEF AdmitRun
<1>8. ASSUME NEW mem \in RunObj, Patches(mem) PROVE TextInv' /\ TextOp'
  <2>1. /\ op.run \in Run /\ op.base \in RunObj /\ op.pc # "idle"
        /\ PatchStatus(op.run, op.base, mem) /\ op'.pc = "idle"
    BY <1>1, <1>8, IdleRun DEF Patches
  <2>2. "" \notin Message
    BY DEF Message
  <2>3. /\ mem.output = op.mem.output \/ mem.output # ""
        /\ mem.phase \in Terminal => mem.output # ""
    BY <1>8, <2>1, <2>2 DEF Patches, TextOp, Terminal
  <2>4. mem.phase # "Absent"
    BY <1>8 DEF Patches, OpInv, Phase
  <2>5. op.base.output # "" => HasOutput(op.run)
    BY <2>1 DEF TextOp
  <2>6. mem.output = op.base.output \/ mem.output # ""
    BY <2>1, <2>3 DEF TextOp
  <2>7. TextInv'
    BY <2>1, <2>3, <2>4, <2>5, <2>6, PatchText
  <2> QED
    BY <1>2, <2>1, <2>7
<1>9. ASSUME NEW o \in Active(op.run), Cancels(o) PROVE TextInv' /\ TextOp'
  <2> DEFINE mem == SetRunFailedStatus(cache[o], "Cancelled")
  <2>1. /\ o \in Run /\ cache[o] \in RunObj
        /\ mem \in RunObj /\ mem.phase = "Failed" /\ mem.output = "Cancelled"
    BY ActiveRun
  <2>2. PatchStatus(o, cache[o], mem) /\ op.pc = "check"
    BY <1>9 DEF Cancels
  <2> HIDE DEF mem
  <2>3. cache[o].output # "" => HasOutput(o)
    BY <2>1 DEF TextInv, Copies
  <2>4. mem.phase # "Absent" /\ mem.output # ""
    BY <2>1
  <2>5. TextInv' /\ \A s \in Run : HasOutput(s) => HasOutput(s)'
    BY <2>1, <2>2, <2>3, <2>4, PatchText
  <2>6. TextOp'
    BY <1>2, <1>6, <1>9, <2>2, <2>5, IdleRun DEF Cancels
  <2> QED
    BY <2>5, <2>6
<1>10. ASSUME NEW r \in Run, CreateRun(r) PROVE TextInv' /\ TextOp'
  <2>1. PICK l \in BOOLEAN : Write(r, [phase |-> "", label |-> l, output |-> ""])
    BY <1>10 DEF CreateRun
  <2> DEFINE obj == [phase |-> "", label |-> l, output |-> ""]
  <2>2. obj \in RunObj /\ obj.phase = "" /\ obj.output = "" /\ obj.phase \notin Terminal
    BY DEF RunObj, Phase, Output, Terminal
  <2>3. Write(r, obj) /\ op' = op /\ store[r].phase = "Absent"
    BY <1>10, <2>1 DEF CreateRun
  <2> HIDE DEF obj
  <2>4. ~ HasOutput(r)
    BY <2>3 DEF HasOutput, TextInv
  <2>5. TextInv' /\ \A s \in Run : HasOutput(s) => HasOutput(s)'
    BY <2>2, <2>3, <2>4, WriteText
  <2> QED
    BY <1>3, <2>3, <2>5
<1>11. ASSUME NEW r \in Run, DeleteRun(r) PROVE TextInv' /\ TextOp'
  <2> DEFINE obj == [NoObj EXCEPT !.phase = "Deleted"]
  <2>1. Write(r, obj) /\ op' = op
    BY <1>11 DEF DeleteRun
  <2>2. obj \in RunObj /\ obj.phase = "Deleted" /\ obj.phase \notin Terminal
    BY DEF RunObj, NoObj, Gone, Output, Terminal
  <2> HIDE DEF obj
  <2>3. TextInv' /\ \A s \in Run : HasOutput(s) => HasOutput(s)'
    BY <2>1, <2>2, WriteText
  <2> QED
    BY <1>3, <2>1, <2>3
<1>12. ASSUME NEW r \in Run, Begin(r)
       PROVE  /\ cache[r] \in RunObj /\ cache[r].phase \in Phase \ Terminal
              /\ cache[r].output # "" => HasOutput(r)
  <2>1. cache[r] \in RunObj /\ cache[r].phase \in Phase \ Terminal
    BY <1>12 DEF Begin, Exists, TypeOK, RunObj
  <2> QED
    BY <2>1 DEF TextInv, Copies
<1>13. ASSUME NEW r \in Run, AgentNotFound(r) PROVE TextInv' /\ TextOp'
  <2>1. /\ UNCHANGED <<store, cache, watch>> /\ op'.run = r /\ op'.base = cache[r]
        /\ op'.mem = SetRunFailedStatus(cache[r], "AgentNotFound") /\ Begin(r)
    BY <1>13 DEF AgentNotFound
  <2>2. op'.mem.output = "AgentNotFound"
    BY <1>12, <2>1 DEF SetRunFailedStatus, RunObj
  <2>3. op'.base.output # "" => HasOutput(op.run)'
    BY <1>12, <2>1 DEF HasOutput
  <2> QED
    BY <2>1, <2>2, <2>3, SameText DEF TextOp
<1>14. ASSUME NEW r \in Run, Labelled(r) PROVE TextInv' /\ TextOp'
  <2>1. /\ UNCHANGED <<store, cache, watch>> /\ op'.run = r /\ op'.base = cache[r]
        /\ op'.mem = cache[r] /\ Begin(r)
    BY <1>14 DEF Labelled
  <2>2. op'.base.output # "" => HasOutput(op.run)'
    BY <1>12, <2>1 DEF HasOutput
  <2>3. op'.mem.phase \notin Terminal
    BY <1>12, <2>1
  <2> QED
    BY <2>1, <2>2, <2>3, SameText DEF TextOp
<1>15. ASSUME NEW r \in Run, EnsureLabel(r) PROVE TextInv' /\ TextOp'
  <2> DEFINE obj == [cache[r] EXCEPT !.label = TRUE]
  <2>1. /\ Write(r, obj) /\ Fresh(r) /\ Begin(r)
        /\ op'.run = r /\ op'.base = cache[r] /\ op'.mem = obj
    BY <1>15 DEF EnsureLabel
  <2>2. obj \in RunObj /\ obj.phase = cache[r].phase /\ obj.output = cache[r].output
    BY <1>12, <2>1 DEF RunObj
  <2>3. cache[r] = store[r]
    BY <2>1 DEF LagInv, KeptInv, CacheTrails, Trails, Fresh
  <2> HIDE DEF obj
  <2>4. obj.phase \notin Terminal \cup Gone
    BY <1>12, <2>1, <2>2 DEF Phase, Gone
  <2>5. HasOutput(r) => obj.output # ""
    BY <2>2, <2>3, <2>4 DEF HasOutput, Gone
  <2>6. TextInv' /\ \A s \in Run : HasOutput(s) => HasOutput(s)'
    BY <2>1, <2>2, <2>4, <2>5, WriteText DEF Gone
  <2>7. op'.base.output # "" => HasOutput(op.run)'
    BY <1>12, <2>1, <2>6 DEF HasOutput
  <2> QED
    BY <2>1, <2>2, <2>4, <2>6, <2>7 DEF TextOp
<1> QED
  BY <1>4, <1>5, <1>7, <1>8, <1>9, <1>10, <1>11, <1>13, <1>14, <1>15, StepKinds

(* The texts that run r may show: only its own output, once it has one. *)
Texts(r) == {""} \cup Message \cup (IF results[r] # {} THEN {r} ELSE {})
AnyPhase == Phase \cup Gone

ExplainInv ==
    /\ TextInv /\ TextOp
    /\ Within([r \in Run |-> AnyPhase], [r \in Run |-> Texts(r)])

LEMMA ExplainShared ==
    ASSUME TaskTypeOK, TaskTypeOK', AnyLagInv, LagInv, ExplainInv, Shared,
           UNCHANGED jobVars
    PROVE  ExplainInv'
<1>1. TypeOK /\ TypeOK' /\ OpInv /\ ReconcilerStep /\ results' = results
  BY SharedStep DEF TaskTypeOK, AnyLagInv, jobVars
<1>2. TextInv' /\ TextOp'
  BY <1>1, TextStep DEF ExplainInv
<1>3. PICK P : P = [r \in Run |-> AnyPhase]
  OBVIOUS
<1>4. PICK T : T = [r \in Run |-> Texts(r)]
  OBVIOUS
<1>5. Bounds(P, T) /\ Within(P, T)
  BY <1>3, <1>4 DEF ExplainInv, Bounds, AnyPhase, Texts, Phase
<1>6. Within(P, T)'
  BY <1>1, <1>5, StepWithin
<1>7. [r \in Run |-> Texts(r)]' = [r \in Run |-> Texts(r)]
  BY <1>1 DEF Texts
<1>8. Within([r \in Run |-> AnyPhase], [r \in Run |-> Texts(r)])'
  BY <1>3, <1>4, <1>6, <1>7 DEF Within, RunsWithin, OpWithin
<1> QED
  BY <1>2, <1>8 DEF ExplainInv

(* Steps that write no run, and forget no result. *)
LEMMA ExplainKept ==
    ASSUME ExplainInv, UNCHANGED <<store, cache, watch>>, TextOp',
           \A r \in Run : results[r] \subseteq results'[r],
           OpWithin([r \in Run |-> AnyPhase], [r \in Run |-> Texts(r)])'
    PROVE  ExplainInv'
<1>1. TextInv'
  BY SameText DEF ExplainInv
<1>2. \A r \in Run : Copies(r)' = Copies(r) /\ Texts(r) \subseteq Texts(r)'
  BY DEF Copies, Texts
<1>3. RunsWithin([r \in Run |-> AnyPhase], [r \in Run |-> Texts(r)])'
  BY <1>2 DEF ExplainInv, Within, RunsWithin
<1> QED
  BY <1>1, <1>3 DEF ExplainInv, Within

LEMMA ExplainDispatch ==
    ASSUME TaskTypeOK, TaskTypeOK', AnyLagInv, ExplainInv, ReconcileTaskRun
    PROVE  ExplainInv'
<1>1. /\ op.pc \in {"dispatch", "create"} /\ op.run \in Run
      /\ Dispatches
      /\ \/ /\ op'.mem.output = op.mem.output
            /\ op'.mem.phase \in {op.mem.phase, "Running"}
         \/ op'.mem.phase \in Terminal /\ op'.mem.output = "Error"
         \/ /\ op'.mem.phase \in Terminal /\ op'.mem.output = op.run
            /\ results[op.run] # {}
  BY TaskDispatch DEF AnyLagInv
<1>2. UNCHANGED <<store, cache, watch>> /\ op'.run = op.run /\ op'.base = op.base
  BY <1>1 DEF Dispatches
<1>3. results' = results
  BY DEF ReconcileTaskRun, GitWorkspaceError, BaseConfigMissing, CreateRunConfig,
         CreateJob, CreateJobFails, ObserveJob, jobVars
<1>4. op.mem.phase \notin Terminal
  BY <1>1 DEF AnyLagInv, OpInv
<1>5. op.run # ""
  BY <1>1, OutputAssumption
<1>6. TextOp'
  <2>1. HasOutput(op.run) => HasOutput(op.run)'
    BY <1>2 DEF HasOutput
  <2>2. "Running" \notin Terminal
    BY DEF Terminal
  <2>3. /\ op'.mem.output = op.mem.output \/ op'.mem.output # ""
        /\ op'.mem.phase \in Terminal => op'.mem.output # ""
    BY <1>1, <1>4, <1>5, <2>2
  <2> QED
    BY <1>1, <1>2, <2>1, <2>3, TextOpKept DEF ExplainInv, TaskTypeOK
<1>7. OpWithin([r \in Run |-> AnyPhase], [r \in Run |-> Texts(r)])'
  <2>1. op'.mem.phase \in AnyPhase
    BY DEF TaskTypeOK, TypeOK, Reconcile, RunObj, AnyPhase
  <2>2. op.mem.output \in Texts(op.run)
    BY <1>1 DEF ExplainInv, Within, OpWithin
  <2>3. op'.mem.output \in Texts(op.run)'
    BY <1>1, <1>2, <1>3, <2>2 DEF Texts, Message
  <2> QED
    BY <1>1, <1>2, <2>1, <2>3 DEF OpWithin
<1> QED
  BY <1>2, <1>3, <1>6, <1>7, ExplainKept

LEMMA ExplainRest ==
    ASSUME TaskTypeOK, ExplainInv,
           BaseConfigWritten \/ (\E r \in Run : JobStep(r)) \/ UNCHANGED vars
    PROVE  ExplainInv'
<1>1. UNCHANGED <<store, cache, watch, op>>
  BY JobRests
<1>2. \A r \in Run : results[r] \subseteq results'[r]
  BY DEF TaskTypeOK, BaseConfigWritten, JobStep, DeliverJob, JobEnds, JobExpires,
         CollectOwned, vars
<1>3. TextOp'
  BY <1>1 DEF ExplainInv, TextOp, HasOutput
<1>4. OpWithin([r \in Run |-> AnyPhase], [r \in Run |-> Texts(r)])'
  <2>1. op.pc # "idle" => op.run \in Run
    BY DEF TaskTypeOK, TypeOK
  <2>2. \A r \in Run : Texts(r) \subseteq Texts(r)'
    BY <1>2 DEF Texts
  <2> QED
    BY <1>1, <2>1, <2>2 DEF ExplainInv, Within, OpWithin
<1> QED
  BY <1>1, <1>2, <1>3, <1>4, ExplainKept

LEMMA ExplainInit == Init => ExplainInv
<1> SUFFICES ASSUME Init PROVE ExplainInv
  OBVIOUS
<1>1. NoObj.phase = "Absent" /\ NoObj.output = "" /\ NoObj.phase \notin Terminal
  BY DEF NoObj, Terminal
<1>2. \A r \in Run : store[r] = NoObj /\ cache[r] = NoObj
  BY DEF Init, RunInit
<1>3. ASSUME NEW r \in Run PROVE Copies(r) = {NoObj}
  <2>1. watch = << >>
    BY DEF Init, RunInit
  <2>2. Len(watch) = 0
    BY <2>1
  <2> QED
    BY <1>2, <2>2 DEF Copies
<1>4. TextInv
  BY <1>1, <1>2, <1>3 DEF TextInv
<1>5. op.pc = "idle"
  BY IdleRun DEF Init, RunInit
<1>6. RunsWithin([r \in Run |-> AnyPhase], [r \in Run |-> Texts(r)])
  <2>1. \A r \in Run : "Absent" \in AnyPhase /\ "" \in Texts(r)
    BY DEF AnyPhase, Texts, Gone
  <2>2. \A r \in Run : \A o \in {store[r]} \cup Copies(r) : o = NoObj
    BY <1>2, <1>3
  <2> QED
    BY <1>1, <2>1, <2>2 DEF RunsWithin
<1> QED
  BY <1>4, <1>5, <1>6 DEF ExplainInv, Within, OpWithin, TextOp

(* Whatever patches from stale copies mix, no run is Succeeded or Failed   *)
(* without a text that says why, and a text that is the output of a run is *)
(* that of a Job of its own that has ended.                                *)
THEOREM EndAlwaysExplained == Spec => []EndIsExplained
<1>1. ASSUME TaskTypeOK, TaskTypeOK', AnyLagInv, LagInv, ExplainInv, [Next]_vars
      PROVE  ExplainInv'
  <2>1. CASE Shared /\ UNCHANGED jobVars
    BY <1>1, <2>1, ExplainShared
  <2>2. CASE ReconcileTaskRun
    BY <1>1, <2>2, ExplainDispatch
  <2>3. CASE BaseConfigWritten \/ (\E r \in Run : JobStep(r)) \/ UNCHANGED vars
    BY <1>1, <2>3, ExplainRest
  <2> QED
    BY <1>1, <2>1, <2>2, <2>3 DEF Next, JobStep
<1>2. ExplainInv => EndIsExplained
  <2> SUFFICES ASSUME ExplainInv, NEW r \in Run
               PROVE  /\ store[r].phase \in Terminal => store[r].output # ""
                      /\ store[r].output \in Run =>
                            store[r].output = r /\ results[r] # {}
    BY DEF EndIsExplained
  <2>1. store[r].phase \in Terminal => store[r].output # ""
    BY DEF ExplainInv, TextInv
  <2>2. store[r].output \in Texts(r)
    BY DEF ExplainInv, Within, RunsWithin
  <2>3. store[r].output \in Run => store[r].output = r /\ results[r] # {}
    BY <2>2, OutputAssumption DEF Texts
  <2> QED
    BY <2>1, <2>3
<1>3. Init => LagInv /\ ExplainInv
  BY InitLag, ExplainInit DEF Init
<1> QED
  BY <1>1, <1>2, <1>3, LagNext, AnyLagInvariant, TypeCorrect, PTL DEF Spec
=============================================================================
