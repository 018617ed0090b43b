------------------------------ MODULE DaemonRun ------------------------------
(***************************************************************************)
(* Daemon-mode AgentRuns: the readiness gate of Reconcile,                 *)
(* reconcileDaemonRun and pollDaemonRunStatus of agentrun_controller.go,   *)
(* and the agent's HTTP endpoint as they use it.  The endpoint takes       *)
(* prompts on /prompt and has one /status for all of them: whether it is   *)
(* busy, and the text it produced last.                                    *)
(***************************************************************************)
EXTENDS AgentRunReconciler

CONSTANT Hurried    \* the runs whose time limit may elapse

ASSUME HurriedAssumption == Hurried \subseteq Run

VARIABLES
    ready,    \* agent.status.phase is Running
    working,  \* the runs whose prompts the daemon is working on
    reply,    \* the text of /status: the run it answers, or ""
    sent,     \* prompts delivered for each run so far: 0, 1 or "2 or more"
    expired   \* the runs whose StartTime is longer ago than the Agent's timeout

daemonVars == <<ready, working, reply, sent, expired>>
vars == <<store, cache, watch, agent, op, faults, edits,
          ready, working, reply, sent, expired>>

SentCap == 2

DaemonTypeOK ==
    /\ TypeOK
    /\ ready \in BOOLEAN
    /\ working \subseteq Run
    /\ reply \in Run \cup {""}
    /\ sent \in [Run -> 0..SentCap]
    /\ expired \subseteq Run

Init ==
    /\ RunInit
    /\ ready = FALSE
    /\ working = {}
    /\ reply = ""
    /\ sent = [r \in Run |-> 0]
    /\ expired = {}

-----------------------------------------------------------------------------
(* The daemon and the clock.                                               *)

AgentGetsReady ==
    /\ ~ ready
    /\ ready' = TRUE
    /\ UNCHANGED <<runVars, working, reply, sent, expired>>

DaemonReplies(r) ==
    /\ r \in working
    /\ working' = working \ {r}
    /\ reply' = r
    /\ UNCHANGED <<runVars, ready, sent, expired>>

(* The daemon's pod restarts and forgets its prompts. *)
DaemonRestarts ==
    /\ faults < MaxFaults
    /\ faults' = faults + 1
    /\ ready' = FALSE
    /\ working' = {}
    /\ reply' = ""
    /\ UNCHANGED <<store, cache, watch, agent, op, edits, sent, expired>>

TimeoutElapses(r) ==
    /\ r \in Hurried \ expired
    /\ store[r].phase = "Running"
    /\ expired' = expired \cup {r}
    /\ UNCHANGED <<runVars, ready, working, reply, sent>>

-----------------------------------------------------------------------------
(* The readiness gate, which only a Running run passes unconditionally.    *)

GatePassed == op.mem.phase = "Running" \/ ready

AgentNotReady ==
    /\ op.pc = "check"
    /\ ~ GatePassed
    /\ PatchStatus(op.run, op.base, [op.mem EXCEPT !.phase = "Pending"])
    /\ op' = Idle
    /\ UNCHANGED <<agent, faults, edits, daemonVars>>

-----------------------------------------------------------------------------
(* reconcileDaemonRun: the run is not Running yet, its prompt is sent.     *)

Prompting == op.pc = "dispatch" /\ op.mem.phase # "Running"

Receive(r) ==
    /\ working' = working \cup {r}
    /\ sent' = [sent EXCEPT ![r] = IF @ < SentCap THEN @ + 1 ELSE @]

(* No connection, or no answer within the HTTP client's timeout: in the    *)
(* second case the daemon has the prompt.  Either way the phase stays, and *)
(* the prompt is sent again by a later reconcile.                          *)
PromptFails ==
    /\ Prompting
    /\ faults < MaxFaults
    /\ faults' = faults + 1
    /\ Receive(op.run) \/ UNCHANGED <<working, sent>>
    /\ ToPatch(op.mem)
    /\ UNCHANGED <<store, cache, watch, agent, edits, ready, reply, expired>>

(* Mutant: the status code of the answer is not looked at. *)
PromptRefusedUnseen ==
    /\ Prompting
    /\ ToPatch([op.mem EXCEPT !.phase = "Running"])
    /\ UNCHANGED <<store, cache, watch, agent, faults, edits, daemonVars>>

PromptRefused ==
    /\ Prompting
    /\ ToPatch(SetRunFailedStatus(op.mem, "Error"))
    /\ UNCHANGED <<store, cache, watch, agent, faults, edits, daemonVars>>

(* Mutant: the run is left as it is. *)
PromptAcceptedSilently ==
    /\ Prompting
    /\ Receive(op.run)
    /\ expired' = expired \ {op.run}
    /\ ToPatch(op.mem)
    /\ UNCHANGED <<store, cache, watch, agent, faults, edits, ready, reply>>

(* The answer holds no output: the run is Running from now on. *)
PromptAccepted ==
    /\ Prompting
    /\ Receive(op.run)
    /\ expired' = expired \ {op.run}
    /\ ToPatch([op.mem EXCEPT !.phase = "Running"])
    /\ UNCHANGED <<store, cache, watch, agent, faults, edits, ready, reply>>

(* The answer holds the output. *)
PromptAnswered ==
    /\ Prompting
    /\ sent' = [sent EXCEPT ![op.run] = IF @ < SentCap THEN @ + 1 ELSE @]
    /\ reply' = op.run
    /\ ToPatch([op.mem EXCEPT !.phase = "Succeeded", !.output = op.run])
    /\ UNCHANGED <<store, cache, watch, agent, faults, edits, ready, working, expired>>

-----------------------------------------------------------------------------
(* pollDaemonRunStatus.                                                    *)

Polling == op.pc = "dispatch" /\ op.mem.phase = "Running"

(* Mutant: the time limit is not enforced. *)
PollUnlimited ==
    /\ Polling
    /\ op.run \in expired
    /\ ToPatch(op.mem)
    /\ UNCHANGED <<store, cache, watch, agent, faults, edits, daemonVars>>

PollTimedOut ==
    /\ Polling
    /\ op.run \in expired
    /\ ToPatch(SetRunFailedStatus(op.mem, "TimedOut"))
    /\ UNCHANGED <<store, cache, watch, agent, faults, edits, daemonVars>>

(* No usable answer, or the daemon is busy. *)
PollAgain ==
    /\ Polling
    /\ op.run \notin expired
    /\ \/ working # {} /\ faults' = faults
       \/ faults < MaxFaults /\ faults' = faults + 1
    /\ ToPatch(op.mem)
    /\ UNCHANGED <<store, cache, watch, agent, edits, daemonVars>>

(* Mutant: busy is not looked at. *)
PollDoneEarly ==
    /\ Polling
    /\ op.run \notin expired
    /\ ToPatch([op.mem EXCEPT !.phase = "Succeeded", !.output = reply])
    /\ UNCHANGED <<store, cache, watch, agent, faults, edits, daemonVars>>

(* The daemon is idle: what it said last is the output of this run. *)
PollDone ==
    /\ Polling
    /\ op.run \notin expired
    /\ working = {}
    /\ ToPatch([op.mem EXCEPT !.phase = "Succeeded", !.output = reply])
    /\ UNCHANGED <<store, cache, watch, agent, faults, edits, daemonVars>>

(* The status code is not looked at: an error with a JSON body reads as an *)
(* idle daemon that said nothing.                                          *)
PollMisread ==
    /\ Polling
    /\ op.run \notin expired
    /\ faults < MaxFaults
    /\ faults' = faults + 1
    /\ ToPatch([op.mem EXCEPT !.phase = "Succeeded", !.output = ""])
    /\ UNCHANGED <<store, cache, watch, agent, edits, daemonVars>>

ReconcileDaemonRun ==
    \/ PromptFails
    \/ PromptRefused
    \/ PromptAccepted
    \/ PromptAnswered
    \/ PollTimedOut
    \/ PollAgain
    \/ PollDone
    \/ PollMisread

-----------------------------------------------------------------------------

Shared ==
    \/ UserStep
    \/ Deliver
    \/ \E r \in Run : StartReconcile(r)
    \/ GatePassed /\ CheckConcurrency
    \/ FinishReconcile
    \/ AbortReconcile

Next ==
    \/ Shared /\ UNCHANGED daemonVars
    \/ AgentNotReady
    \/ ReconcileDaemonRun
    \/ AgentGetsReady
    \/ DaemonRestarts
    \/ \E r \in Run : DaemonReplies(r) \/ TimeoutElapses(r)

Spec == Init /\ [][Next]_vars

(* As in TaskRun, every unfinished run is reconciled again and again and a *)
(* reconcile goes on.  Time passes, and the Agent gets ready, again after  *)
(* each restart.  The daemon need not ever reply.                          *)
Fairness ==
    /\ \A r \in Run :
          /\ SF_vars(StartReconcile(r) /\ UNCHANGED daemonVars)
          /\ WF_vars(TimeoutElapses(r))
    /\ WF_vars(AgentNotReady \/ (GatePassed /\ CheckConcurrency /\ UNCHANGED daemonVars))
    /\ WF_vars(ReconcileDaemonRun)
    /\ WF_vars(FinishReconcile /\ UNCHANGED daemonVars)
    /\ WF_vars(AgentGetsReady)

FairSpec == Spec /\ Fairness

-----------------------------------------------------------------------------
(* Properties.                                                             *)

(* "Textual output from the agent run" (api/v1alpha1/agentrun_types.go):   *)
(* the output of a Succeeded run is what the daemon said to its prompt.    *)
OutputIsOwn ==
    \A r \in Run : store[r].phase = "Succeeded" => store[r].output = r

(* One slot that is never handed over while the daemon is at work: no      *)
(* failure, no replacement, no deletion, no run that hit its time limit.   *)
Undisturbed ==
    /\ faults = 0
    /\ agent.spec.maxRuns = 1
    /\ agent.spec.policy # "replace"
    /\ \A r \in Run : store[r].phase # "Deleted" /\ store[r].output # "TimedOut"

(* /status does not say which run it is about; with one slot and nothing   *)
(* going wrong, pollDaemonRunStatus still gives every run its own output.  *)
OwnWhenUndisturbed == Undisturbed => OutputIsOwn

(* However stale the copies and whatever fails or restarts: a run is only  *)
(* Running, or Succeeded, after its prompt has reached the daemon, a       *)
(* Running run carries the label by which checkConcurrency counts it, and  *)
(* the text of a run answers a prompt that was sent, if not always its own *)
(* (reconcileDaemonRun, pollDaemonRunStatus).                              *)
PromptedFirst ==
    \A r \in Run :
       /\ store[r].phase = "Running" => store[r].label
       /\ store[r].phase \in {"Running", "Succeeded"} => sent[r] > 0
       /\ store[r].output \in Run => sent[store[r].output] > 0

(* With fresh caches, an unchanged Agent and no failure, the prompt of a   *)
(* run reaches the daemon at most once.                                    *)
PromptedOnce == faults = 0 => \A r \in Run : sent[r] <= 1
=============================================================================
