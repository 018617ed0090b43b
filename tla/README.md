# agentops-core: TLA+ models and proofs

agentops-core is a Kubernetes operator that runs AI agents. Users write `Agent`,
`AgentRun`, `Channel`, `Provider` and `Integration` objects; five reconcilers turn
them into Deployments, Jobs and HTTP calls, and report back in the objects'
status. This directory models the operator's logic in TLA+, checks it with TLC on
small instances and proves what matters most with TLAPS for all instances. Paths
below are relative to the repository.

## 1. Inventory

| Part | State | Operations | What makes it correct |
|---|---|---|---|
| **AgentRun reconciler** `internal/controller/agentrun_controller.go` | `status.phase`, `status.output`, the agent label of each run; the Jobs and per-run ConfigMaps it creates; the daemon's `/status` | fetch, label, concurrency check (queue, reject, replace), create and observe a Job (task mode), prompt and poll (daemon mode), status patch | no more Running runs than `maxRuns` and what the caches miss; one execution per run; success is never invented; an end has its reason and, once seen, stays; every run ends |
| **Agent reconciler** `agent_controller.go`, `common.go` | `Agent.status.phase`, owned objects | resolve Integrations and Providers, apply owned objects, compute the phase | the phase follows the readiness of what it depends on, also when that appears late or goes away |
| **Provider, Integration reconcilers** `provider_controller.go`, `integration_controller.go` | finalizer, phase, `boundAgents` | add the finalizer, validate, block deletion while Agents refer to the object | nothing that is in use disappears; nothing unused stays for ever |
| **Channel reconciler** `channel_controller.go` | `Channel.status.phase`, owned objects | resolve Agent and Integration, apply owned objects | a Channel recovers when what it refers to appears |
| **MCP gateway** `images/mcp-gateway` | pending requests by JSON-RPC id, SSE connections, subprocess pipes; permission rules | spawn mode: bridge HTTP to a subprocess; proxy mode: filter `tools/call` | each request gets its own response; nobody waits for ever; a blocked call is never forwarded |
| **Token injector** `images/token-injector/main.go` | cached token and its expiry | refresh, inject | a request leaves with a live token |
| **Security merge** `internal/resources/security.go` | none | merge user overrides into the restricted profile, list what was refused | no combination weakens the profile; what is refused is reported |
| **Git workspace** `internal/resources/agent_git.go` | none | Integration and `spec.git` to a repository, token, branch; git environment and tools | a token is used for what its Integration covers only |
| **Builders** `internal/resources/*.go` | none | objects to ConfigMaps, pods, Services, RBAC, claims, Ingresses | what one object refers to, another provides |
| **Admission webhooks** `api/v1alpha1/*_webhook.go` | none | admit or refuse | webhook, reconciler and builders agree |
| Start-up, tracing, generated code | none of interest | wiring | not modelled |

How they interact: reconcilers never call each other; they share objects. The
Agent reconciler gives the AgentRun reconciler `agent.status.phase` (the gate of
daemon runs) and the base ConfigMap (needed by git runs). The AgentRun reconciler
reads through informer caches that trail the API server, writes the status with
JSON merge patches computed against the copy it read, and creates objects that
the Job controller and the garbage collector act upon. Each controller has one
worker (`MaxConcurrentReconciles` is not set), so reconciles of the same kind do
not overlap, but users, Jobs, daemons, informers and outages interleave with the
steps of each.

Hard behaviours, listed one by one under `hazards` in `PROJECT.json`: counting on
a stale cache; the concurrency check being repeated for runs that are Running;
outages between creating a Job and recording it; Jobs that are garbage-collected
before they were looked at; patches that mix two writers' fields; a daemon with one
status for all runs; prompts that time out after delivery; objects that nobody
watches; two owners of one name; children applied one write at a time; a token
that ages on its way; rules held in two places.

## 2. Modules

    RunSlots (abstract)
        ^  ImplementsSlots
    AgentRunReconciler --- ReconcilerProofs   Dependencies             McpSpawn
      |           \                \            |       \             /       \
      |         DaemonRun           \           |  DependenciesProofs |  McpSpawnProofs
    TaskRun      |     \             |    MCDependencies          MCMcpSpawn
      |   \      |  DaemonRunProofs -|
      |    \  MCDaemonRun            |
      |   TaskRunProofs -------------|
    MCTaskRun

         Workloads             TokenInjector                  PodSpec
         /       \                   |                    /      |       \
    MCWorkloads   |          TokenInjectorProofs  PodSecurity GitWorkspace ProviderConfig
           WorkloadsProofs                                \      |       /
                                                             AgentPod
                                                                |
                                              McpProxy   ChannelBridge
                                                   \        /
                                                    Handlers
                                                    /      \
                                             MCHandlers  HandlersProofs

**AgentRunReconciler** is the half of `Reconcile` that both modes share.
`store` holds the AgentRuns in the API server, `cache` the informer's copies, and
`watch` the events in between: `Write` appends an event, `Deliver` applies the
oldest, and at most `MaxLag` may be outstanding, so `MaxLag = 0` means that every
read sees every earlier write. `op` is the reconcile in flight, with the step it is
about to take and its local variables: `base` is the copy that `client.MergeFrom`
keeps, `mem` the object the code modifies. A reconcile is cut at its API writes:

| Step (`op.pc` before) | Code |
|---|---|
| `AgentNotFound`, `Labelled`, `EnsureLabel` (idle) | lines 77-134: fetch, skip finished runs, fetch the Agent, ensure the label |
| `QueueRun`, `RejectRun`, `CancelOldestRun`, `AdmitRun` (check) | `checkConcurrency`, `cancelOldestRun`, lines 161-174 |
| actions of TaskRun or DaemonRun (dispatch, create) | `reconcileTaskRun`, `reconcileDaemonRun` |
| `FinishReconcile` (patch) | lines 202-219: the status patch, also after an error |
| `AbortReconcile` (any) | an API call fails or the operator stops |

`MergeFrom` is what a JSON merge patch does: it writes the fields in which `mem`
differs from `base` and leaves the others as stored. A label `Update` carries a
resourceVersion, so from a stale copy it is a conflict and changes nothing. (After
that `Update` the later patch carries the new resourceVersion too; nobody else
writes a run between the two, so this makes no difference here.) `output` is empty,
one of the reconciler's messages, or the name of the run whose execution produced
it, which is all that the properties tell apart. A patch that
leaves `phase` and `output` alone (mode, model, conditions) is a no-op here.

**TaskRun** adds `reconcileTaskRun` and the Jobs. A Job ends once (`BackoffLimit` 0,
a deadline is always set) and is removed 120 s after its end (`JobExpires`). A
working operator looks at an unfinished run every few seconds, so that a Job that
disappears unobserved counts as a failure, except for a Queued run, whose Job
`Reconcile` does not look at. `execs` and `results` are history variables.

**DaemonRun** adds the readiness gate, `reconcileDaemonRun` and
`pollDaemonRunStatus`. The agent's endpoint is another repository's; its model is
what the two functions read: `working` (busy while not empty) and `reply`.
`expired` holds the runs whose `StartTime` is longer ago than the Agent's timeout.

**RunSlots** is the abstract specification: phases of runs and a limit; a run
starts only if fewer than `limit` others are Running, ends from any unfinished
phase, and then stays as it is. A Running run cannot be demoted. `ImplementsSlots`
(in AgentRunReconciler) maps `phase` to the stored phases and `limit` to the
Agent's `maxRuns`.

**Dependencies** is the Provider and the Integration reconciler, which follow the
same protocol. `dep` holds the objects as stored (`state` says whether one exists
and whether it has a deletion timestamp, `fin` whether it carries the finalizer),
`refs` what each Agent refers to and `secrets` which Secrets have the key; each has
an informer cache and a stream of events, so that the three caches trail the store
independently. `due` is the work queue: `DeliverDep` is `For`, `DeliverRefs` and
`DeliverSecret` are the two `Watches` of the Provider controller with their map
functions; the Integration controller has neither. A reconcile is cut at its one
write:

| Step | Code |
|---|---|
| `ReconcileAbsent`, `AddFinalizer`, `ReconcileLive` | `Reconcile`: not found; finalizer missing; validate, count, compute the status |
| `RemoveFinalizer`, `DeletionBlocked` | `reconcileDelete` |
| `UpdateDep` | `r.Update`: a conflict if the object was written since it was read (`op.fresh`); removing the last finalizer removes the object |
| `PatchDep` | `patchStatus`: a merge patch without resourceVersion, so it applies to whatever object has the name; a blocked deletion is requeued |
| `WriteFails`, `OperatorRestarts` | the write returns an error; the operator is restarted and lists everything |

`kept` is a history variable: the Agents that referred to an object, with the
operator's knowledge, when its deletion was asked for, and still do. Users do not
remove the finalizer by hand, and a List of cached objects does not fail.

**McpSpawn** is the spawn mode of the MCP gateway: a goroutine per POST (`Send`:
`Register`, `Lock`, `Write`, `Receive` or `GiveUp`, `Unregister`), `readLoop` (`Scan`,
`Lookup`, `SendToChannel`, `Broadcast`) and one per SSE connection (`HandleSSE`). `mu`
is the mutex: critical sections that cannot block are single steps that need it
free, and `write` holds it from `Lock` to `Write`, which waits for room in `stdin`. A
request stands for the response channel it made: `pending` maps an id to a request
and `chan` holds at most one message. The subprocess reads `stdin`, answers what it
has read in any order, and may print notifications, lines that are not JSON, and
requests of its own. `disturbed` is a history variable: the requests whose id was
used for something else while they were open or when they began.

**Workloads** is the Agent and the Channel reconciler: how they loop. `obj`, `cache`
and `watch` are the objects, the informer's copies and the events in between, as
before; `child` holds the objects they own, by kind and name (`Key`: Deployment and
Service have the owner's bare name, so an Agent and a Channel may want the same
one), `pods` which Deployments have a ready replica, `dcache` and `told` the
Deployment informer, which shows readiness but triggers a reconcile only for changes
of the spec (`GenerationChangedPredicate`). Each controller has one worker, `op[c]`:

| Step (`op[c].pc` before) | Code |
|---|---|
| `StartAgent`, `StartChannel`, `ReconcileGone` (idle) | `Reconcile` up to the first write; a Channel without its Agent or Integration goes straight to `patch` as Failed |
| `ApplyChild`, `ApplyConflict`, `ApplyFails` (rbac, apply) | `reconcileOwnedResource` for the next kind in the code's order (`Rank`); `SetControllerReference` refuses a child of somebody else |
| `ResolveAgent` (rbac) | `resolveIntegrations`, `validateIntegrationsReady`, `resolveProviders`, `validateProvidersReady` and their three early ends |
| `FinishAgent`, `FinishChannel` (apply) | phase and conditions from the Deployment in the cache |
| `PatchStatus`, `PatchFails` (patch) | `patchStatus` and the requeue that `Reconcile` returns |
| `OperatorRestarts` | a restart: everything is listed and queued |

Integrations and Providers are read where the code reads them and never trigger a
reconcile (`ChangeDep`). `undone` is a history variable: children that a user deleted.

**TokenInjector** is the OAuth2 proxy. A request waits for the mutex, uses the cached
token (`GetCached`) or fetches one while it holds the mutex (`BeginFetch`, `Issue`,
`FetchDone`, `FetchFails`) and is forwarded. Time is in seconds; a token knows when it
was issued and when it expires, `expiresAt` is what `Get` believes. `Delay` bounds a
token's way from the endpoint and to the upstream. `TIMEOUT_SECONDS` defaults to 120,
as in the code; the header comment of `main.go` says 60 (line 25), which changes
nothing here.

**Handlers** is the way of one object from its submission to what runs: a webhook
admits or refuses it, the reconciler's own check decides, the builders render it; or
the MCP gateway serves a request. Its operators are in modules by source file:
**PodSecurity** (`security.go`), **GitWorkspace** (`agent_git.go`, the Integration's
types and checks), **ProviderConfig** (Provider's types and checks, the provider
entries of `config.json`, merging of call defaults), **PodSpec** (what a pod is: external),
**AgentPod** (the Agent's webhook, `configmap.go`, `agent_deployment.go`, `agent_job.go`,
`service.go`, `networkpolicy.go`, `pvc.go`, `rbac.go`), **ChannelBridge** (the Channel's
webhook, `channel.go`) and **McpProxy** (`proxy.go`, `permissions.go`). Objects are
records of the fields that decide something; `Is...` says which the CRDs let users
write. Environment variables keep their order, since the last of two of a name wins.

## 3. Runs

| Run | Instance | Shows |
|---|---|---|
| `taskrun_slots` | 2 runs created at the same second, 1 slot, each policy, Agent pending, known or deleted, 1 deletable run, 1 git run, fresh caches, 1 failure | `SlotsBounded`, `JobsWithinLimit`, `SingleExecution`, `GitJobHasConfig`, the refinement `ImplementsSlots`, and `EveryRunEnds` |
| `taskrun_lag` | 2 runs, 1 slot, queue or replace, 1 undelivered AgentRun event, Job informer lags, 1 edit of the Agent | `SucceededIsReal`, `RunningIsCounted`, `ReexecutedAfterEnd`, `EndIsExplained`, `EndSeenStays` |
| `taskrun_fifo` | 3 runs, 1 slot, queue, nothing fails | violation: `FIFOWait` |
| `taskrun_once` | 2 runs, 2 slots lowered to 1, nothing fails | violation: `ExecutedOnce` |
| `daemonrun_live` | 2 runs, 1 slot, each policy, time limits, a deletion, 1 failure or daemon restart | `OwnWhenUndisturbed`, `PromptedOnce`, `PromptedFirst`, `EveryRunEnds` |
| `daemonrun_output` | 2 runs, 2 slots, nothing fails | violation: `OutputIsOwn` |
| `dependencies` | 1 Provider, 1 Integration, 1 Agent, 1 Secret, 1 undelivered event of each kind, 3 user edits, 1 failure or restart | `HeldWhileInUse`, `ReportedIsProtected`, `StatusSettles`, `UnusedIsRemoved` |
| `mcpspawn` | 2 POSTs with the same id, or one of them a notification; 1 SSE connection; pipes and SSE channel of 1 message; 2 messages that answer nothing; 1 cancellation, write error or over-long line | `OwnWhenUndisturbed`, `ReaderNeverStuck`, `AllReturn` |
| `workloads` | a daemon Agent and a poll Channel of the same name; a task Agent, alone or with a webhook Channel; their Integration there or not; 1 undelivered event; 0 to 2 edits, deletions, failing pods, changes of an Integration or Provider, API errors or restarts | `ReportedOwnsChildren`, `AgentSettles`, `ChannelSettles` |
| `tokens` | 3 requests, tokens of 1, 4 and 300 s with and without a stated lifetime, leeway and timeout 2 s, ways of up to 1 s, 6 s | `FreshInFlight`, `NoRedundantFetch`, `AllAnswered` |
| `handlers` | about 63,000 objects and requests that vary what the code tells apart | `SecurityFloor`, `GitInScope`, `ToolCallsPoliced`, `AdmissionAgrees`, `PodCoherent`, `BridgeIsEquipped` |
| `handlers_chat` | the same | violation: `ChatNeedsDaemon` |

Bounds. Two runs and one slot are the smallest instance in which a run holds the
slot while another waits for it, is rejected or replaces it; that the bound on slots
holds for any number of runs and slots is proved. `taskrun_fifo` needs three runs: one
that runs and two that wait in an order. With lag, too, two runs are
enough for a reconcile to act on a copy that misses the other's last step. One
failure at any point covers each gap between two steps; what needs two failures is
a repetition of that. `execs` and `sent` count to "2 or more". `MaxEdits` bounds
edits of `spec.concurrency`. In `dependencies` the Agent may refer to objects that
do not exist yet, so that three edits reach creation, deletion while in use, and
the dropping of the reference or the re-creation of the object; with one event of
each kind outstanding the caches disagree about the order of what happened.
In `mcpspawn` pipes of one message block as soon as
two are sent, and two notifications fill the SSE channel. In `workloads` the two
objects of one name meet at each kind of child in each order; one event outstanding
lets each cache be behind the other; one mishap at each step, and two for the task
Agent, whose children nobody contests. In `tokens` three requests are one that
fetches, one that waits and one that comes later; the shortest token is dead on
arrival, the next is within the leeway for half of its life, the longest outlives the
run. In `handlers` each input set varies one handler's fields over all their
combinations and fixes the others; `MCHandlers.tla` lists them. Deadlock is not checked because the system rests
once every run has ended and been collected, or users and clients do nothing more.

What the hypotheses mean. `ChannelSettles` leaves out Failed Channels: those are
neither requeued nor do they hear of the Agent or Integration that appears, and TLC
shows one that stays Failed. `FreshInFlight` needs a leeway of at least both ways
(`TimeAssumption`) and is about tokens that live longer than these. `PodCoherent`
leaves out Agents with two tools or two context files of one name and runs that have
their Agent's name, `BridgeIsEquipped` Channels with the block of another type:
nothing checks these, and the pod is then not as it should be. A user who sets
`GITLAB_PROJECT` has it next to a bound group, which `GitInScope` allows; and
`BridgeIsEquipped` speaks of Integrations that their webhook lets through, which have
one block only. The hazards in `PROJECT.json` say what happens.

`SecurityFloor` says three things. Every container keeps the restricted profile.
SELinux options, on which the Pod Security Standards have a rule of their own, are
none or the user's: the code passes them on and leaves them to the cluster's admission
policy. Each field that a user sets is in force or reported, but for those that the
merge never looks at (`ignored`: `appArmorProfile`, `windowsOptions`, `procMount`,
`sysctls`, `supplementalGroupsPolicy`, `seLinuxChangePolicy`), which the CRDs accept
and which are dropped without a report. That they are not in force is part of the
first, since the profile restricts four of them.

In `GitInScope` paths are strings of letters, slashes, dots and percent signs. A
project is covered by a group if the group is among the project's `Namespaces`, what
precedes one of its slashes; if there is an allow-list, the project is on it. For a
group without an allow-list the claim is restricted to paths in normal form
(`IsNormal`: no empty segment, no `.` or `..`, nothing percent-encoded): the others
pass the comparison in `ResolveGitWorkspace`, since `spec.git.project` has no pattern,
and are cloned as they are written; what the server takes them for is not modelled.
`ToolCallsPoliced` is about a single call at `POST /mcp`. A batch of calls (a body of
the shape `other`) and requests by another method or route are forwarded unpoliced.
`AdmissionAgrees` takes the Secret into account (`keyExists`) and Agents and
Integrations that are not there. That a chat Channel has a daemon Agent is a property
of its own, `ChatNeedsDaemon`, since the code does not see to it.

`SlotsBounded` is about any lag: `checkConcurrency` counts what the cache shows, so
each event that it has not seen may hide one Running run. Limits may be edited; the
bound is then some limit that the Agent may have. With `replace` and caches that
are two or more events behind no bound holds: a run that has ended is cancelled again
on a stale copy, and each repetition admits one more. With fresh caches `replace` is bound by the limit as well.
`EndSeenStays` speaks of an end that the cache shows, with no reconcile of the run in
flight: before that a patch from an older copy may still change it. Four properties and
the refinement are about fresh caches and an unchanged Agent (`MaxLag = 0`,
`MaxEdits = 0`) and are checked by TLC only: `ImplementsSlots`, because with a lag
`RunSlots` is not implemented; `JobsWithinLimit`, `SingleExecution` and `PromptedOnce`,
which in addition need that nothing failed, and the first that the policy is not
`replace`, which leaves the replaced run's Job executing; and `OwnWhenUndisturbed` of
DaemonRun, which has its conditions in its name. What is left of them whatever the lag,
failures and edits is `ReexecutedAfterEnd`, `EndIsExplained`, `PromptedFirst`,
`SucceededIsReal`, `RunningIsCounted`.

Fairness. The work queue is first-in first-out and an unfinished run is put back
on it by `RequeueAfter`, by an error, or by the list at start-up: each run is
reconciled again and again (strong fairness of `StartReconcile(r)`, because other
runs' reconciles disable it in between), and a reconcile that has begun goes on
(weak fairness of its steps). Jobs end because of their deadline, informers catch
up, the Agent reconciler writes the ConfigMap and, in daemon mode, the agent gets
ready and time passes. Nothing is assumed of the daemon: that every daemon run
ends rests on the time limit. Users, failures and restarts are not fair.
In Dependencies an object on the work queue is reconciled (strong fairness, as the
worker may be busy with another), a reconcile that has begun goes on, and
informers catch up; nothing is on the queue unless an event, an error or a requeue
put it there. In McpSpawn goroutines go on, the mutex is not starved (Go's mutex
hands over to a waiter after 1 ms), and the subprocess reads and answers as far as
the pipes let it; clients, SSE readers and unasked messages are not fair.
In Workloads, as in Dependencies, what is on a queue is reconciled (strong fairness:
the worker may be busy), a reconcile goes on, informers catch up; the garbage
collector collects and the Deployment controller brings pods up. In TokenInjector the
mutex does not starve a waiter and both round trips end, by `http.Client.Timeout` or by
the upstream's answer or transport error.

`AllReturn` is checked for a subprocess that reads its stdin while it waits to print
(`Duplex = TRUE`). For one that does not (`Duplex = FALSE`) TLC finds the deadlock that
the comment on `AllReturn` describes with three requests and two notifications:
`write` holds the mutex and waits for room in stdin, the subprocess waits for room
in stdout, and `readLoop`, which would make room, waits for the mutex.

Findings. `taskrun_fifo`: the README calls `queue` a "FIFO wait", but a freed slot
goes to whichever run is reconciled first. `taskrun_once`: the API comment says
that an AgentRun is a single execution, but the concurrency check is repeated for
Running runs, so that after `maxRuns` was lowered a Running run becomes Queued, its
Job ends and is removed, and it is executed again. `daemonrun_output`: `/status`
does not say which run its output is of, so that with two Running runs each is
given the text of the prompt that ended last. `handlers_chat`: the Channel's webhook
leaves it to the controller to refuse a chat Channel with a task Agent, and the
controller does not look: the bridge is deployed, without `AGENT_URL`.

## 4. Proofs

`ReconcilerProofs` holds what `TaskRunProofs` and `DaemonRunProofs` share, as the two
modules share AgentRunReconciler: types, how copies of an object come about
(`WriteCopies`, `DeliverCopies`), what a merge patch can do (`PatchEffect`), and the
kinds of steps by what they do to the runs (`StepKinds`: the step rests, patches the run
of the reconcile, cancels another, or goes on to its mode). Nothing is assumed of the
constants but `RunAssumption`, `OutputAssumption` and `GitAssumption`: the theorems
are about every set of runs, limit and policy, any lag, and any number of failures,
deletions and edits of the Agent.

`TaskRunProofs` proves:

- `TypeCorrect`: `Spec => []TaskTypeOK`;
- `NeverFalseSuccess`: `Spec => []SucceededIsReal`;
- `RunningAlwaysCounted`: `Spec => []RunningIsCounted`;
- `GitJobAlwaysHasConfig`: `Spec => []GitJobHasConfig`;
- `SlotsAlwaysBounded`: `Spec => []SlotsBounded`;
- `EndSeenAlwaysStays`: `Spec => EndSeenStays`;
- `AlwaysReexecutedAfterEnd`: `Spec => []ReexecutedAfterEnd`;
- `EndAlwaysExplained`: `Spec => []EndIsExplained`.

The second and third are not inductive: a patch is computed from old copies, so what
is stored next depends on what the cache and the undelivered events say now. The
invariant `AnyLagInv` therefore speaks of all copies of a run (`Copies(r)`: the
cached one and those on their way): if any copy has the label, the stored run has
it (`LabelInv`; labels are never removed and `Update` conflicts on stale copies); a
Running copy was written after a Job was created (`StartedInv`); the reconcile in
flight concerns a labelled run and carries Running or Succeeded only with reason
(`OpInv`); a Job that exists was created, and a Job that the store or the cache
shows as succeeded has succeeded (`ResultInv`). One step per action puts them
together (`AnyLagShared`, `AnyLagReconcile`, `AnyLagJobStep`). For the fourth,
`ConfigFirst` adds that a reconcile about to create the Job of a git run has its
ConfigMap, and `CacheTrails` that the newest copy of a run is what is stored, so that
only a run which is really deleted loses it.

`SlotsBounded` is not inductive because the slot is counted in the cache, several steps
before it is taken. `LagInv` adds `KeptInv` (labels; the cache and the events on their
way end in the store; at most `MaxLag` events are on their way; a Running run has the
label) and `OpRoom`: a reconcile past the check has room for its run, counted in the
store (`Room`; `Held(r)` are the Running runs other than r). A run that is Running and
that the cache does not show as such has an event on its way (`WatchedRuns`), so that
the count misses at most `MaxLag` of them (`CheckRoom`); nobody else starts a run
before the reconcile does (`RoomKept`, `RoomTaken`). Under `replace` with current copies
the cancelled run makes the room; with a lag it need not, hence the hypothesis.
`EndSeenStays` follows from the kinds of steps (`EndStep`): a reconcile begins only on
an unfinished copy, and a cancellation only on one that is Running, and here the one
copy there is has ended.

`AgainInv` says that a run which was executed has its Job there or a result, whatever
the Job informer shows: a Job is created by name, so where one exists no second is
created. For the texts, `Within(P, T)` says of all copies of all runs, the stored
ones and those of the reconcile in flight that their phases are in P and their texts in
T, which a merge patch keeps although it mixes copies (`PatchWithin`); `ExplainInv` is
an instance of it that lets a run have no text but a message of the reconciler or, once
a Job of it has ended, its own. `TextInv` and `TextOp` add that an end has a text: it is
written with one, and a text is never taken away.

`DaemonRunProofs` proves:

- `TypeCorrect`: `Spec => []DaemonTypeOK`;
- `SlotsAlwaysBounded` and `EndSeenAlwaysStays`, with `LagInv` and `EndStep`, and the
  readiness gate, prompts and polls in place of the Job steps;
- `AlwaysPromptedFirst`: `Spec => []PromptedFirst`, from `PromptInv`, another instance of
  `Within`: no copy of a run that was not prompted says Running or Succeeded (`May`), and
  no text is that of a run which was not prompted, the daemon's last reply included
  (`Heard`).

`DependenciesProofs` proves, for all sets of Providers, Integrations, Agents and
Secrets, any lag and any number of edits and failures, from `DepAssumption`:

- `DepTypeCorrect`: `Spec => []TypeOK`;
- `NeverRemovedInUse`: `Spec => []HeldWhileInUse`;
- `AlwaysProtected`: `Spec => []ReportedIsProtected`.

Both safety properties are about a write that relies on a copy read earlier.
`ProtectInv` says: the newest copy of an object is what is stored (`SyncInv`); a
reconcile whose copy is current read exactly that (`FreshInv`), and if it is about
to remove the finalizer nobody in `kept` refers to the object (`UpdateInv`); what is
in `kept` is referred to in the store, the cache and all events in between
(`KeptInv`), so that a count which finds no Agent proves that `kept` is empty; and
the finalizer, once seen on an object that is not deleted, is still on the object
of that name (`FinInv`, `PatchInv`), so that a late patch never gives a phase to an
unprotected one.

`TokenInjectorProofs` proves, for all requests, lifetimes, leeways, timeouts and
delays that satisfy `TimeAssumption`:

- `TokenTypeCorrect`: `Spec => []TypeOK`;
- `TokensAlwaysFresh`: `Spec => []FreshInFlight`;
- `FetchesNeverRedundant`: `Spec => []NoRedundantFetch`.

`TokenInv` strengthens them: the mutex is held by the one request that fetches
(`MutexHeld`); an answer is at most `Delay` old and promises no more than the token's
lifetime (`AnswerHonest`); hence the cache's expiry is late by at most `Delay`
(`CacheHonest`), and what sets out with more than the leeway left has more than `Delay`
left of its true life (`SentInTime`). `NoRedundantFetch` is part of it because nobody
writes the cache while the mutex is held.

`HandlersProofs` proves, for all sets of inputs (`InputAssumption`, `SecurityAssumption`,
`ProxyAssumption`, `WorkspaceAssumption`, `MemoryAssumption`), with lists and paths of any length:

- `FloorAlwaysHolds`: `Spec => []SecurityFloor`, from `HandlersInv` (what was rendered
  went through `ApplySecurity` last, with the overrides of the object) and lemmas on the
  two merges, field by field, those included that the code passes on or ignores;
- `ToolCallsAlwaysPoliced`: `Spec => []ToolCallsPoliced`, for rules and values of any
  length, from `ServedByHandler` and `PatternDenotes` (a prefix comparison is what a
  trailing star denotes);
- `AdmissionAlwaysAgrees`: `Spec => []AdmissionAgrees`, from `Handled`: what is known of
  an object of each kind at each stage, from the webhook's verdict to what was rendered;
- `BridgeAlwaysEquipped`: `Spec => []BridgeIsEquipped`;
- `GitAlwaysInScope`: `Spec => []GitInScope`;
- `PodAlwaysCoherent`: `Spec => []PodCoherent`;
- of operators alone: `PrefixIsNamespace` (for paths of any characters and length, a
  project begins with the group and a slash exactly if the group is one of its
  `Namespaces`, which a comparison without the slash would not give),
  `ProviderChecksAgree` (webhook and reconciler), `OverridesWin` (each merged call
  setting is the Agent's, or else the Provider's).

`BridgeIsEquipped` and `GitInScope` are about what the kubelet makes of an environment
with repeated names, after the builders put it together from many lists. `Nowhere`,
`LastIs` and `Sole` say what one list has of a name; lemmas carry them over
concatenation (what comes last wins), over `FlattenSeq` of the lists of tools, Providers
and Integrations, and over `SetToSeq`. What `FlattenSeq` computes is a matter of
induction, which is done here without the library's induction rules: a counterexample
of least length is excluded (`LeastNat`, from the well-foundedness of `<`).
`InputAssumption` says that slices are lists and that the objects are those that the
references name: all of them in their order (`Resolves`), or for a run those that are
there (`Found`). One reconcile reads one version of each.

`PodCoherent` needs more of the same lists. `Distinct` says that no two entries agree in
a field, and is carried over concatenation and `FlattenSeq` (`FlattenDistinct`); with it
`IsVolumes` and `WellMounted` follow the volumes and mounts from `BuildVolumes` and the
two kinds of containers through `ApplySecurity`, which adds `/tmp`, to the pod of a
daemon (`PodBuilt`) and of a run (`JobBuilt`). A credential is what the last entry of
its variable says: all entries of it come from Providers of one name, which are one
(`ProvidersLast`), and neither git identity has a variable of that kind
(`NoCredential`). `RunTools` shows that the tool of the git platform is added once.

`McpSpawnProofs` proves, for all requests, ids, pipes, SSE connections and faults, for
either kind of subprocess, from `SpawnAssumption`:

- `SpawnTypeCorrect`: `Spec => []TypeOK`;
- `ResponsesAlwaysOwn`: `Spec => []OwnWhenUndisturbed`;
- `ReaderNeverWaits`: `Spec => []ReaderNeverStuck`.

Both properties are about the end of a way that begins with `pending[id] = ch` and leads
through two pipes, the subprocess and `readLoop`. `SpawnInv` follows it: the mutex is
held by the request that writes (`SendInv`); an entry of `pending` is a registered
request of that id (`PendingInv`); and, for a request that is registered and
undisturbed, whatever carries its id is the request or its response (`OwnId`), this is
in one place only (`OnePlace`, without which a second response could fill the channel of
one message), and what it has been handed is its own (`Handed`).

`WorkloadsProofs` proves, for all Agents and Channels, names and specs, any lag and any
number of edits, deletions, errors and restarts, from `WorkloadAssumption`:

- `WorkloadsTypeCorrect`: `Spec => []TypeOK`;
- `ChildrenAlwaysOwned`: `Spec => []ReportedOwnsChildren`.

The status patch may carry a phase from an old copy, so `OwnInv` makes the claim of
every copy of an object (`Copy`): the stored one, the cached one, those on their way and
the two that a reconcile holds; and a reconcile has applied what it has not still to do
(`InFlight`). It is inductive because a child that has an owner stays that owner's until
a user deletes the child or the owner (`Steady`): `ApplyChild` refuses a child of
another object, and the garbage collector takes the children of objects that are gone,
which never come back.

Only model-checked: liveness (`EveryRunEnds`, `StatusSettles`, `UnusedIsRemoved`,
`AllReturn`, `AgentSettles`, `ChannelSettles`, `AllAnswered`), which is out of the
prover's reach, and what is true only with fresh caches and an unchanged Agent
(`ImplementsSlots`, `JobsWithinLimit`, `SingleExecution`, `PromptedOnce`, and
`OwnWhenUndisturbed` of DaemonRun): a theorem would have to assume what informers do
not give. Every other invariant and action property that a passing run checks is
proved. No module uses a RECURSIVE operator.

## 5. Not modelled

`cmd/main.go` and `internal/tracing` (flags, wiring, exporters: no state that decides
anything), generated code, CRDs as such (their enums and patterns are in the `Is...`
predicates), the Helm chart. The branch for an unknown agent mode (the CRD's enum
excludes it), fields nothing depends on (model, cost, trace ids), texts (messages,
prompts, protocol parts), resource quantities, sizes of claims, TLS of Ingresses and
probes, and patches of
`status.outcome` by the agent runtime, which touch no field modelled here. Chat
channels that prompt a daemon directly are not modelled either; they add prompts that
no AgentRun stands for. The operator is taken to have one leader. In Dependencies and
Workloads what makes a configuration valid is a Boolean; what it is, is in Handlers.
An Agent that starts to refer to an object after `reconcileDelete` has listed the
Agents is left with a dangling reference; the models allow this, and no property
excludes it. Workloads leaves out that an Ingress, a NetworkPolicy or a PVC which is
no longer wanted is not removed: no property speaks of children that are not needed.

## 6. Plan

Done: the AgentRun reconciler (AgentRunReconciler, TaskRun, DaemonRun, RunSlots), the
Provider and Integration reconcilers (Dependencies), the Agent and Channel reconcilers
(Workloads), both modes of the MCP gateway (McpSpawn, McpProxy), the token injector
(TokenInjector), and webhooks, builders, security merge and git workspaces (Handlers).

Every safety property that a run checks is proved, but for those that hold with fresh
caches only; these and liveness are left to TLC.
