--------------------------- MODULE DaemonRunProofs ---------------------------
(***************************************************************************)
(* Proofs about DaemonRun, for any set of runs, limit and policy, and for  *)
(* any lag of the caches and number of failures, restarts and edits of the *)
(* Agent.                                                                  *)
(***************************************************************************)
EXTENDS DaemonRun, ReconcilerProofs

LEMMA SharedStep == Shared => ReconcilerStep
BY DEF Shared, ReconcilerStep

(* What the daemon and the clock do by themselves. *)
DaemonStep ==
    \/ AgentGetsReady
    \/ DaemonRestarts
    \/ \E r \in Run : DaemonReplies(r) \/ TimeoutElapses(r)

-----------------------------------------------------------------------------
(* Type correctness.                                                       *)

(* The parts of DaemonTypeOK that the daemon's variables make up. *)
OwnTypeOK ==
    /\ ready \in BOOLEAN
    /\ working \subseteq Run
    /\ reply \in Run \cup {""}
    /\ sent \in [Run -> 0..SentCap]
    /\ expired \subseteq Run

LEMMA InitType == Init => DaemonTypeOK
<1> SUFFICES ASSUME Init PROVE DaemonTypeOK
  OBVIOUS
<1>1. TypeOK
  BY RunInitType DEF Init
<1>2. /\ sent \in [Run -> 0..SentCap]
      /\ ready \in BOOLEAN
      /\ working \subseteq Run /\ expired \subseteq Run
      /\ reply \in Run \cup {""}
  <2>1. 0 \in 0..SentCap
    BY DEF SentCap
  <2> QED
    BY <2>1 DEF Init
<1> QED
  BY <1>1, <1>2 DEF DaemonTypeOK

(* A prompt counts once more, up to the cap. *)
LEMMA CountType ==
    ASSUME NEW s \in [Run -> 0..SentCap], NEW r \in Run
    PROVE  [s EXCEPT ![r] = IF @ < SentCap THEN @ + 1 ELSE @] \in [Run -> 0..SentCap]
BY DEF SentCap

(* A reconcile that was dispatched writes nothing and leaves the run as it *)
(* was, with an end, or Running, for the status patch.                     *)
Dispatched ==
    /\ UNCHANGED <<store, cache, watch, agent, edits>>
    /\ op' \in Reconcile
    /\ op'.pc = "patch" /\ op'.run = op.run /\ op'.spec = op.spec
    /\ op'.base = op.base
    /\ \/ op'.mem = op.mem
       \/ op'.mem.phase \in Terminal
       \/ op'.mem.phase = "Running" /\ op'.mem.output = op.mem.output

LEMMA DispatchShape ==
    ASSUME TypeOK, OwnTypeOK, ReconcileDaemonRun
    PROVE  op.pc = "dispatch" /\ op.run \in Run /\ Dispatched
<1>1. /\ op.pc = "dispatch" /\ op.run \in Run /\ op.mem \in RunObj
      /\ UNCHANGED <<store, cache, watch, agent, edits>>
  BY DEF TypeOK, Reconcile, ReconcileDaemonRun, PromptFails, PromptRefused,
         PromptAccepted, PromptAnswered, PollTimedOut, PollAgain, PollDone,
         PollMisread, Prompting, Polling
<1> SUFFICES Dispatched
  BY <1>1
<1>2. ASSUME NEW mem \in RunObj, ToPatch(mem),
             \/ mem = op.mem
             \/ mem.phase \in Terminal
             \/ mem.phase = "Running" /\ mem.output = op.mem.output
      PROVE  Dispatched
  BY <1>1, <1>2, ToPatchType, ToPatchFields DEF Dispatched
<1>3. CASE PromptFails \/ PollAgain
  BY <1>1, <1>2, <1>3 DEF PromptFails, PollAgain
<1>4. ASSUME NEW message \in Message, ToPatch(SetRunFailedStatus(op.mem, message))
      PROVE  Dispatched
  <2>1. SetRunFailedStatus(op.mem, message) \in RunObj
    BY <1>1, FailedType DEF Output
  <2>2. SetRunFailedStatus(op.mem, message).phase \in Terminal
    BY <1>1 DEF SetRunFailedStatus, RunObj, Terminal
  <2> QED
    BY <1>2, <1>4, <2>1, <2>2
<1>5. "Error" \in Message /\ "TimedOut" \in Message
  BY DEF Message
<1>6. CASE PromptRefused \/ PollTimedOut
  BY <1>4, <1>5, <1>6 DEF PromptRefused, PollTimedOut
<1>7. CASE PromptAccepted
  <2>1. /\ [op.mem EXCEPT !.phase = "Running"] \in RunObj
        /\ [op.mem EXCEPT !.phase = "Running"].phase = "Running"
        /\ [op.mem EXCEPT !.phase = "Running"].output = op.mem.output
    BY <1>1 DEF RunObj, Phase
  <2>2. ToPatch([op.mem EXCEPT !.phase = "Running"])
    BY <1>7 DEF PromptAccepted
  <2> QED
    BY <1>2, <2>1, <2>2
<1>8. ASSUME NEW text \in Run \cup {""},
             ToPatch([op.mem EXCEPT !.phase = "Succeeded", !.output = text])
      PROVE  Dispatched
  <2>1. /\ [op.mem EXCEPT !.phase = "Succeeded", !.output = text] \in RunObj
        /\ [op.mem EXCEPT !.phase = "Succeeded", !.output = text].phase \in Terminal
    BY <1>1 DEF RunObj, Phase, Output, Terminal
  <2> QED
    BY <1>2, <1>8, <2>1
<1>9. CASE PromptAnswered \/ PollDone \/ PollMisread
  BY <1>1, <1>8, <1>9 DEF PromptAnswered, PollDone, PollMisread, OwnTypeOK
<1> QED
  BY <1>1, <1>3, <1>6, <1>7, <1>9 DEF ReconcileDaemonRun

LEMMA DispatchType ==
    ASSUME TypeOK, OwnTypeOK, ReconcileDaemonRun
    PROVE  TypeOK' /\ OwnTypeOK'
<1>1. op.pc = "dispatch" /\ op.run \in Run /\ Dispatched
  BY DispatchShape
<1>2. faults' \in Nat
  BY DEF TypeOK, ReconcileDaemonRun, PromptFails, PromptRefused,
         PromptAccepted, PromptAnswered, PollTimedOut, PollAgain, PollDone, PollMisread
<1>3. TypeOK'
  BY <1>1, <1>2 DEF TypeOK, Dispatched
<1>4. sent' \in [Run -> 0..SentCap]
  <2> DEFINE more == [sent EXCEPT ![op.run] = IF @ < SentCap THEN @ + 1 ELSE @]
  <2>1. sent' = sent \/ sent' = more
    BY DEF ReconcileDaemonRun, PromptFails, PromptRefused, PromptAccepted,
           PromptAnswered, PollTimedOut, PollAgain, PollDone, PollMisread, Receive,
           daemonVars
  <2>2. sent \in [Run -> 0..SentCap]
    BY DEF OwnTypeOK
  <2>3. more \in [Run -> 0..SentCap]
    BY <1>1, <2>2, CountType
  <2> QED
    BY <2>1, <2>2, <2>3
<1>5. /\ ready' \in BOOLEAN /\ working' \subseteq Run
      /\ reply' \in Run \cup {""} /\ expired' \subseteq Run
  BY <1>1
  DEF OwnTypeOK, ReconcileDaemonRun, PromptFails, PromptRefused, PromptAccepted,
      PromptAnswered, PollTimedOut, PollAgain, PollDone, PollMisread, Receive, daemonVars
<1> QED
  BY <1>3, <1>4, <1>5 DEF OwnTypeOK

LEMMA NotReadyShape ==
    ASSUME TypeOK, AgentNotReady
    PROVE  /\ op.pc = "check" /\ op.run \in Run /\ op.base \in RunObj
           /\ [op.mem EXCEPT !.phase = "Pending"] \in RunObj
           /\ [op.mem EXCEPT !.phase = "Pending"].phase = "Pending"
           /\ [op.mem EXCEPT !.phase = "Pending"].output = op.mem.output
           /\ op.mem.phase # "Running"
BY DEF AgentNotReady, GatePassed, TypeOK, Reconcile, RunObj, Phase

(* The variables of every reachable state of the daemon-mode reconciler    *)
(* have the types DaemonTypeOK gives them, whatever the lag of the caches, *)
(* the failures and the restarts of the daemon.                            *)
THEOREM TypeCorrect == Spec => []DaemonTypeOK
<1>1. DaemonTypeOK <=> TypeOK /\ OwnTypeOK
  BY DEF DaemonTypeOK, OwnTypeOK
<1>2. ASSUME TypeOK, OwnTypeOK, [Next]_vars PROVE TypeOK' /\ OwnTypeOK'
  <2>1. CASE Shared /\ UNCHANGED daemonVars
    BY <1>2, <2>1, SharedStep, StepType DEF OwnTypeOK, daemonVars
  <2>2. CASE ReconcileDaemonRun
    BY <1>2, <2>2, DispatchType
  <2>3. CASE AgentNotReady
    <3>1. /\ store' \in [Run -> RunObj] /\ cache' \in [Run -> RunObj]
          /\ watch' \in Seq(Event)
      BY <1>2, <2>3, NotReadyShape, PatchType DEF AgentNotReady
    <3>2. op' \in Reconcile /\ op'.pc = "idle"
      BY <2>3, IdleType DEF AgentNotReady
    <3> QED
      BY <1>2, <2>3, <3>1, <3>2 DEF AgentNotReady, TypeOK, OwnTypeOK, daemonVars
  <2>4. CASE DaemonStep
    <3>1. faults' = faults \/ faults' = faults + 1
      BY <2>4
      DEF DaemonStep, AgentGetsReady, DaemonRestarts, DaemonReplies, TimeoutElapses,
          runVars
    <3>2. UNCHANGED <<store, cache, watch, agent, op, edits, sent>>
      BY <2>4
      DEF DaemonStep, AgentGetsReady, DaemonRestarts, DaemonReplies, TimeoutElapses,
          runVars
    <3>3. /\ ready' \in BOOLEAN /\ working' \subseteq Run
          /\ reply' \in Run \cup {""} /\ expired' \subseteq Run
      BY <1>2, <2>4, HurriedAssumption
      DEF DaemonStep, AgentGetsReady, DaemonRestarts, DaemonReplies, TimeoutElapses,
          OwnTypeOK
    <3>4. TypeOK'
      BY <1>2, <3>1, <3>2 DEF TypeOK
    <3> QED
      BY <1>2, <3>2, <3>3, <3>4 DEF OwnTypeOK
  <2>5. CASE UNCHANGED vars
    BY <1>2, <2>5 DEF TypeOK, OwnTypeOK, vars
  <2> QED
    BY <1>2, <2>1, <2>2, <2>3, <2>4, <2>5 DEF Next, DaemonStep
<1>3. ASSUME DaemonTypeOK, [Next]_vars PROVE DaemonTypeOK'
  BY <1>1, <1>2, <1>3 DEF DaemonTypeOK, OwnTypeOK
<1> QED
  BY <1>3, InitType, PTL DEF Spec

-----------------------------------------------------------------------------
(* Slots and seen ends, by the lemmas of ReconcilerProofs.                 *)

LEMMA DispatchKind ==
    ASSUME TypeOK, OwnTypeOK, ReconcileDaemonRun
    PROVE  Dispatches
<1>1. op.pc = "dispatch" /\ op.run \in Run /\ Dispatched
  BY DispatchShape
<1>2. op'.mem.phase \in {op.mem.phase, "Running"} \cup Terminal
  BY <1>1 DEF Dispatched
<1> QED
  BY <1>1, <1>2 DEF Dispatches, Dispatched

LEMMA NotReadyKind ==
    ASSUME TypeOK, AgentNotReady
    PROVE  \E mem \in RunObj : Patches(mem)
<1> DEFINE mem == [op.mem EXCEPT !.phase = "Pending"]
<1>1. /\ op.pc = "check" /\ mem \in RunObj
      /\ mem.phase = "Pending" /\ mem.output = op.mem.output
  BY NotReadyShape
<1>2. PatchStatus(op.run, op.base, mem) /\ op' = Idle
  BY DEF AgentNotReady
<1> HIDE DEF mem
<1> QED
  BY <1>1, <1>2 DEF Patches

LEMMA DaemonRests ==
    ASSUME DaemonStep \/ UNCHANGED vars
    PROVE  UNCHANGED <<store, cache, watch, op, sent>>
BY DEF DaemonStep, AgentGetsReady, DaemonRestarts, DaemonReplies, TimeoutElapses,
       runVars, vars

LEMMA LagNext ==
    ASSUME DaemonTypeOK, LagInv, [Next]_vars
    PROVE  LagInv'
<1>1. TypeOK /\ OwnTypeOK
  BY DEF DaemonTypeOK, OwnTypeOK
<1>2. CASE Shared
  BY <1>1, <1>2, SharedStep, StepLag
<1>3. CASE ReconcileDaemonRun
  BY <1>1, <1>3, DispatchKind, DispatchesLag
<1>4. CASE AgentNotReady
  BY <1>1, <1>4, NotReadyKind, PatchesLag
<1>5. CASE DaemonStep \/ UNCHANGED vars
  BY <1>5, DaemonRests, RestsLag DEF Rests
<1> QED
  BY <1>2, <1>3, <1>4, <1>5 DEF Next, DaemonStep

(* Whatever the lag, the edits, the failures and the restarts: no more     *)
(* runs of a daemon are Running than a limit of its Agent and the lag      *)
(* allow, with current copies or without the policy replace.               *)
THEOREM SlotsAlwaysBounded == Spec => []SlotsBounded
<1>1. Init => LagInv
  BY InitLag DEF Init
<1>2. LagInv => SlotsBounded
  BY DEF LagInv
<1> QED
  BY <1>1, <1>2, LagNext, TypeCorrect, PTL DEF Spec

(* Once the operator's cache shows the end of a run, and no reconcile of   *)
(* it is in flight, its status never changes again.                        *)
THEOREM EndSeenAlwaysStays == Spec => EndSeenStays
<1>1. ASSUME DaemonTypeOK, [Next]_vars PROVE EndStep
  <2>1. TypeOK /\ OwnTypeOK
    BY <1>1 DEF DaemonTypeOK, OwnTypeOK
  <2>2. CASE Shared
    BY <2>1, <2>2, SharedStep, StepEnd
  <2>3. CASE ReconcileDaemonRun
    BY <2>1, <2>3, DispatchKind, RestEnd DEF Dispatches
  <2>4. CASE AgentNotReady
    BY <2>1, <2>4, NotReadyKind, PatchesEnd
  <2>5. CASE DaemonStep \/ UNCHANGED vars
    BY <2>5, DaemonRests, RestEnd
  <2> QED
    BY <1>1, <2>2, <2>3, <2>4, <2>5 DEF Next, DaemonStep
<1>2. EndStep => [\A r \in Run : EndSeen(r) =>
                    \/ EndSeen(r)' /\ store'[r] = store[r]
                    \/ store'[r].phase = "Deleted"]_runVars
  BY DEF EndStep
<1> QED
  BY <1>1, <1>2, TypeCorrect, PTL DEF Spec, EndSeenStays

-----------------------------------------------------------------------------
(* Prompts come first.                                                     *)

(* The phases that run r may show, and the texts that any run may. *)
May(r) == {"", "Pending", "Queued", "Failed"} \cup Gone
             \cup (IF sent[r] > 0 THEN {"Running", "Succeeded"} ELSE {})
Heard == {""} \cup Message \cup {s \in Run : sent[s] > 0}

PromptInv ==
    /\ Within([r \in Run |-> May(r)], [r \in Run |-> Heard])
    /\ reply \in Heard
    /\ \A r \in working : sent[r] > 0

(* The sets only grow, since prompts are never unsent. *)
LEMMA MayGrow ==
    ASSUME DaemonTypeOK, DaemonTypeOK', \A r \in Run : sent[r] > 0 => sent'[r] > 0
    PROVE  Heard \subseteq Heard' /\ \A r \in Run : May(r) \subseteq May(r)'
BY DEF May, Heard

LEMMA BoundsMay ==
    Bounds([r \in Run |-> May(r)], [r \in Run |-> Heard])
BY DEF Bounds, May, Heard

(* A step that keeps the fields within the old sets keeps them within the  *)
(* new ones.                                                               *)
LEMMA WithinMay ==
    ASSUME TypeOK', NEW P, NEW T, Within(P, T)',
           \A r \in Run : P[r] \subseteq May(r)' /\ T[r] \subseteq Heard'
    PROVE  Within([r \in Run |-> May(r)], [r \in Run |-> Heard])'
<1>1. op'.pc # "idle" => op'.run \in Run
  BY DEF TypeOK
<1> QED
  BY <1>1 DEF Within, RunsWithin, OpWithin

LEMMA PromptShared ==
    ASSUME DaemonTypeOK, DaemonTypeOK', PromptInv,
           ReconcilerStep \/ \E mem \in RunObj : Patches(mem),
           UNCHANGED daemonVars
    PROVE  PromptInv'
<1>1. TypeOK /\ TypeOK' /\ UNCHANGED <<sent, reply, working>>
  BY DEF DaemonTypeOK, daemonVars
<1>2. PICK P : P = [r \in Run |-> May(r)]
  OBVIOUS
<1>3. PICK T : T = [r \in Run |-> Heard]
  OBVIOUS
<1>4. Within(P, T) /\ Bounds(P, T)
  BY <1>2, <1>3, BoundsMay DEF PromptInv
<1>5. Within(P, T)'
  BY <1>1, <1>4, StepWithin, PatchesWithin
<1>6. Heard' = Heard /\ \A r \in Run : May(r)' = May(r)
  BY <1>1 DEF Heard, May
<1>7. \A r \in Run : P[r] \subseteq May(r)' /\ T[r] \subseteq Heard'
  BY <1>2, <1>3, <1>6
<1>8. Within([r \in Run |-> May(r)], [r \in Run |-> Heard])'
  BY <1>1, <1>5, <1>7, WithinMay
<1> QED
  BY <1>1, <1>6, <1>8 DEF PromptInv

(* What the dispatch to the daemon does to the prompts. *)
LEMMA DispatchPrompts ==
    ASSUME DaemonTypeOK, DaemonTypeOK', PromptInv, ReconcileDaemonRun
    PROVE  /\ op.run \in Run
           /\ \A r \in Run : sent[r] > 0 => sent'[r] > 0
           /\ reply' \in Heard' /\ \A r \in working' : sent'[r] > 0
           /\ op'.mem.phase \in May(op.run)' /\ op'.mem.output \in Heard'
<1> DEFINE r == op.run
<1>1. /\ op.pc = "dispatch" /\ op.run \in Run /\ op.mem \in RunObj
      /\ op'.run = op.run /\ TypeOK
      /\ sent \in [Run -> 0..SentCap]
  <2>1. TypeOK /\ OwnTypeOK
    BY DEF DaemonTypeOK, OwnTypeOK
  <2> QED
    BY <2>1, DispatchShape DEF Dispatched, TypeOK, Reconcile, OwnTypeOK
<1>2. op.mem.phase \in May(r) /\ op.mem.output \in Heard
  BY <1>1 DEF PromptInv, Within, OpWithin
<1>3. op.mem.phase = "Running" => sent[r] > 0
  BY <1>2 DEF May, Gone
<1>4. reply \in Heard /\ \A s \in working : sent[s] > 0
  BY DEF PromptInv
<1>5. ASSUME UNCHANGED <<sent, reply, working>>, NEW mem \in RunObj, ToPatch(mem),
             mem.phase \in May(r), mem.output \in Heard
      PROVE  /\ \A s \in Run : sent[s] > 0 => sent'[s] > 0
             /\ reply' \in Heard' /\ \A s \in working' : sent'[s] > 0
             /\ op'.mem.phase \in May(op.run)' /\ op'.mem.output \in Heard'
  <2>1. op'.mem = mem
    BY <1>1, <1>5, ToPatchFields
  <2> QED
    BY <1>1, <1>4, <1>5, <2>1 DEF May, Heard
<1>6. ASSUME NEW message \in Message
      PROVE  /\ SetRunFailedStatus(op.mem, message) \in RunObj
             /\ SetRunFailedStatus(op.mem, message).phase \in May(r)
             /\ SetRunFailedStatus(op.mem, message).output \in Heard
  <2>1. SetRunFailedStatus(op.mem, message) \in RunObj
    BY <1>1, <1>6, FailedType DEF Output
  <2>2. /\ SetRunFailedStatus(op.mem, message).phase = "Failed"
        /\ SetRunFailedStatus(op.mem, message).output = message
    BY <1>1 DEF SetRunFailedStatus, RunObj
  <2> QED
    BY <1>6, <2>1, <2>2 DEF May, Heard
<1>7. ASSUME NEW text \in Run \cup {""}
      PROVE  /\ [op.mem EXCEPT !.phase = "Succeeded", !.output = text] \in RunObj
             /\ [op.mem EXCEPT !.phase = "Succeeded", !.output = text].phase = "Succeeded"
             /\ [op.mem EXCEPT !.phase = "Succeeded", !.output = text].output = text
  BY <1>1 DEF RunObj, Phase, Output
<1>8. ASSUME sent' = [sent EXCEPT ![r] = IF @ < SentCap THEN @ + 1 ELSE @]
      PROVE  sent'[r] > 0 /\ \A s \in Run : sent[s] > 0 => sent'[s] > 0
  BY <1>1, <1>8 DEF SentCap
<1>9. CASE PromptRefused \/ PollTimedOut
  <2>1. UNCHANGED <<sent, reply, working>>
    BY <1>9 DEF PromptRefused, PollTimedOut, daemonVars
  <2>2. "Error" \in Message /\ "TimedOut" \in Message
    BY DEF Message
  <2> QED
    BY <1>1, <1>5, <1>6, <1>9, <2>1, <2>2 DEF PromptRefused, PollTimedOut
<1>10. CASE PollAgain
  BY <1>1, <1>2, <1>5, <1>10 DEF PollAgain, daemonVars
<1>11. CASE PollDone \/ PollMisread
  <2>1. PICK text \in {reply, ""} :
           ToPatch([op.mem EXCEPT !.phase = "Succeeded", !.output = text])
    BY <1>11 DEF PollDone, PollMisread
  <2>2. text \in Run \cup {""} /\ text \in Heard
    BY <1>4, <2>1 DEF DaemonTypeOK, Heard
  <2>3. UNCHANGED <<sent, reply, working>> /\ op.mem.phase = "Running"
    BY <1>11 DEF PollDone, PollMisread, Polling, daemonVars
  <2>4. "Succeeded" \in May(r)
    BY <1>3, <2>3 DEF May
  <2> QED
    BY <1>1, <1>5, <1>7, <2>1, <2>2, <2>3, <2>4
<1>12. CASE PromptFails
  <2>1. ToPatch(op.mem) /\ reply' = reply
    BY <1>12 DEF PromptFails
  <2>2. CASE UNCHANGED <<working, sent>>
    BY <1>1, <1>2, <1>5, <2>1, <2>2
  <2>3. CASE Receive(r)
    <3>1. /\ sent' = [sent EXCEPT ![r] = IF @ < SentCap THEN @ + 1 ELSE @]
          /\ working' = working \cup {r} /\ working \subseteq Run
      BY <2>3 DEF Receive, DaemonTypeOK
    <3>2. op'.mem = op.mem
      BY <1>1, <2>1, ToPatchFields
    <3>3. sent'[r] > 0 /\ \A s \in Run : sent[s] > 0 => sent'[s] > 0
      BY <1>8, <3>1
    <3>4. Heard \subseteq Heard' /\ \A s \in Run : May(s) \subseteq May(s)'
      BY <3>3, MayGrow
    <3>5. May(r) \subseteq May(op.run)'
      BY <1>1, <3>4 DEF May
    <3> QED
      BY <1>1, <1>2, <1>4, <2>1, <3>1, <3>2, <3>3, <3>4, <3>5
  <2> QED
    BY <1>12, <2>2, <2>3 DEF PromptFails
<1>13. CASE PromptAccepted \/ PromptAnswered
  <2>1. sent' = [sent EXCEPT ![r] = IF @ < SentCap THEN @ + 1 ELSE @]
    BY <1>13 DEF PromptAccepted, PromptAnswered, Receive
  <2>2. sent'[r] > 0 /\ \A s \in Run : sent[s] > 0 => sent'[s] > 0
    BY <1>8, <2>1
  <2>3. Heard \subseteq Heard' /\ r \in Heard'
    BY <1>1, <2>2, MayGrow DEF Heard
  <2>4. {"Running", "Succeeded"} \subseteq May(op.run)'
    BY <1>1, <2>2 DEF May
  <2>5. working \subseteq Run
    BY DEF DaemonTypeOK
  <2>6. CASE PromptAccepted
    <3>1. /\ [op.mem EXCEPT !.phase = "Running"] \in RunObj
          /\ [op.mem EXCEPT !.phase = "Running"].phase = "Running"
          /\ [op.mem EXCEPT !.phase = "Running"].output = op.mem.output
      BY <1>1 DEF RunObj, Phase
    <3>2. op'.mem = [op.mem EXCEPT !.phase = "Running"]
      BY <1>1, <2>6, <3>1, ToPatchFields DEF PromptAccepted
    <3>3. reply' = reply /\ working' = working \cup {r}
      BY <2>6 DEF PromptAccepted, Receive
    <3> QED
      BY <1>1, <1>2, <1>4, <2>2, <2>3, <2>4, <2>5, <3>1, <3>2, <3>3
  <2>7. CASE PromptAnswered
    <3>1. op'.mem = [op.mem EXCEPT !.phase = "Succeeded", !.output = r]
      BY <1>1, <1>7, <2>7, ToPatchFields DEF PromptAnswered
    <3>2. reply' = r /\ working' = working
      BY <2>7 DEF PromptAnswered
    <3> QED
      BY <1>1, <1>4, <1>7, <2>2, <2>3, <2>4, <2>5, <3>1, <3>2
  <2> QED
    BY <1>13, <2>6, <2>7
<1> QED
  BY <1>1, <1>9, <1>10, <1>11, <1>12, <1>13 DEF ReconcileDaemonRun

LEMMA PromptDispatch ==
    ASSUME DaemonTypeOK, DaemonTypeOK', PromptInv, ReconcileDaemonRun
    PROVE  PromptInv'
<1>1. /\ op.run \in Run
      /\ \A r \in Run : sent[r] > 0 => sent'[r] > 0
      /\ reply' \in Heard' /\ \A r \in working' : sent'[r] > 0
      /\ op'.mem.phase \in May(op.run)' /\ op'.mem.output \in Heard'
  BY DispatchPrompts
<1>2. UNCHANGED <<store, cache, watch>> /\ op'.run = op.run
  BY DispatchKind DEF DaemonTypeOK, OwnTypeOK, Dispatches
<1>3. Heard \subseteq Heard' /\ \A r \in Run : May(r) \subseteq May(r)'
  BY <1>1, MayGrow
<1>4. \A r \in Run : Copies(r)' = Copies(r)
  BY <1>2 DEF Copies
<1>5. RunsWithin([r \in Run |-> May(r)], [r \in Run |-> Heard])'
  BY <1>2, <1>3, <1>4 DEF PromptInv, Within, RunsWithin
<1>6. OpWithin([r \in Run |-> May(r)], [r \in Run |-> Heard])'
  BY <1>1, <1>2 DEF OpWithin
<1> QED
  BY <1>1, <1>5, <1>6 DEF PromptInv, Within

LEMMA PromptRest ==
    ASSUME DaemonTypeOK, PromptInv, DaemonStep \/ UNCHANGED vars
    PROVE  PromptInv'
<1>1. UNCHANGED <<store, cache, watch, op, sent>>
  BY DaemonRests
<1>2. Heard' = Heard /\ \A r \in Run : May(r)' = May(r) /\ Copies(r)' = Copies(r)
  BY <1>1 DEF Heard, May, Copies
<1>3. working' \subseteq working /\ reply' \in {reply, ""} \cup working
  BY DEF DaemonStep, AgentGetsReady, DaemonRestarts, DaemonReplies, TimeoutElapses, vars
<1>4. reply' \in Heard
  BY <1>3 DEF PromptInv, Heard, DaemonTypeOK
<1>5. Within([r \in Run |-> May(r)], [r \in Run |-> Heard])'
  <2>1. op.pc # "idle" => op.run \in Run
    BY DEF DaemonTypeOK, TypeOK
  <2>2. RunsWithin([r \in Run |-> May(r)], [r \in Run |-> Heard])'
    BY <1>1, <1>2 DEF PromptInv, Within, RunsWithin
  <2>3. OpWithin([r \in Run |-> May(r)], [r \in Run |-> Heard])'
    BY <1>1, <1>2, <2>1 DEF PromptInv, Within, OpWithin
  <2> QED
    BY <2>2, <2>3 DEF Within
<1>6. \A r \in working' : sent'[r] > 0
  BY <1>1, <1>3 DEF PromptInv
<1> QED
  BY <1>2, <1>4, <1>5, <1>6 DEF PromptInv

LEMMA PromptInit == Init => PromptInv
<1> SUFFICES ASSUME Init PROVE PromptInv
  OBVIOUS
<1>1. NoObj.phase = "Absent" /\ NoObj.output = ""
  BY DEF NoObj
<1>2. \A r \in Run : store[r] = NoObj /\ cache[r] = NoObj
  BY DEF Init, RunInit
<1>3. ASSUME NEW r \in Run PROVE Copies(r) = {NoObj}
  <2>1. watch = << >>
    BY DEF Init, RunInit
  <2>2. Len(watch) = 0
    BY <2>1
  <2> QED
    BY <1>2, <2>2 DEF Copies
<1>4. RunsWithin([r \in Run |-> May(r)], [r \in Run |-> Heard])
  <2>1. \A r \in Run : "Absent" \in May(r) /\ "" \in Heard
    BY DEF May, Heard, Gone
  <2>2. \A r \in Run : \A o \in {store[r]} \cup Copies(r) : o = NoObj
    BY <1>2, <1>3
  <2> QED
    BY <1>1, <2>1, <2>2 DEF RunsWithin
<1>5. OpWithin([r \in Run |-> May(r)], [r \in Run |-> Heard])
  BY IdleRun DEF OpWithin, Init, RunInit
<1> QED
  BY <1>4, <1>5 DEF PromptInv, Within, Heard, Init

(* Whatever the lag, the edits, the failures and the restarts of the       *)
(* daemon, no run is Running or Succeeded whose prompt was never sent, a   *)
(* Running run can be counted, and no run shows a text that nobody asked   *)
(* the daemon for.                                                         *)
THEOREM AlwaysPromptedFirst == Spec => []PromptedFirst
<1>1. ASSUME DaemonTypeOK, DaemonTypeOK', PromptInv, [Next]_vars PROVE PromptInv'
  <2>1. CASE Shared /\ UNCHANGED daemonVars
    BY <1>1, <2>1, SharedStep, PromptShared
  <2>2. CASE ReconcileDaemonRun
    BY <1>1, <2>2, PromptDispatch
  <2>3. CASE AgentNotReady
    BY <1>1, <2>3, NotReadyKind, PromptShared DEF AgentNotReady, DaemonTypeOK
  <2>4. CASE DaemonStep \/ UNCHANGED vars
    BY <1>1, <2>4, PromptRest
  <2> QED
    BY <1>1, <2>1, <2>2, <2>3, <2>4 DEF Next, DaemonStep
<1>2. DaemonTypeOK /\ LagInv /\ PromptInv => PromptedFirst
  <2> SUFFICES ASSUME DaemonTypeOK, LagInv, PromptInv, NEW r \in Run
               PROVE  /\ store[r].phase = "Running" => store[r].label
                      /\ store[r].phase \in {"Running", "Succeeded"} => sent[r] > 0
                      /\ store[r].output \in Run => sent[store[r].output] > 0
    BY DEF PromptedFirst
  <2>1. store[r].phase = "Running" => store[r].label
    BY DEF LagInv, KeptInv
  <2>2. store[r].phase \in May(r) /\ store[r].output \in Heard
    BY DEF PromptInv, Within, RunsWithin
  <2>3. store[r].phase \in {"Running", "Succeeded"} => sent[r] > 0
    BY <2>2 DEF May, Gone
  <2>4. store[r].output \in Run => sent[store[r].output] > 0
    BY <2>2, OutputAssumption DEF Heard
  <2> QED
    BY <2>1, <2>3, <2>4
<1>3. Init => LagInv /\ PromptInv
  BY InitLag, PromptInit DEF Init
<1> QED
  BY <1>1, <1>2, <1>3, LagNext, TypeCorrect, PTL DEF Spec
=============================================================================
