-------------------------- MODULE ReconcilerProofs --------------------------
(***************************************************************************)
(* Proofs about the mode-independent half of the AgentRun reconciler, for  *)
(* any set of runs: the lemmas that TaskRunProofs and DaemonRunProofs cite *)
(* for the steps that TaskRun and DaemonRun have in common.                *)
(***************************************************************************)
EXTENDS AgentRunReconciler, TLAPS, FiniteSetTheorems, SequenceTheorems

(* The steps of users, informers and the shared half of the reconciler. *)
ReconcilerStep ==
    \/ UserStep
    \/ Deliver
    \/ \E r \in Run : StartReconcile(r)
    \/ CheckConcurrency
    \/ FinishReconcile
    \/ AbortReconcile

-----------------------------------------------------------------------------
(* Type correctness.                                                       *)

LEMMA NoObjType == NoObj \in RunObj
BY DEF NoObj, RunObj, Gone, Output

LEMMA IdleType == Idle \in Reconcile /\ Idle.pc = "idle"
<1>1. (CHOOSE c \in Concurrency : TRUE) \in Concurrency
  BY RunAssumption
<1> QED
  BY <1>1, NoObjType DEF Idle, Reconcile, Pc

(* A write keeps the API server's objects, the cache and the events typed. *)
LEMMA WriteType ==
    ASSUME TypeOK, NEW r \in Run, NEW obj \in RunObj, Write(r, obj)
    PROVE  /\ store' \in [Run -> RunObj]
           /\ cache' \in [Run -> RunObj]
           /\ watch' \in Seq(Event)
<1> DEFINE q == IF obj = store[r] THEN watch
                                  ELSE Append(watch, [run |-> r, obj |-> obj])
<1>1. q \in Seq(Event)
  <2>1. [run |-> r, obj |-> obj] \in Event
    BY DEF Event
  <2>2. watch \in Seq(Event)
    BY DEF TypeOK
  <2>3. Append(watch, [run |-> r, obj |-> obj]) \in Seq(Event)
    BY <2>1, <2>2, AppendProperties
  <2> QED
    BY <2>2, <2>3
<1>2. CASE Len(q) > MaxLag
  <2>1. q # << >>
    BY <1>1, <1>2, RunAssumption
  <2>2. Head(q) \in Event /\ Tail(q) \in Seq(Event)
    BY <1>1, <2>1
  <2> QED
    BY <1>2, <2>2 DEF Write, TypeOK, Event
<1>3. CASE ~ (Len(q) > MaxLag)
  BY <1>1, <1>3 DEF Write, TypeOK
<1> QED
  BY <1>2, <1>3

LEMMA MergeType ==
    ASSUME NEW cur \in RunObj, NEW base \in RunObj, NEW mem \in RunObj
    PROVE  MergeFrom(cur, base, mem) \in RunObj
BY DEF MergeFrom, RunObj

LEMMA PatchType ==
    ASSUME TypeOK, NEW r \in Run, NEW base \in RunObj, NEW mem \in RunObj,
           PatchStatus(r, base, mem)
    PROVE  /\ store' \in [Run -> RunObj]
           /\ cache' \in [Run -> RunObj]
           /\ watch' \in Seq(Event)
<1>1. CASE Exists(store[r])
  <2>1. MergeFrom(store[r], base, mem) \in RunObj
    BY MergeType DEF TypeOK
  <2> QED
    BY <1>1, <2>1, WriteType DEF PatchStatus
<1>2. CASE ~ Exists(store[r])
  BY <1>2 DEF PatchStatus, TypeOK
<1> QED
  BY <1>1, <1>2

LEMMA FailedType ==
    ASSUME NEW o \in RunObj, NEW message \in Output
    PROVE  SetRunFailedStatus(o, message) \in RunObj
BY DEF SetRunFailedStatus, RunObj, Phase

LEMMA RunInitType == RunInit => TypeOK
<1> SUFFICES ASSUME RunInit PROVE TypeOK
  OBVIOUS
<1>1. store \in [Run -> RunObj] /\ cache \in [Run -> RunObj]
  BY NoObjType DEF RunInit
<1>2. watch \in Seq(Event)
  BY DEF RunInit
<1>3. agent \in [state : {"pending", "known", "deleted"}, spec : Concurrency]
  BY RunAssumption DEF RunInit
<1>4. op \in Reconcile /\ (op.pc # "idle" => op.run \in Run)
  BY IdleType DEF RunInit
<1> QED
  BY <1>1, <1>2, <1>3, <1>4 DEF TypeOK, RunInit

LEMMA StepType ==
    ASSUME TypeOK, ReconcilerStep
    PROVE  TypeOK'
<1> USE DEF TypeOK
<1>1. ASSUME NEW r \in Run, CreateRun(r) PROVE TypeOK'
  <2>1. PICK l \in BOOLEAN : Write(r, [phase |-> "", label |-> l, output |-> ""])
    BY <1>1 DEF CreateRun
  <2>2. [phase |-> "", label |-> l, output |-> ""] \in RunObj
    BY DEF RunObj, Phase, Output
  <2> QED
    BY <1>1, <2>1, <2>2, WriteType DEF CreateRun
<1>2. ASSUME NEW r \in Run, DeleteRun(r) PROVE TypeOK'
  <2>1. [NoObj EXCEPT !.phase = "Deleted"] \in RunObj
    BY DEF RunObj, NoObj, Gone, Output
  <2> QED
    BY <1>2, <2>1, WriteType DEF DeleteRun
<1>3. CASE AgentAppears
  BY <1>3 DEF AgentAppears
<1>4. CASE AgentDeleted
  BY <1>4 DEF AgentDeleted
<1>5. CASE EditConcurrency
  BY <1>5 DEF EditConcurrency
<1>6. CASE Deliver
  <2>1. Head(watch) \in Event /\ Tail(watch) \in Seq(Event)
    BY <1>6 DEF Deliver
  <2> QED
    BY <1>6, <2>1 DEF Deliver, Event
<1>7. ASSUME NEW r \in Run, AgentNotFound(r) PROVE TypeOK'
  <2>1. SetRunFailedStatus(cache[r], "AgentNotFound") \in RunObj
    BY FailedType DEF Output, Message
  <2> QED
    BY <1>7, <2>1 DEF AgentNotFound, Reconcile, Pc
<1>8. ASSUME NEW r \in Run, Labelled(r) PROVE TypeOK'
  BY <1>8 DEF Labelled, Reconcile, Pc
<1>9. ASSUME NEW r \in Run, EnsureLabel(r) PROVE TypeOK'
  <2>1. [cache[r] EXCEPT !.label = TRUE] \in RunObj
    BY DEF RunObj
  <2>2. /\ store' \in [Run -> RunObj]
        /\ cache' \in [Run -> RunObj]
        /\ watch' \in Seq(Event)
    BY <1>9, <2>1, WriteType DEF EnsureLabel
  <2>3. op' \in Reconcile /\ op'.run \in Run
    BY <1>9, <2>1 DEF EnsureLabel, Reconcile, Pc
  <2> QED
    BY <1>9, <2>2, <2>3 DEF EnsureLabel
<1>10. ASSUME op.pc # "idle"
       PROVE  /\ op.run \in Run /\ op.base \in RunObj /\ op.mem \in RunObj
              /\ Admitted \in Reconcile /\ Admitted.run \in Run
  BY <1>10 DEF Reconcile, Admitted, Pc, RunObj, Phase
<1>11. CASE QueueRun
  <2>1. [op.mem EXCEPT !.phase = "Queued"] \in RunObj
    BY <1>10, <1>11 DEF QueueRun, RunObj, Phase
  <2> QED
    BY <1>10, <1>11, <2>1, PatchType, IdleType DEF QueueRun
<1>12. CASE RejectRun
  <2>1. SetRunFailedStatus(op.mem, "Rejected") \in RunObj
    BY <1>10, <1>12, FailedType DEF RejectRun, Output, Message
  <2> QED
    BY <1>10, <1>12, <2>1, PatchType, IdleType DEF RejectRun
<1>13. CASE CancelOldestRun
  <2>1. PICK o \in Oldest(Active(op.run)) :
           /\ PatchStatus(o, cache[o], SetRunFailedStatus(cache[o], "Cancelled"))
           /\ op' = IF Exists(store[o]) THEN Admitted ELSE Idle
    BY <1>13 DEF CancelOldestRun
  <2>2. o \in Run
    BY DEF Oldest, Active
  <2>3. SetRunFailedStatus(cache[o], "Cancelled") \in RunObj
    BY <2>2, FailedType DEF Output, Message
  <2>4. /\ store' \in [Run -> RunObj]
        /\ cache' \in [Run -> RunObj]
        /\ watch' \in Seq(Event)
    BY <2>1, <2>2, <2>3, PatchType
  <2>5. op' \in Reconcile /\ (op'.pc # "idle" => op'.run \in Run)
    BY <1>10, <1>13, <2>1, IdleType DEF CancelOldestRun
  <2> QED
    BY <1>13, <2>4, <2>5 DEF CancelOldestRun
<1>14. CASE AdmitRun
  BY <1>10, <1>14 DEF AdmitRun
<1>15. CASE FinishReconcile
  BY <1>10, <1>15, PatchType, IdleType DEF FinishReconcile
<1>16. CASE AbortReconcile
  BY <1>16, IdleType DEF AbortReconcile
<1> QED
  BY <1>1, <1>2, <1>3, <1>4, <1>5, <1>6, <1>7, <1>8, <1>9, <1>11, <1>12, <1>13,
     <1>14, <1>15, <1>16
  DEF ReconcilerStep, UserStep, StartReconcile, CheckConcurrency

LEMMA ToPatchType ==
    ASSUME TypeOK, op.pc # "idle", NEW mem \in RunObj, ToPatch(mem)
    PROVE  op' \in Reconcile /\ op'.run \in Run
BY DEF ToPatch, TypeOK, Reconcile, Pc

-----------------------------------------------------------------------------
(* What holds whatever the lag.  The operator can only ever act on copies  *)
(* of a run that are in its cache or on their way to it.                   *)

Copies(s) == {cache[s]} \cup
             {watch[i].obj : i \in {j \in 1..Len(watch) : watch[j].run = s}}

(* A write adds the written object to the copies of its run, nothing else. *)
LEMMA WriteCopies ==
    ASSUME TypeOK, NEW r \in Run, NEW obj \in RunObj, Write(r, obj), NEW s \in Run
    PROVE  Copies(s)' \subseteq Copies(s) \cup (IF s = r THEN {obj} ELSE {})
<1> DEFINE e == [run |-> r, obj |-> obj]
           q == IF obj = store[r] THEN watch ELSE Append(watch, e)
           New == Copies(s) \cup (IF s = r THEN {obj} ELSE {})
<1>1. e \in Event /\ watch \in Seq(Event) /\ cache \in [Run -> RunObj]
  BY DEF Event, TypeOK
<1>2. q \in Seq(Event)
  BY <1>1, AppendProperties
<1>3. ASSUME NEW i \in 1..Len(q), q[i].run = s PROVE q[i].obj \in New
  <2>1. CASE q = watch
    BY <1>3, <2>1 DEF Copies
  <2>2. CASE q = Append(watch, e)
    <3>1. CASE i = Len(watch) + 1
      BY <1>1, <1>3, <2>2, <3>1, AppendProperties
    <3>2. CASE i \in 1..Len(watch)
      <4>1. q[i] = watch[i]
        BY <1>1, <2>2, <3>2, AppendProperties
      <4> QED
        BY <1>3, <3>2, <4>1 DEF Copies
    <3>3. Len(q) = Len(watch) + 1 /\ Len(watch) \in Nat
      BY <1>1, <2>2, AppendProperties, LenProperties
    <3> QED
      BY <3>1, <3>2, <3>3
  <2> QED
    BY <2>1, <2>2
<1>4. CASE Len(q) > MaxLag
  <2>1. q # << >> /\ Len(q) \in Nat
    BY <1>2, <1>4, RunAssumption
  <2>2. /\ watch' = Tail(q)
        /\ cache' = [cache EXCEPT ![Head(q).run] = Head(q).obj]
    BY <1>4 DEF Write
  <2>3. Head(q) = q[1] /\ q[1] \in Event /\ 1 \in 1..Len(q)
    BY <1>2, <2>1, HeadTailProperties, ElementOfSeq
  <2>4. cache'[s] \in New
    BY <1>1, <1>3, <2>2, <2>3 DEF Copies, Event
  <2>5. ASSUME NEW i \in 1..Len(watch'), watch'[i].run = s
        PROVE  watch'[i].obj \in New
    <3>1. i + 1 \in 1..Len(q) /\ watch'[i] = q[i + 1]
      BY <1>2, <2>1, <2>2, HeadTailProperties
    <3> QED
      BY <1>3, <2>5, <3>1
  <2> QED
    BY <2>4, <2>5 DEF Copies
<1>5. CASE ~ (Len(q) > MaxLag)
  <2>1. watch' = q /\ cache' = cache
    BY <1>5 DEF Write
  <2> QED
    BY <1>3, <2>1 DEF Copies
<1> QED
  BY <1>4, <1>5

LEMMA DeliverCopies ==
    ASSUME TypeOK, Deliver, NEW s \in Run
    PROVE  Copies(s)' \subseteq Copies(s)
<1>1. watch \in Seq(Event) /\ watch # << >> /\ cache \in [Run -> RunObj]
  BY DEF Deliver, TypeOK
<1>2. Head(watch) = watch[1] /\ watch[1] \in Event /\ 1 \in 1..Len(watch)
  BY <1>1, HeadTailProperties, ElementOfSeq
<1>3. cache'[s] \in Copies(s)
  BY <1>1, <1>2 DEF Deliver, Copies, Event
<1>4. ASSUME NEW i \in 1..Len(watch'), watch'[i].run = s
      PROVE  watch'[i].obj \in Copies(s)
  <2>1. i + 1 \in 1..Len(watch) /\ watch'[i] = watch[i + 1]
    BY <1>1, HeadTailProperties DEF Deliver
  <2> QED
    BY <1>4, <2>1 DEF Copies
<1> QED
  BY <1>3, <1>4 DEF Copies

HasLabel(r) == store[r].label \/ store[r].phase = "Deleted"

(* Once any copy of a run shows the label, the stored run has it.          *)
LabelInv ==
    /\ \A r \in Run : store[r].phase = "Absent" => ~ store[r].label
    /\ \A r \in Run : \A c \in Copies(r) : c.label => HasLabel(r)

(* A write that takes no label away keeps LabelInv. *)
LEMMA WriteLabel ==
    ASSUME TypeOK, LabelInv, NEW r \in Run, NEW obj \in RunObj, Write(r, obj),
           HasLabel(r) => obj.label \/ obj.phase = "Deleted",
           obj.phase = "Absent" => ~ obj.label
    PROVE  /\ LabelInv'
           /\ \A s \in Run : HasLabel(s) => HasLabel(s)'
           /\ \A s \in Run : Copies(s)' \subseteq Copies(s) \cup {store'[s]}
<1>1. store' = [store EXCEPT ![r] = obj] /\ store \in [Run -> RunObj]
  BY DEF Write, TypeOK
<1>2. \A s \in Run : HasLabel(s) => HasLabel(s)'
  BY <1>1 DEF HasLabel
<1>3. ASSUME NEW s \in Run, NEW c \in Copies(s)', c.label PROVE HasLabel(s)'
  <2>1. CASE c \in Copies(s)
    BY <1>2, <1>3, <2>1 DEF LabelInv
  <2>2. CASE s = r /\ c = obj
    BY <1>1, <1>3, <2>2 DEF HasLabel
  <2> QED
    BY <2>1, <2>2, WriteCopies
<1>4. \A s \in Run : store'[s].phase = "Absent" => ~ store'[s].label
  BY <1>1 DEF LabelInv
<1>5. \A s \in Run : Copies(s)' \subseteq Copies(s) \cup {store'[s]}
  BY <1>1, WriteCopies
<1> QED
  BY <1>2, <1>3, <1>4, <1>5 DEF LabelInv

(* What a status patch does to the stored runs. *)
LEMMA PatchEffect ==
    ASSUME TypeOK, LabelInv, NEW r \in Run, NEW base \in RunObj, NEW mem \in RunObj,
           mem.phase \in Phase, PatchStatus(r, base, mem)
    PROVE  /\ LabelInv'
           /\ \A s \in Run : HasLabel(s) => HasLabel(s)'
           /\ \A s \in Run : Copies(s)' \subseteq Copies(s) \cup {store'[s]}
           /\ \A s \in Run : store'[s] # store[s] =>
                 /\ s = r
                 /\ Exists(store[r])
                 /\ store'[r] = MergeFrom(store[r], base, mem)
<1>1. CASE Exists(store[r])
  <2> DEFINE obj == MergeFrom(store[r], base, mem)
  <2>1. obj \in RunObj /\ store[r] \in RunObj
    BY MergeType DEF TypeOK
  <2>2. Write(r, obj)
    BY <1>1 DEF PatchStatus
  <2>3. obj.label = store[r].label /\ obj.phase \in {store[r].phase, mem.phase}
    BY <2>1 DEF MergeFrom, RunObj
  <2>4. /\ HasLabel(r) => obj.label
        /\ obj.phase # "Absent"
    BY <1>1, <2>3 DEF HasLabel, Exists, Gone, Phase
  <2>5. /\ LabelInv'
        /\ \A s \in Run : HasLabel(s) => HasLabel(s)'
        /\ \A s \in Run : Copies(s)' \subseteq Copies(s) \cup {store'[s]}
    BY <2>1, <2>2, <2>4, WriteLabel
  <2> QED
    BY <1>1, <2>2, <2>5 DEF Write, TypeOK
<1>2. CASE ~ Exists(store[r])
  BY <1>2 DEF PatchStatus, LabelInv, HasLabel, Copies
<1> QED
  BY <1>1, <1>2

-----------------------------------------------------------------------------
(* Whatever the lag, a run without undelivered events is cached as it is   *)
(* stored, and the last undelivered event of a run shows it as stored.     *)

Trails(q, c, st) ==
    \A r \in Run :
       /\ (\A i \in 1..Len(q) : q[i].run # r) => c[r] = st[r]
       /\ \A i \in 1..Len(q) :
             q[i].run = r /\ (\A j \in 1..Len(q) : j > i => q[j].run # r)
                => q[i].obj = st[r]

CacheTrails == Trails(watch, cache, store)

LEMMA TrailsAppend ==
    ASSUME NEW q \in Seq(Event), NEW c \in [Run -> RunObj], NEW st \in [Run -> RunObj],
           Trails(q, c, st), NEW r \in Run, NEW obj \in RunObj
    PROVE  Trails(Append(q, [run |-> r, obj |-> obj]), c, [st EXCEPT ![r] = obj])
<1> DEFINE e == [run |-> r, obj |-> obj]
           p == Append(q, e)
           n == Len(q)
           new == [st EXCEPT ![r] = obj]
<1>1. e \in Event /\ e.run = r /\ e.obj = obj
  BY DEF Event
<1>2. /\ n \in Nat /\ Len(p) = n + 1 /\ p[n + 1] = e
      /\ \A i \in 1..n : p[i] = q[i]
  BY <1>1, AppendProperties, LenProperties
<1> HIDE DEF e, p
<1>3. new[r] = obj /\ \A s \in Run \ {r} : new[s] = st[s]
  OBVIOUS
<1> HIDE DEF new, n
<1>4. ASSUME NEW s \in Run, \A i \in 1..Len(p) : p[i].run # s PROVE c[s] = new[s]
  <2>1. s # r
    BY <1>1, <1>2, <1>4
  <2>2. \A i \in 1..n : q[i].run # s
    BY <1>2, <1>4
  <2>3. c[s] = st[s]
    BY <2>2 DEF Trails, n
  <2> QED
    BY <1>3, <2>1, <2>3
<1>5. ASSUME NEW s \in Run, NEW i \in 1..Len(p), p[i].run = s,
             \A j \in 1..Len(p) : j > i => p[j].run # s
      PROVE  p[i].obj = new[s]
  <2>1. CASE i = n + 1
    BY <1>1, <1>2, <1>3, <1>5, <2>1
  <2>2. CASE i \in 1..n
    <3>1. s # r
      BY <1>1, <1>2, <1>5, <2>2
    <3>2. q[i].run = s /\ \A j \in 1..n : j > i => q[j].run # s
      BY <1>2, <1>5, <2>2
    <3>3. q[i].obj = st[s]
      BY <2>2, <3>2 DEF Trails, n
    <3> QED
      BY <1>2, <1>3, <2>2, <3>1, <3>3
  <2> QED
    BY <1>2, <2>1, <2>2
<1>6. Trails(p, c, new)
  BY <1>4, <1>5 DEF Trails
<1> QED
  BY <1>6 DEF p, e, new

LEMMA TrailsPop ==
    ASSUME NEW q \in Seq(Event), q # << >>, NEW c \in [Run -> RunObj],
           NEW st \in [Run -> RunObj], Trails(q, c, st)
    PROVE  Trails(Tail(q), [c EXCEPT ![Head(q).run] = Head(q).obj], st)
<1> DEFINE t == Tail(q)
           n == Len(q)
           new == [c EXCEPT ![Head(q).run] = Head(q).obj]
<1>1. /\ n \in Nat /\ n >= 1 /\ Len(t) = n - 1
      /\ \A i \in 1..(n - 1) : t[i] = q[i + 1]
      /\ Head(q) = q[1] /\ q[1] \in Event
  BY HeadTailProperties, LenProperties, ElementOfSeq, EmptySeq
<1>2. /\ q[1].run \in Run
      /\ new[q[1].run] = q[1].obj
      /\ \A s \in Run \ {q[1].run} : new[s] = c[s]
  BY <1>1 DEF Event
<1> HIDE DEF t, new
<1>3. ASSUME NEW s \in Run, \A i \in 1..Len(t) : t[i].run # s PROVE new[s] = st[s]
  <2>1. \A j \in 1..n : j > 1 => q[j].run # s
    <3>1. SUFFICES ASSUME NEW j \in 1..n, j > 1 PROVE q[j].run # s
      OBVIOUS
    <3>2. j - 1 \in 1..(n - 1) /\ (j - 1) + 1 = j
      BY <1>1, <3>1
    <3>3. t[j - 1] = q[j]
      BY <1>1, <3>2
    <3> QED
      BY <1>1, <1>3, <3>2, <3>3
  <2>2. CASE q[1].run = s
    BY <1>1, <1>2, <2>1, <2>2 DEF Trails
  <2>3. CASE q[1].run # s
    <3>1. \A j \in 1..n : q[j].run # s
      BY <1>1, <2>1, <2>3
    <3> QED
      BY <1>2, <2>3, <3>1 DEF Trails
  <2> QED
    BY <2>2, <2>3
<1>4. ASSUME NEW s \in Run, NEW i \in 1..Len(t), t[i].run = s,
             \A j \in 1..Len(t) : j > i => t[j].run # s
      PROVE  t[i].obj = st[s]
  <2>1. i + 1 \in 1..n /\ t[i] = q[i + 1]
    BY <1>1
  <2>2. \A j \in 1..n : j > i + 1 => q[j].run # s
    <3>1. SUFFICES ASSUME NEW j \in 1..n, j > i + 1 PROVE q[j].run # s
      OBVIOUS
    <3>2. j - 1 \in 1..(n - 1) /\ (j - 1) + 1 = j /\ j - 1 > i
      BY <1>1, <3>1
    <3>3. t[j - 1] = q[j]
      BY <1>1, <3>2
    <3> QED
      BY <1>1, <1>4, <3>2, <3>3
  <2> QED
    BY <1>4, <2>1, <2>2 DEF Trails
<1>5. Trails(t, new, st)
  BY <1>3, <1>4 DEF Trails
<1> QED
  BY <1>5 DEF t, new

LEMMA WriteTrails ==
    ASSUME TypeOK, CacheTrails, NEW r \in Run, NEW obj \in RunObj, Write(r, obj)
    PROVE  CacheTrails'
<1> DEFINE e == [run |-> r, obj |-> obj]
           q == IF obj = store[r] THEN watch ELSE Append(watch, e)
<1>1. /\ watch \in Seq(Event) /\ cache \in [Run -> RunObj] /\ store \in [Run -> RunObj]
      /\ store' = [store EXCEPT ![r] = obj] /\ store' \in [Run -> RunObj]
  BY DEF TypeOK, Write
<1>2. e \in Event
  BY DEF Event
<1>3. q \in Seq(Event) /\ Trails(q, cache, store')
  <2>1. CASE obj = store[r]
    <3>1. store' = store
      BY <1>1, <2>1
    <3> QED
      BY <1>1, <2>1, <3>1 DEF CacheTrails
  <2>2. CASE obj # store[r]
    <3>1. Trails(Append(watch, e), cache, [store EXCEPT ![r] = obj])
      BY <1>1, TrailsAppend DEF CacheTrails
    <3> QED
      BY <1>1, <1>2, <2>2, <3>1, AppendProperties
  <2> QED
    BY <2>1, <2>2
<1>4. CASE Len(q) > MaxLag
  <2>1. /\ watch' = Tail(q)
        /\ cache' = [cache EXCEPT ![Head(q).run] = Head(q).obj]
    BY <1>4 DEF Write
  <2> HIDE DEF q
  <2>2. q # << >>
    BY <1>3, <1>4, RunAssumption
  <2>3. Trails(Tail(q), [cache EXCEPT ![Head(q).run] = Head(q).obj], store')
    BY <1>1, <1>3, <2>2, TrailsPop
  <2> QED
    BY <2>1, <2>3 DEF CacheTrails
<1>5. CASE ~ (Len(q) > MaxLag)
  <2>1. watch' = q /\ cache' = cache
    BY <1>5 DEF Write
  <2> HIDE DEF q
  <2> QED
    BY <1>3, <2>1 DEF CacheTrails
<1> QED
  BY <1>4, <1>5

LEMMA PatchTrails ==
    ASSUME TypeOK, CacheTrails, NEW r \in Run, NEW base \in RunObj, NEW mem \in RunObj,
           PatchStatus(r, base, mem)
    PROVE  CacheTrails'
<1>1. CASE Exists(store[r])
  <2>1. MergeFrom(store[r], base, mem) \in RunObj
    BY MergeType DEF TypeOK
  <2> QED
    BY <1>1, <2>1, WriteTrails DEF PatchStatus
<1>2. CASE ~ Exists(store[r])
  BY <1>2 DEF PatchStatus, CacheTrails
<1> QED
  BY <1>1, <1>2

(* Whatever the lag, no step brings a deleted run back: in particular not  *)
(* r.Update with the label, which a stale copy makes a conflict.           *)
DeletedForGood ==
    \A r \in Run : store[r].phase = "Deleted" => store'[r].phase = "Deleted"

LEMMA StepTrails ==
    ASSUME TypeOK, CacheTrails, ReconcilerStep
    PROVE  CacheTrails' /\ DeletedForGood
<1> DEFINE Goal == CacheTrails' /\ DeletedForGood
<1>1. ASSUME UNCHANGED <<store, cache, watch>> PROVE Goal
  BY <1>1 DEF CacheTrails, DeletedForGood
<1>2. ASSUME NEW r \in Run, CreateRun(r) PROVE Goal
  <2>1. PICK l \in BOOLEAN : Write(r, [phase |-> "", label |-> l, output |-> ""])
    BY <1>2 DEF CreateRun
  <2>2. [phase |-> "", label |-> l, output |-> ""] \in RunObj
    BY DEF RunObj, Phase, Output
  <2>3. DeletedForGood
    BY <1>2, <2>1 DEF DeletedForGood, CreateRun, Write, TypeOK
  <2> QED
    BY <2>1, <2>2, <2>3, WriteTrails
<1>3. ASSUME NEW r \in Run, DeleteRun(r) PROVE Goal
  <2>1. [NoObj EXCEPT !.phase = "Deleted"] \in RunObj
    BY DEF RunObj, NoObj, Gone, Output
  <2>2. DeletedForGood
    BY <1>3 DEF DeletedForGood, DeleteRun, Write, TypeOK, NoObj
  <2> QED
    BY <1>3, <2>1, <2>2, WriteTrails DEF DeleteRun
<1>4. ASSUME Deliver PROVE Goal
  <2>1. CacheTrails'
    BY <1>4, TrailsPop DEF Deliver, CacheTrails, TypeOK
  <2> QED
    BY <1>4, <2>1 DEF Deliver, DeletedForGood
<1>5. ASSUME NEW r \in Run, EnsureLabel(r) PROVE Goal
  <2>1. [cache[r] EXCEPT !.label = TRUE] \in RunObj
    BY DEF RunObj, TypeOK
  <2>2. cache[r] = store[r]
    BY <1>5 DEF EnsureLabel, Fresh, CacheTrails, Trails
  <2>3. DeletedForGood
    BY <1>5, <2>2 DEF DeletedForGood, EnsureLabel, Begin, Exists, Gone, Write, TypeOK
  <2> QED
    BY <1>5, <2>1, <2>3, WriteTrails DEF EnsureLabel
<1>6. ASSUME NEW r \in Run, NEW base \in RunObj, NEW mem \in RunObj,
             PatchStatus(r, base, mem)
      PROVE  Goal
  <2>1. CacheTrails'
    BY <1>6, PatchTrails
  <2>2. DeletedForGood
    <3>1. CASE Exists(store[r])
      BY <1>6, <3>1 DEF PatchStatus, Write, TypeOK, Exists, Gone, DeletedForGood
    <3>2. CASE ~ Exists(store[r])
      BY <1>6, <3>2 DEF PatchStatus, DeletedForGood
    <3> QED
      BY <3>1, <3>2
  <2> QED
    BY <2>1, <2>2
<1> SUFFICES Goal
  OBVIOUS
<1> HIDE DEF Goal
<1>7. op.pc # "idle" => op.run \in Run /\ op.base \in RunObj /\ op.mem \in RunObj
  BY DEF TypeOK, Reconcile
<1>8. CASE QueueRun
  <2>1. [op.mem EXCEPT !.phase = "Queued"] \in RunObj
    BY <1>7, <1>8 DEF QueueRun, RunObj, Phase
  <2> QED
    BY <1>6, <1>7, <1>8, <2>1 DEF QueueRun
<1>9. CASE RejectRun
  <2>1. SetRunFailedStatus(op.mem, "Rejected") \in RunObj
    BY <1>7, <1>9, FailedType DEF RejectRun, Output, Message
  <2> QED
    BY <1>6, <1>7, <1>9, <2>1 DEF RejectRun
<1>10. CASE CancelOldestRun
  <2>1. PICK o \in Oldest(Active(op.run)) :
           PatchStatus(o, cache[o], SetRunFailedStatus(cache[o], "Cancelled"))
    BY <1>10 DEF CancelOldestRun
  <2>2. o \in Run /\ cache[o] \in RunObj
    BY DEF Oldest, Active, TypeOK
  <2>3. SetRunFailedStatus(cache[o], "Cancelled") \in RunObj
    BY <2>2, FailedType DEF Output, Message
  <2> QED
    BY <1>6, <2>1, <2>2, <2>3
<1>11. CASE FinishReconcile
  BY <1>6, <1>7, <1>11 DEF FinishReconcile
<1>12. CASE \/ AgentAppears \/ AgentDeleted \/ EditConcurrency \/ AdmitRun
            \/ AbortReconcile \/ \E r \in Run : AgentNotFound(r) \/ Labelled(r)
  BY <1>1, <1>12 DEF AgentAppears, AgentDeleted, EditConcurrency, AdmitRun,
                     AbortReconcile, AgentNotFound, Labelled
<1> QED
  BY <1>2, <1>3, <1>4, <1>5, <1>8, <1>9, <1>10, <1>11, <1>12
  DEF ReconcilerStep, UserStep, StartReconcile, CheckConcurrency

LEMMA InitTrails == RunInit => CacheTrails
BY DEF RunInit, CacheTrails, Trails

-----------------------------------------------------------------------------
(* The kinds of steps, by what they do to the runs.                        *)

(* Nothing happens to the runs, or a reconcile is given up. *)
Rests == UNCHANGED <<store, cache, watch>> /\ (op' = op \/ op' = Idle)

(* The reconcile in flight patches its run, with what it has computed or   *)
(* to turn the run away, and is over.                                      *)
Patches(mem) ==
    /\ op.pc # "idle"
    /\ \/ op.pc = "patch" /\ mem = op.mem
       \/ /\ op.pc = "check"
          /\ \/ mem.phase \in {"Queued", "Pending"} /\ mem.output = op.mem.output
             \/ mem.phase = "Failed" /\ mem.output \in Message
    /\ PatchStatus(op.run, op.base, mem)
    /\ op' = Idle

(* checkConcurrency cancels run o in favour of the one in flight. *)
Cancels(o) ==
    /\ op.pc = "check"
    /\ op.spec.policy = "replace"
    /\ PatchStatus(o, cache[o], SetRunFailedStatus(cache[o], "Cancelled"))
    /\ op' = IF Exists(store[o]) THEN Admitted ELSE Idle

(* The dispatch to the agent's mode writes no run, and passes on the run   *)
(* as it is, as Running, or as ended.                                      *)
Dispatches ==
    /\ UNCHANGED <<store, cache, watch>>
    /\ op.pc \in {"dispatch", "create"} /\ op'.pc \in {"create", "patch"}
    /\ op'.run = op.run /\ op'.base = op.base
    /\ op'.mem.phase \in {op.mem.phase, "Running"} \cup Terminal

LEMMA StepKinds ==
    ASSUME TypeOK, ReconcilerStep
    PROVE  \/ Rests
           \/ Deliver
           \/ AdmitRun
           \/ \E mem \in RunObj : Patches(mem)
           \/ \E o \in Active(op.run) : Cancels(o)
           \/ \E r \in Run : \/ CreateRun(r) \/ DeleteRun(r)
                             \/ AgentNotFound(r) \/ Labelled(r) \/ EnsureLabel(r)
<1> DEFINE Goal == \/ Rests
                   \/ Deliver
                   \/ AdmitRun
                   \/ \E mem \in RunObj : Patches(mem)
                   \/ \E o \in Active(op.run) : Cancels(o)
                   \/ \E r \in Run : \/ CreateRun(r) \/ DeleteRun(r)
                                     \/ AgentNotFound(r) \/ Labelled(r) \/ EnsureLabel(r)
<1>1. op.pc # "idle" => op.run \in Run /\ op.base \in RunObj /\ op.mem \in RunObj
  BY DEF TypeOK, Reconcile
<1>2. CASE AgentAppears \/ AgentDeleted \/ EditConcurrency \/ AbortReconcile
  BY <1>2 DEF AgentAppears, AgentDeleted, EditConcurrency, AbortReconcile, Rests
<1>3. CASE QueueRun
  <2> DEFINE mem == [op.mem EXCEPT !.phase = "Queued"]
  <2>1. op.pc = "check" /\ PatchStatus(op.run, op.base, mem) /\ op' = Idle
    BY <1>3 DEF QueueRun
  <2>2. mem \in RunObj /\ mem.phase = "Queued" /\ mem.output = op.mem.output
    BY <1>1, <2>1 DEF RunObj, Phase
  <2> HIDE DEF mem
  <2> QED
    BY <2>1, <2>2 DEF Patches
<1>4. CASE RejectRun
  <2> DEFINE mem == SetRunFailedStatus(op.mem, "Rejected")
  <2>1. op.pc = "check" /\ PatchStatus(op.run, op.base, mem) /\ op' = Idle
    BY <1>4 DEF RejectRun
  <2>2. mem \in RunObj /\ mem.phase = "Failed" /\ mem.output \in Message
    BY <1>1, <2>1 DEF SetRunFailedStatus, RunObj, Phase, Output, Message
  <2> HIDE DEF mem
  <2> QED
    BY <2>1, <2>2 DEF Patches
<1>5. CASE FinishReconcile
  BY <1>1, <1>5 DEF FinishReconcile, Patches
<1>6. CASE CancelOldestRun
  <2>1. PICK o \in Oldest(Active(op.run)) :
           /\ PatchStatus(o, cache[o], SetRunFailedStatus(cache[o], "Cancelled"))
           /\ op' = IF Exists(store[o]) THEN Admitted ELSE Idle
    BY <1>6 DEF CancelOldestRun
  <2>2. o \in Active(op.run)
    BY DEF Oldest
  <2> QED
    BY <1>6, <2>1, <2>2 DEF CancelOldestRun, Cancels
<1>7. CASE \/ Deliver \/ AdmitRun
           \/ \E r \in Run : \/ CreateRun(r) \/ DeleteRun(r)
                             \/ AgentNotFound(r) \/ Labelled(r) \/ EnsureLabel(r)
  BY <1>7
<1> QED
  BY <1>2, <1>3, <1>4, <1>5, <1>6, <1>7
  DEF ReconcilerStep, UserStep, StartReconcile, CheckConcurrency

(* A run that checkConcurrency counts. *)
LEMMA ActiveRun ==
    ASSUME TypeOK, NEW o \in Active(op.run)
    PROVE  /\ o \in Run /\ o # op.run
           /\ cache[o] \in RunObj /\ cache[o].phase = "Running"
           /\ SetRunFailedStatus(cache[o], "Cancelled") \in RunObj
           /\ SetRunFailedStatus(cache[o], "Cancelled").phase = "Failed"
           /\ SetRunFailedStatus(cache[o], "Cancelled").output = "Cancelled"
<1>1. o \in Run /\ o # op.run /\ cache[o].phase = "Running" /\ cache[o] \in RunObj
  BY DEF Active, TypeOK
<1> QED
  BY <1>1 DEF SetRunFailedStatus, RunObj, Phase, Output, Message

(* ToPatch, field by field. *)
LEMMA ToPatchFields ==
    ASSUME TypeOK, NEW mem \in RunObj, ToPatch(mem)
    PROVE  /\ op'.pc = "patch" /\ op'.run = op.run /\ op'.spec = op.spec
           /\ op'.base = op.base /\ op'.mem = mem
BY DEF ToPatch, TypeOK, Reconcile

(* An admitted run, field by field. *)
LEMMA AdmittedFields ==
    ASSUME TypeOK, op.pc = "check"
    PROVE  /\ Admitted.pc = "dispatch" /\ Admitted.run = op.run
           /\ Admitted.base = op.base
           /\ Admitted.mem.phase = IF op.mem.phase = "" THEN "Pending" ELSE op.mem.phase
           /\ Admitted.mem.output = op.mem.output
BY DEF Admitted, TypeOK, Reconcile, RunObj

(* Idle is the reconcile of no run. *)
LEMMA IdleRun == Idle.pc = "idle" /\ Idle.run = NoRun
BY DEF Idle

-----------------------------------------------------------------------------
(* Slots, whatever the lag.  The cache trails by at most MaxLag events, so *)
(* all but MaxLag of the Running runs are among those that                 *)
(* checkConcurrency counts.                                                *)

RunningRuns == {r \in Run : store[r].phase = "Running"}
Held(r) == RunningRuns \ {r}

KeptInv ==
    /\ LabelInv /\ CacheTrails
    /\ Len(watch) <= MaxLag
    /\ \A r \in Run : store[r].phase = "Running" => store[r].label

LEMMA WriteLag ==
    ASSUME TypeOK, Len(watch) <= MaxLag, NEW r \in Run, NEW obj \in RunObj, Write(r, obj)
    PROVE  Len(watch') <= MaxLag
<1> DEFINE q == IF obj = store[r] THEN watch
                                  ELSE Append(watch, [run |-> r, obj |-> obj])
<1>1. watch \in Seq(Event) /\ Len(watch) \in Nat /\ MaxLag \in Nat
  BY RunAssumption, LenProperties DEF TypeOK
<1>2. [run |-> r, obj |-> obj] \in Event
  BY DEF Event
<1>3. q \in Seq(Event) /\ Len(q) \in Nat /\ Len(q) <= Len(watch) + 1
  BY <1>1, <1>2, AppendProperties
<1>4. CASE Len(q) > MaxLag
  <2>1. watch' = Tail(q)
    BY <1>4 DEF Write
  <2> HIDE DEF q
  <2>2. q # << >>
    BY <1>1, <1>3, <1>4
  <2>3. Len(Tail(q)) = Len(q) - 1
    BY <1>3, <2>2, HeadTailProperties
  <2> QED
    BY <1>1, <1>3, <2>1, <2>3
<1>5. CASE ~ (Len(q) > MaxLag)
  <2>1. watch' = q
    BY <1>5 DEF Write
  <2> HIDE DEF q
  <2> QED
    BY <1>1, <1>3, <1>5, <2>1
<1> QED
  BY <1>4, <1>5

LEMMA WriteKept ==
    ASSUME TypeOK, KeptInv, NEW r \in Run, NEW obj \in RunObj, Write(r, obj),
           HasLabel(r) => obj.label \/ obj.phase = "Deleted",
           obj.phase = "Absent" => ~ obj.label,
           obj.phase = "Running" => obj.label
    PROVE  /\ KeptInv'
           /\ \A s \in Run : HasLabel(s) => HasLabel(s)'
           /\ store' = [store EXCEPT ![r] = obj]
<1>1. store' = [store EXCEPT ![r] = obj] /\ store \in [Run -> RunObj]
  BY DEF Write, TypeOK
<1>2. LabelInv' /\ \A s \in Run : HasLabel(s) => HasLabel(s)'
  BY WriteLabel DEF KeptInv
<1>3. CacheTrails' /\ Len(watch') <= MaxLag
  BY WriteTrails, WriteLag DEF KeptInv
<1>4. \A s \in Run : store'[s].phase = "Running" => store'[s].label
  BY <1>1 DEF KeptInv
<1> QED
  BY <1>1, <1>2, <1>3, <1>4 DEF KeptInv

(* A patch changes no run but its own, which keeps its phase or takes that *)
(* of the patch.                                                           *)
LEMMA PatchKept ==
    ASSUME TypeOK, KeptInv, NEW r \in Run, NEW base \in RunObj, NEW mem \in RunObj,
           mem.phase \in Phase, PatchStatus(r, base, mem),
           mem.phase = "Running" => base.phase = "Running" \/ HasLabel(r)
    PROVE  /\ KeptInv'
           /\ \A s \in Run : HasLabel(s) => HasLabel(s)'
           /\ \A s \in Run \ {r} : store'[s] = store[s]
           /\ store'[r].phase \in {store[r].phase, mem.phase}
           /\ Exists(store[r]) /\ mem.phase # base.phase => store'[r].phase = mem.phase
<1>1. CASE Exists(store[r])
  <2> DEFINE obj == MergeFrom(store[r], base, mem)
  <2>1. obj \in RunObj /\ store[r] \in RunObj
    BY MergeType DEF TypeOK
  <2>2. Write(r, obj)
    BY <1>1 DEF PatchStatus
  <2>3. /\ obj.label = store[r].label
        /\ obj.phase = IF mem.phase = base.phase THEN store[r].phase ELSE mem.phase
    BY <2>1 DEF MergeFrom, RunObj
  <2> HIDE DEF obj
  <2>4. /\ HasLabel(r) => obj.label
        /\ obj.phase # "Absent"
        /\ obj.phase = "Running" => obj.label
    BY <1>1, <2>3 DEF KeptInv, HasLabel, Exists, Gone, Phase
  <2>5. /\ KeptInv'
        /\ \A s \in Run : HasLabel(s) => HasLabel(s)'
        /\ store' = [store EXCEPT ![r] = obj]
    BY <2>1, <2>2, <2>4, WriteKept
  <2> QED
    BY <2>3, <2>5 DEF TypeOK
<1>2. CASE ~ Exists(store[r])
  BY <1>2 DEF PatchStatus, KeptInv, LabelInv, HasLabel, Copies, CacheTrails
<1> QED
  BY <1>1, <1>2

LEMMA SameKept ==
    ASSUME KeptInv, UNCHANGED <<store, cache, watch>>
    PROVE  KeptInv' /\ \A s \in Run : HasLabel(s) => HasLabel(s)'
BY DEF KeptInv, LabelInv, HasLabel, Copies, CacheTrails

LEMMA DeliverKept ==
    ASSUME TypeOK, KeptInv, Deliver
    PROVE  KeptInv' /\ \A s \in Run : HasLabel(s) => HasLabel(s)'
<1>1. UNCHANGED store
  BY DEF Deliver
<1>2. LabelInv' /\ \A s \in Run : HasLabel(s) => HasLabel(s)'
  BY <1>1, DeliverCopies DEF KeptInv, LabelInv, HasLabel
<1>3. CacheTrails'
  BY TrailsPop DEF KeptInv, Deliver, CacheTrails, TypeOK
<1>4. Len(watch') <= MaxLag
  <2>1. watch \in Seq(Event) /\ watch # << >> /\ watch' = Tail(watch)
    BY DEF Deliver, TypeOK
  <2>2. Len(watch) \in Nat /\ Len(Tail(watch)) = Len(watch) - 1 /\ MaxLag \in Nat
    BY <2>1, HeadTailProperties, LenProperties, RunAssumption
  <2> QED
    BY <2>1, <2>2 DEF KeptInv
<1> QED
  BY <1>1, <1>2, <1>3, <1>4 DEF KeptInv

-----------------------------------------------------------------------------
(* Counting.                                                               *)

LEMMA Counts ==
    /\ IsFiniteSet(RunningRuns) /\ Cardinality(RunningRuns) \in Nat
    /\ \A r : IsFiniteSet(Held(r)) /\ Cardinality(Held(r)) \in Nat
<1>1. RunningRuns \in SUBSET Run
  BY DEF RunningRuns
<1>2. IsFiniteSet(RunningRuns) /\ Cardinality(RunningRuns) \in Nat
  BY <1>1, RunAssumption, FS_Subset, FS_CardinalityType
<1>3. ASSUME NEW r PROVE IsFiniteSet(Held(r)) /\ Cardinality(Held(r)) \in Nat
  <2>1. Held(r) \in SUBSET RunningRuns
    BY DEF Held
  <2> QED
    BY <1>2, <2>1, FS_Subset, FS_CardinalityType
<1> QED
  BY <1>2, <1>3

LEMMA CountsNext ==
    /\ Cardinality(RunningRuns') \in Nat
    /\ \A r : Cardinality(RunningRuns' \ {r}) \in Nat
<1>1. RunningRuns' \in SUBSET Run /\ \A r : RunningRuns' \ {r} \in SUBSET Run
  BY DEF RunningRuns
<1> QED
  BY <1>1, RunAssumption, FS_Subset, FS_CardinalityType

(* No run becomes Running: no count grows. *)
LEMMA CountsShrink ==
    ASSUME \A s \in Run : store'[s].phase = "Running" => store[s].phase = "Running"
    PROVE  /\ Cardinality(RunningRuns') <= Cardinality(RunningRuns)
           /\ \A r : Cardinality(RunningRuns' \ {r}) <= Cardinality(Held(r))
<1>1. RunningRuns' \in SUBSET RunningRuns
  BY DEF RunningRuns
<1>2. \A r : RunningRuns' \ {r} \in SUBSET Held(r)
  BY <1>1 DEF Held
<1> QED
  BY <1>1, <1>2, Counts, FS_Subset

(* The case that SlotsBounded is about. *)
Limited == MaxLag = 0 \/ \A c \in Concurrency : c.policy # "replace"

(* Run r may become Running: the others leave a slot for it. *)
Room(r) == \E c \in Concurrency : Cardinality(Held(r)) < c.maxRuns + MaxLag

(* A run that has passed the check has the label and finds room, still     *)
(* when its status is patched.                                             *)
OpRoom ==
    op.pc # "idle" =>
       /\ op.mem.phase \in Phase
       /\ op.pc # "patch" \/ op.mem.phase = "Running" => HasLabel(op.run)
       /\ \/ op.pc \in {"dispatch", "create"}
          \/ op.pc = "patch" /\ op.mem.phase = "Running"
          => (Limited => Room(op.run))

LagInv == KeptInv /\ OpRoom /\ SlotsBounded

LEMMA Limits == \A c \in Concurrency : c.maxRuns \in Nat /\ c.maxRuns > 0
BY RunAssumption

(* What is bounded stays bounded while no run becomes Running. *)
LEMMA RoomKept ==
    ASSUME \A s \in Run : store'[s].phase = "Running" => store[s].phase = "Running"
    PROVE  /\ \A r : Room(r) => Room(r)'
           /\ SlotsBounded => SlotsBounded'
<1>1. /\ Cardinality(RunningRuns') <= Cardinality(RunningRuns)
      /\ \A r : Cardinality(RunningRuns' \ {r}) <= Cardinality(Held(r))
  BY CountsShrink
<1>2. MaxLag \in Nat
  BY RunAssumption
<1>3. ASSUME NEW r, Room(r) PROVE Room(r)'
  <2>1. PICK c \in Concurrency : Cardinality(Held(r)) < c.maxRuns + MaxLag
    BY <1>3 DEF Room
  <2>2. Cardinality(Held(r)') < c.maxRuns + MaxLag
    <3>1. Held(r)' = RunningRuns' \ {r}
      BY DEF Held
    <3> QED
      BY <1>1, <1>2, <2>1, <3>1, Counts, CountsNext, Limits
  <2> QED
    BY <2>2 DEF Room
<1>4. ASSUME SlotsBounded, Limited PROVE SlotsBounded'
  <2>1. PICK c \in Concurrency : Cardinality(RunningRuns) <= c.maxRuns + MaxLag
    BY <1>4 DEF SlotsBounded, Limited, RunningRuns
  <2>2. Cardinality(RunningRuns') <= c.maxRuns + MaxLag
    BY <1>1, <1>2, <2>1, Counts, CountsNext, Limits
  <2> QED
    BY <2>2 DEF SlotsBounded, RunningRuns
<1>5. ~ Limited => SlotsBounded'
  BY DEF SlotsBounded, Limited
<1> QED
  BY <1>3, <1>4, <1>5

(* The one run that has room becomes Running: the bound still holds. *)
LEMMA RoomTaken ==
    ASSUME NEW r \in Run, Limited => Room(r),
           \A s \in Run \ {r} : store'[s].phase = "Running" => store[s].phase = "Running"
    PROVE  SlotsBounded'
<1>1. ~ Limited => SlotsBounded'
  BY DEF SlotsBounded, Limited
<1>2. ASSUME Limited PROVE SlotsBounded'
  <2>1. PICK c \in Concurrency : Cardinality(Held(r)) < c.maxRuns + MaxLag
    BY <1>2 DEF Room
  <2>2. RunningRuns' \in SUBSET (Held(r) \cup {r})
    BY DEF RunningRuns, Held
  <2>3. r \notin Held(r) /\ IsFiniteSet(Held(r)) /\ Cardinality(Held(r)) \in Nat
    BY Counts DEF Held
  <2>4. /\ IsFiniteSet(Held(r) \cup {r})
        /\ Cardinality(Held(r) \cup {r}) = Cardinality(Held(r)) + 1
    BY <2>3, FS_AddElement
  <2>5. Cardinality(RunningRuns') <= Cardinality(Held(r) \cup {r})
    BY <2>2, <2>4, FS_Subset
  <2>6. Cardinality(RunningRuns') <= c.maxRuns + MaxLag
    BY <2>1, <2>3, <2>4, <2>5, CountsNext, Limits, RunAssumption
  <2> QED
    BY <2>6 DEF SlotsBounded, RunningRuns
<1> QED
  BY <1>1, <1>2

(* Sequences of n events are about at most n runs. *)
LEMMA WatchedRuns ==
    ASSUME TypeOK
    PROVE  LET W == {watch[i].run : i \in 1..Len(watch)}
           IN  IsFiniteSet(W) /\ Cardinality(W) <= Len(watch)
<1> DEFINE f == [i \in 1..Len(watch) |-> watch[i].run]
           W == {watch[i].run : i \in 1..Len(watch)}
<1>1. Len(watch) \in Nat
  BY LenProperties DEF TypeOK
<1>2. IsFiniteSet(1..Len(watch)) /\ Cardinality(1..Len(watch)) = Len(watch)
  BY <1>1, FS_Interval
<1>3. f \in Surjection(1..Len(watch), W)
  BY DEF Surjection
<1> HIDE DEF f, W
<1>4. IsFiniteSet(W) /\ Cardinality(W) <= Cardinality(1..Len(watch))
  BY <1>2, <1>3, FS_Surjection
<1> QED
  BY <1>2, <1>4 DEF W

(* A run that is admitted finds room: the runs that checkConcurrency does  *)
(* not see Running have events under way.                                  *)
LEMMA CheckRoom ==
    ASSUME TypeOK, KeptInv, op.pc = "check", ~ AtLimit
    PROVE  Room(op.run)
<1> DEFINE r == op.run
           W == {watch[i].run : i \in 1..Len(watch)}
<1>1. Held(r) \in SUBSET (Active(r) \cup W)
  <2> SUFFICES ASSUME NEW s \in Run, s # r, store[s].phase = "Running", s \notin W
               PROVE  s \in Active(r)
    BY DEF Held, RunningRuns
  <2>1. cache[s] = store[s]
    BY DEF KeptInv, CacheTrails, Trails
  <2>2. store[s].label
    BY DEF KeptInv
  <2> QED
    BY <2>1, <2>2 DEF Active
<1>2. IsFiniteSet(Active(r)) /\ Cardinality(Active(r)) \in Nat
  <2>1. Active(r) \in SUBSET Run
    BY DEF Active
  <2> QED
    BY <2>1, RunAssumption, FS_Subset, FS_CardinalityType
<1>3. IsFiniteSet(W) /\ Cardinality(W) <= Len(watch) /\ Cardinality(W) \in Nat
  BY WatchedRuns, FS_CardinalityType
<1>4. Len(watch) \in Nat /\ Len(watch) <= MaxLag
  BY LenProperties DEF TypeOK, KeptInv
<1>5. op.spec \in Concurrency /\ op.spec.maxRuns \in Nat
  BY Limits DEF TypeOK, Reconcile
<1>6. ~ (Cardinality(Active(r)) >= op.spec.maxRuns)
  BY DEF AtLimit
<1> HIDE DEF W, r
<1>7. /\ IsFiniteSet(Active(r) \cup W)
      /\ Cardinality(Active(r) \cup W) \in Nat
      /\ Cardinality(Active(r) \cup W) <= Cardinality(Active(r)) + Cardinality(W)
  <2>1. IsFiniteSet(Active(r) \cup W)
    BY <1>2, <1>3, FS_Union
  <2>2. Cardinality(Active(r) \cup W) = Cardinality(Active(r)) + Cardinality(W)
                                          - Cardinality(Active(r) \cap W)
    BY <1>2, <1>3, FS_Union
  <2>3. Cardinality(Active(r) \cap W) \in Nat
    BY <1>2, FS_Intersection, FS_CardinalityType
  <2> QED
    BY <1>2, <1>3, <2>1, <2>2, <2>3, FS_CardinalityType
<1>8. Cardinality(Held(r)) <= Cardinality(Active(r) \cup W)
  BY <1>1, <1>7, FS_Subset
<1>9. Cardinality(Held(r)) < op.spec.maxRuns + MaxLag
  BY <1>2, <1>3, <1>4, <1>5, <1>6, <1>7, <1>8, Counts, RunAssumption
<1> QED
  BY <1>5, <1>9 DEF Room, r

-----------------------------------------------------------------------------
(* The steps keep LagInv.                                                  *)

LEMMA InitLag == RunInit => LagInv
<1> SUFFICES ASSUME RunInit PROVE LagInv
  OBVIOUS
<1>1. \A r \in Run : /\ store[r] = NoObj /\ cache[r] = NoObj
                     /\ store[r].phase = "Absent" /\ store[r].label = FALSE
                     /\ cache[r].label = FALSE
  BY DEF RunInit, NoObj
<1>2. watch = << >> /\ Len(watch) = 0 /\ MaxLag \in Nat
  BY RunAssumption DEF RunInit
<1>3. LabelInv
  <2>1. \A r \in Run : Copies(r) = {cache[r]}
    BY <1>2 DEF Copies
  <2> QED
    BY <1>1, <2>1 DEF LabelInv
<1>4. KeptInv
  BY <1>1, <1>2, <1>3, InitTrails DEF KeptInv
<1>5. OpRoom
  BY IdleRun DEF RunInit, OpRoom
<1>6. RunningRuns = {}
  BY <1>1 DEF RunningRuns
<1>7. PICK c \in Concurrency : TRUE
  BY RunAssumption
<1>8. Cardinality(RunningRuns) <= c.maxRuns + MaxLag
  BY <1>2, <1>6, Limits, FS_EmptySet
<1> QED
  BY <1>4, <1>5, <1>8 DEF LagInv, SlotsBounded, RunningRuns

LEMMA RestsLag ==
    ASSUME LagInv, Rests
    PROVE  LagInv'
<1>1. KeptInv' /\ \A s \in Run : HasLabel(s) => HasLabel(s)'
  BY SameKept DEF LagInv, Rests
<1>2. SlotsBounded'
  BY DEF LagInv, Rests, SlotsBounded
<1>3. CASE op' = op
  <2>1. HasLabel(op.run) => HasLabel(op.run)'
    BY <1>3 DEF Rests, HasLabel
  <2>2. Room(op.run) => Room(op.run)'
    BY <1>3 DEF Rests, Room, Held, RunningRuns
  <2> QED
    BY <1>1, <1>2, <1>3, <2>1, <2>2 DEF LagInv, OpRoom
<1>4. CASE op' = Idle
  BY <1>1, <1>2, <1>4, IdleRun DEF LagInv, OpRoom
<1> QED
  BY <1>3, <1>4 DEF Rests

LEMMA DeliverLag ==
    ASSUME TypeOK, LagInv, Deliver
    PROVE  LagInv'
<1>1. KeptInv' /\ UNCHANGED <<store, op>>
  BY DeliverKept DEF LagInv, Deliver
<1>2. HasLabel(op.run) => HasLabel(op.run)'
  BY <1>1 DEF HasLabel
<1>3. Room(op.run) => Room(op.run)'
  BY <1>1 DEF Room, Held, RunningRuns
<1> QED
  BY <1>1, <1>2, <1>3 DEF LagInv, OpRoom, SlotsBounded

(* The end of a reconcile by a patch of its run. *)
LEMMA PatchesLag ==
    ASSUME TypeOK, LagInv, NEW mem \in RunObj, Patches(mem)
    PROVE  LagInv'
<1> DEFINE r == op.run
<1>1. r \in Run /\ op.base \in RunObj /\ PatchStatus(r, op.base, mem) /\ op' = Idle
  BY DEF Patches, TypeOK, Reconcile
<1>2. mem.phase \in Phase
  BY DEF Patches, LagInv, OpRoom, Phase
<1>3. mem.phase = "Running" => HasLabel(r)
  BY DEF Patches, LagInv, OpRoom
<1>4. mem.phase = "Running" => (Limited => Room(r))
  BY DEF Patches, LagInv, OpRoom
<1> HIDE DEF r
<1>5. /\ KeptInv'
      /\ \A s \in Run \ {r} : store'[s] = store[s]
      /\ store'[r].phase \in {store[r].phase, mem.phase}
  BY <1>1, <1>2, <1>3, PatchKept DEF LagInv
<1>6. OpRoom'
  BY <1>1, IdleRun DEF OpRoom
<1>7. SlotsBounded'
  <2>1. CASE mem.phase = "Running"
    BY <1>1, <1>4, <1>5, <2>1, RoomTaken
  <2>2. CASE mem.phase # "Running"
    <3>1. \A s \in Run : store'[s].phase = "Running" => store[s].phase = "Running"
      BY <1>5, <2>2
    <3> QED
      BY <3>1, RoomKept DEF LagInv
  <2> QED
    BY <2>1, <2>2
<1> QED
  BY <1>5, <1>6, <1>7 DEF LagInv

(* With replace, the cancelled run leaves room if the copies are current. *)
LEMMA CancelsLag ==
    ASSUME TypeOK, LagInv, NEW o \in Active(op.run), Cancels(o)
    PROVE  LagInv'
<1> DEFINE mem == SetRunFailedStatus(cache[o], "Cancelled")
<1>1. /\ o \in Run /\ o # op.run
      /\ cache[o] \in RunObj /\ cache[o].phase = "Running"
      /\ mem \in RunObj /\ mem.phase = "Failed"
  BY ActiveRun
<1>2. PatchStatus(o, cache[o], mem) /\ op.pc = "check"
  BY DEF Cancels
<1> HIDE DEF mem
<1>3. /\ KeptInv'
      /\ \A s \in Run : HasLabel(s) => HasLabel(s)'
      /\ \A s \in Run \ {o} : store'[s] = store[s]
      /\ store'[o].phase \in {store[o].phase, "Failed"}
      /\ Exists(store[o]) => store'[o].phase = "Failed"
  <2>1. KeptInv
    BY DEF LagInv
  <2>2. mem.phase \in Phase
    BY <1>1 DEF Phase
  <2> QED
    BY <1>1, <1>2, <2>1, <2>2, PatchKept
<1>4. \A s \in Run : store'[s].phase = "Running" => store[s].phase = "Running"
  BY <1>3
<1>5. SlotsBounded'
  BY <1>4, RoomKept DEF LagInv
<1>6. CASE op' = Idle
  BY <1>3, <1>5, <1>6, IdleRun DEF LagInv, OpRoom
<1>7. CASE op' = Admitted /\ Exists(store[o])
  <2>1. /\ op'.pc = "dispatch" /\ op'.run = op.run
        /\ op'.mem.phase = IF op.mem.phase = "" THEN "Pending" ELSE op.mem.phase
    BY <1>2, <1>7, AdmittedFields
  <2>2. op.mem.phase \in Phase /\ HasLabel(op.run) /\ op.run \in Run
    BY <1>2 DEF LagInv, OpRoom, TypeOK
  <2>3. op'.mem.phase \in Phase
    BY <2>1, <2>2 DEF Phase
  <2>4. HasLabel(op.run)'
    <3>1. (store'[op.run]).label \/ store'[op.run].phase = "Deleted"
      BY <1>3, <1>1, <2>2 DEF HasLabel
    <3> QED
      BY <2>1, <3>1 DEF HasLabel
  <2>5. ASSUME Limited PROVE Room(op.run)'
    <3>1. op.spec \in Concurrency /\ op.spec.policy = "replace"
      BY DEF Cancels, TypeOK, Reconcile
    <3>2. MaxLag = 0
      BY <2>5, <3>1 DEF Limited
    <3>3. PICK c \in Concurrency : Cardinality(RunningRuns) <= c.maxRuns + MaxLag
      BY <2>5 DEF LagInv, SlotsBounded, Limited, RunningRuns
    <3>4. store[o].phase = "Running"
      <4>1. Len(watch) = 0
        BY <3>2, LenProperties DEF LagInv, KeptInv, TypeOK
      <4>2. cache[o] = store[o]
        BY <1>1, <4>1 DEF LagInv, KeptInv, CacheTrails, Trails
      <4> QED
        BY <1>1, <4>2
    <3>5. o \in RunningRuns
      BY <1>1, <3>4 DEF RunningRuns
    <3>6. (RunningRuns' \ {op.run}) \in SUBSET (RunningRuns \ {o})
      BY <1>3, <1>4, <1>7 DEF RunningRuns
    <3>7. /\ IsFiniteSet(RunningRuns \ {o})
          /\ Cardinality(RunningRuns \ {o}) = Cardinality(RunningRuns) - 1
      BY <3>5, Counts, FS_RemoveElement
    <3>8. Cardinality(RunningRuns' \ {op.run}) <= Cardinality(RunningRuns \ {o})
      BY <3>6, <3>7, FS_Subset
    <3>9. Cardinality(RunningRuns' \ {op.run}) < c.maxRuns + MaxLag
      <4>1. /\ Cardinality(RunningRuns' \ {op.run}) \in Nat
            /\ Cardinality(RunningRuns) \in Nat
            /\ c.maxRuns \in Nat
        BY Counts, CountsNext, Limits
      <4> QED
        BY <3>2, <3>3, <3>7, <3>8, <4>1
    <3> QED
      BY <2>1, <3>9 DEF Room, Held
  <2> QED
    BY <1>3, <1>5, <2>1, <2>3, <2>4, <2>5 DEF LagInv, OpRoom
<1> QED
  BY <1>6, <1>7 DEF Cancels

LEMMA DispatchesLag ==
    ASSUME TypeOK, LagInv, Dispatches
    PROVE  LagInv'
<1>1. KeptInv' /\ SlotsBounded'
  BY SameKept DEF LagInv, Dispatches, SlotsBounded
<1>2. op.mem.phase \in Phase /\ HasLabel(op.run) /\ (Limited => Room(op.run))
  BY DEF Dispatches, LagInv, OpRoom
<1>3. op'.mem.phase \in Phase
  BY <1>2 DEF Dispatches, Phase, Terminal
<1>4. HasLabel(op.run)'
  BY <1>2 DEF Dispatches, HasLabel
<1>5. Limited => Room(op.run)'
  BY <1>2 DEF Dispatches, Room, Held, RunningRuns
<1> QED
  BY <1>1, <1>3, <1>4, <1>5 DEF LagInv, OpRoom

LEMMA StepLag ==
    ASSUME TypeOK, LagInv, ReconcilerStep
    PROVE  LagInv'
<1> USE DEF TypeOK
<1>1. CASE AdmitRun
  <2>1. op.pc = "check" /\ ~ AtLimit /\ op' = Admitted /\ UNCHANGED <<store, cache, watch>>
    BY <1>1 DEF AdmitRun
  <2>2. Room(op.run) /\ op.mem.phase \in Phase /\ HasLabel(op.run)
    BY <2>1, CheckRoom DEF LagInv, OpRoom
  <2>3. /\ op'.pc = "dispatch" /\ op'.run = op.run
        /\ op'.mem.phase = IF op.mem.phase = "" THEN "Pending" ELSE op.mem.phase
    BY <2>1, AdmittedFields
  <2>4. op'.mem.phase \in Phase
    BY <2>2, <2>3 DEF Phase
  <2>5. KeptInv' /\ SlotsBounded'
    BY <2>1, SameKept DEF LagInv, SlotsBounded
  <2>6. HasLabel(op.run)' /\ Room(op.run)'
    BY <2>1, <2>2, <2>3 DEF HasLabel, Room, Held, RunningRuns
  <2> QED
    BY <2>3, <2>4, <2>5, <2>6 DEF LagInv, OpRoom
<1>2. ASSUME NEW r \in Run, CreateRun(r) PROVE LagInv'
  <2>1. PICK l \in BOOLEAN : Write(r, [phase |-> "", label |-> l, output |-> ""])
    BY <1>2 DEF CreateRun
  <2> DEFINE obj == [phase |-> "", label |-> l, output |-> ""]
  <2>2. obj \in RunObj /\ obj.phase = ""
    BY DEF RunObj, Phase, Output
  <2>3. store[r].phase = "Absent" /\ op' = op
    BY <1>2 DEF CreateRun
  <2>4. ~ HasLabel(r)
    BY <2>3 DEF LagInv, KeptInv, LabelInv, HasLabel
  <2> HIDE DEF obj
  <2>5. /\ KeptInv'
        /\ \A s \in Run : HasLabel(s) => HasLabel(s)'
        /\ store' = [store EXCEPT ![r] = obj]
    BY <2>1, <2>2, <2>4, WriteKept DEF LagInv, obj
  <2>6. \A s \in Run : store'[s].phase = "Running" => store[s].phase = "Running"
    BY <2>2, <2>5
  <2>7. /\ \A s : Room(s) => Room(s)'
        /\ SlotsBounded'
    BY <2>6, RoomKept DEF LagInv
  <2>8. OpRoom'
    <3>1. op.pc # "idle" /\ HasLabel(op.run) => HasLabel(op.run)'
      BY <2>2, <2>3, <2>4, <2>5 DEF HasLabel
    <3> QED
      BY <2>3, <2>7, <3>1 DEF LagInv, OpRoom, Room, Held
  <2> QED
    BY <2>5, <2>7, <2>8 DEF LagInv
<1>3. ASSUME NEW r \in Run, DeleteRun(r) PROVE LagInv'
  <2> DEFINE obj == [NoObj EXCEPT !.phase = "Deleted"]
  <2>1. Write(r, obj) /\ op' = op
    BY <1>3 DEF DeleteRun
  <2>2. obj \in RunObj /\ obj.phase = "Deleted"
    BY DEF RunObj, NoObj, Gone, Output
  <2> HIDE DEF obj
  <2>5. /\ KeptInv'
        /\ store' = [store EXCEPT ![r] = obj]
    BY <2>1, <2>2, WriteKept DEF LagInv
  <2>6. \A s \in Run : store'[s].phase = "Running" => store[s].phase = "Running"
    BY <2>2, <2>5
  <2>7. /\ \A s : Room(s) => Room(s)'
        /\ SlotsBounded'
    BY <2>6, RoomKept DEF LagInv
  <2>8. OpRoom'
    <3>1. op.pc # "idle" /\ HasLabel(op.run) => HasLabel(op.run)'
      BY <2>1, <2>2, <2>5 DEF HasLabel
    <3> QED
      BY <2>1, <2>7, <3>1 DEF LagInv, OpRoom, Room, Held
  <2> QED
    BY <2>5, <2>7, <2>8 DEF LagInv
<1>4. ASSUME NEW r \in Run, AgentNotFound(r) PROVE LagInv'
  <2>1. /\ UNCHANGED <<store, cache, watch>>
        /\ op'.pc = "patch" /\ op'.mem = SetRunFailedStatus(cache[r], "AgentNotFound")
    BY <1>4 DEF AgentNotFound
  <2>2. op'.mem.phase = "Failed"
    BY <2>1 DEF SetRunFailedStatus, RunObj
  <2> QED
    BY <2>1, <2>2, SameKept DEF LagInv, OpRoom, SlotsBounded, Phase
<1>5. ASSUME NEW r \in Run, Labelled(r) PROVE LagInv'
  <2>1. /\ UNCHANGED <<store, cache, watch>>
        /\ op'.pc = "check" /\ op'.run = r /\ op'.mem = cache[r]
        /\ cache[r].label /\ cache[r].phase \notin Gone
    BY <1>5 DEF Labelled, Begin, Exists
  <2>2. op'.mem.phase \in Phase
    BY <2>1 DEF RunObj
  <2>3. HasLabel(r)'
    BY <2>1 DEF LagInv, KeptInv, LabelInv, Copies, HasLabel
  <2>4. HasLabel(op.run)'
    BY <2>1, <2>3 DEF HasLabel
  <2> QED
    BY <2>1, <2>2, <2>4, SameKept DEF LagInv, OpRoom, SlotsBounded
<1>6. ASSUME NEW r \in Run, EnsureLabel(r) PROVE LagInv'
  <2> DEFINE obj == [cache[r] EXCEPT !.label = TRUE]
  <2>1. /\ Write(r, obj) /\ Fresh(r) /\ cache[r].phase \notin Gone
        /\ op'.pc = "check" /\ op'.run = r /\ op'.mem = obj
    BY <1>6 DEF EnsureLabel, Begin, Exists
  <2>2. obj \in RunObj /\ obj.phase = cache[r].phase /\ obj.phase \in Phase /\ obj.label
    BY <2>1 DEF RunObj
  <2>3. cache[r] = store[r]
    BY <2>1 DEF LagInv, KeptInv, CacheTrails, Trails, Fresh
  <2> HIDE DEF obj
  <2>4. obj.phase # "Absent"
    BY <2>2 DEF Phase
  <2>5. KeptInv' /\ store' = [store EXCEPT ![r] = obj]
    BY <2>1, <2>2, <2>4, WriteKept DEF LagInv
  <2>6. \A s \in Run : store'[s].phase = "Running" => store[s].phase = "Running"
    BY <2>2, <2>3, <2>5
  <2>7. SlotsBounded'
    BY <2>6, RoomKept DEF LagInv
  <2>8. HasLabel(op.run)'
    BY <2>1, <2>2, <2>5 DEF HasLabel
  <2> QED
    BY <2>1, <2>2, <2>5, <2>7, <2>8 DEF LagInv, OpRoom
<1>7. CASE \E mem \in RunObj : Patches(mem)
  BY <1>7, PatchesLag
<1>8. CASE \E o \in Active(op.run) : Cancels(o)
  BY <1>8, CancelsLag
<1> HIDE DEF TypeOK
<1> QED
  BY <1>1, <1>2, <1>3, <1>4, <1>5, <1>6, <1>7, <1>8, RestsLag, DeliverLag, StepKinds

-----------------------------------------------------------------------------
(* An end that the operator has seen stays.                                *)

EndStep ==
    \A r \in Run : EndSeen(r) =>
       \/ EndSeen(r)' /\ store'[r] = store[r]
       \/ store'[r].phase = "Deleted"

(* A write of another run leaves r, its copy and its events alone. *)
LEMMA WriteElsewhere ==
    ASSUME TypeOK, NEW r \in Run, NEW s \in Run, s # r, NEW obj \in RunObj,
           Write(s, obj), Fresh(r)
    PROVE  Fresh(r)' /\ cache'[r] = cache[r] /\ store'[r] = store[r]
<1> DEFINE e == [run |-> s, obj |-> obj]
           q == IF obj = store[s] THEN watch ELSE Append(watch, e)
<1>1. e \in Event /\ e.run = s /\ watch \in Seq(Event)
  BY DEF Event, TypeOK
<1>2. q \in Seq(Event)
  BY <1>1, AppendProperties
<1>3. \A i \in 1..Len(q) : q[i].run # r
  <2>1. CASE q = watch
    BY <2>1 DEF Fresh
  <2>2. CASE q = Append(watch, e)
    <3>1. /\ Len(q) = Len(watch) + 1 /\ Len(watch) \in Nat
          /\ q[Len(watch) + 1] = e
          /\ \A i \in 1..Len(watch) : q[i] = watch[i]
      BY <1>1, <2>2, AppendProperties, LenProperties
    <3> HIDE DEF q, e
    <3> QED
      BY <1>1, <3>1 DEF Fresh
  <2> QED
    BY <2>1, <2>2
<1>4. store'[r] = store[r]
  BY DEF Write, TypeOK
<1>5. /\ Len(q) > MaxLag => /\ watch' = Tail(q)
                            /\ cache' = [cache EXCEPT ![Head(q).run] = Head(q).obj]
      /\ ~ (Len(q) > MaxLag) => watch' = q /\ cache' = cache
  BY DEF Write
<1> HIDE DEF q, e
<1>6. CASE Len(q) > MaxLag
  <2>1. q # << >> /\ Len(q) \in Nat
    BY <1>2, <1>6, RunAssumption
  <2>2. Head(q) = q[1] /\ q[1] \in Event /\ 1 \in 1..Len(q)
    BY <1>2, <2>1, HeadTailProperties, ElementOfSeq
  <2>3. \A i \in 1..Len(Tail(q)) : i + 1 \in 1..Len(q) /\ Tail(q)[i] = q[i + 1]
    BY <1>2, <2>1, HeadTailProperties
  <2>4. Fresh(r)'
    BY <1>3, <1>5, <1>6, <2>3 DEF Fresh
  <2>5. cache'[r] = cache[r]
    BY <1>3, <1>5, <1>6, <2>2 DEF TypeOK
  <2> QED
    BY <1>4, <2>4, <2>5
<1>7. CASE ~ (Len(q) > MaxLag)
  BY <1>3, <1>4, <1>5, <1>7 DEF Fresh
<1> QED
  BY <1>6, <1>7

LEMMA PatchElsewhere ==
    ASSUME TypeOK, NEW r \in Run, NEW s \in Run, s # r, NEW base \in RunObj,
           NEW mem \in RunObj, PatchStatus(s, base, mem), Fresh(r)
    PROVE  Fresh(r)' /\ cache'[r] = cache[r] /\ store'[r] = store[r]
<1>1. CASE Exists(store[s])
  <2>1. MergeFrom(store[s], base, mem) \in RunObj
    BY MergeType DEF TypeOK
  <2> QED
    BY <1>1, <2>1, WriteElsewhere DEF PatchStatus
<1>2. CASE ~ Exists(store[s])
  BY <1>2 DEF PatchStatus, Fresh
<1> QED
  BY <1>1, <1>2

(* Steps that leave the runs alone and start no reconcile. *)
LEMMA RestEnd ==
    ASSUME UNCHANGED <<store, cache, watch>>, op'.run \in {op.run, NoRun}
    PROVE  EndStep
BY RunAssumption DEF EndStep, EndSeen, Fresh

LEMMA PatchesEnd ==
    ASSUME TypeOK, NEW mem \in RunObj, Patches(mem)
    PROVE  EndStep
<1> SUFFICES ASSUME NEW r \in Run, EndSeen(r)
             PROVE  EndSeen(r)' /\ store'[r] = store[r]
  BY DEF EndStep
<1>1. op.run \in Run /\ op.run # r /\ op.base \in RunObj
  BY DEF Patches, TypeOK, Reconcile, EndSeen
<1>2. PatchStatus(op.run, op.base, mem) /\ op'.run = NoRun
  BY IdleRun DEF Patches
<1>3. Fresh(r)' /\ cache'[r] = cache[r] /\ store'[r] = store[r]
  BY <1>1, <1>2, PatchElsewhere DEF EndSeen
<1> QED
  BY <1>2, <1>3, RunAssumption DEF EndSeen

LEMMA StepEnd ==
    ASSUME TypeOK, ReconcilerStep
    PROVE  EndStep
<1>1. CASE Rests
  BY <1>1, RestEnd, IdleRun DEF Rests
<1>2. CASE AdmitRun
  <2>1. UNCHANGED <<store, cache, watch>> /\ op'.run = op.run
    BY <1>2, AdmittedFields DEF AdmitRun
  <2> QED
    BY <2>1, RestEnd
<1>3. CASE \E mem \in RunObj : Patches(mem)
  BY <1>3, PatchesEnd
<1>4. CASE Deliver
  <2> SUFFICES ASSUME NEW r \in Run, EndSeen(r)
               PROVE  EndSeen(r)' /\ store'[r] = store[r]
    BY DEF EndStep
  <2>1. /\ watch \in Seq(Event) /\ watch # << >>
        /\ watch' = Tail(watch) /\ UNCHANGED <<store, op>>
        /\ cache' = [cache EXCEPT ![Head(watch).run] = Head(watch).obj]
    BY <1>4 DEF Deliver, TypeOK
  <2>2. Head(watch) = watch[1] /\ 1 \in 1..Len(watch)
    BY <2>1, HeadTailProperties
  <2>3. \A i \in 1..Len(Tail(watch)) : i + 1 \in 1..Len(watch)
                                         /\ Tail(watch)[i] = watch[i + 1]
    BY <2>1, HeadTailProperties
  <2>4. Fresh(r)'
    BY <2>1, <2>3 DEF EndSeen, Fresh
  <2>5. cache'[r] = cache[r]
    BY <2>1, <2>2 DEF EndSeen, Fresh, TypeOK
  <2> QED
    BY <2>1, <2>4, <2>5 DEF EndSeen
<1>5. CASE \E o \in Active(op.run) : Cancels(o)
  <2>1. PICK o \in Active(op.run) : Cancels(o)
    BY <1>5
  <2> DEFINE mem == SetRunFailedStatus(cache[o], "Cancelled")
  <2>2. o \in Run /\ cache[o] \in RunObj /\ cache[o].phase = "Running" /\ mem \in RunObj
    BY ActiveRun
  <2>3. PatchStatus(o, cache[o], mem)
    BY <2>1 DEF Cancels
  <2>4. op'.run \in {op.run, NoRun}
    BY <2>1, AdmittedFields, IdleRun DEF Cancels
  <2> HIDE DEF mem
  <2> SUFFICES ASSUME NEW r \in Run, EndSeen(r)
               PROVE  EndSeen(r)' /\ store'[r] = store[r]
    BY DEF EndStep
  <2>5. o # r
    BY <2>2 DEF EndSeen, Terminal
  <2>6. Fresh(r)' /\ cache'[r] = cache[r] /\ store'[r] = store[r]
    BY <2>2, <2>3, <2>5, PatchElsewhere DEF EndSeen
  <2> QED
    BY <2>4, <2>6, RunAssumption DEF EndSeen
<1>6. ASSUME NEW s \in Run, CreateRun(s) PROVE EndStep
  <2>1. PICK l \in BOOLEAN : Write(s, [phase |-> "", label |-> l, output |-> ""])
    BY <1>6 DEF CreateRun
  <2>2. [phase |-> "", label |-> l, output |-> ""] \in RunObj
    BY DEF RunObj, Phase, Output
  <2>3. store[s].phase = "Absent" /\ op' = op
    BY <1>6 DEF CreateRun
  <2> SUFFICES ASSUME NEW r \in Run, EndSeen(r)
               PROVE  EndSeen(r)' /\ store'[r] = store[r]
    BY DEF EndStep
  <2>4. s # r
    BY <2>3 DEF EndSeen, Terminal
  <2>5. Fresh(r)' /\ cache'[r] = cache[r] /\ store'[r] = store[r]
    BY <2>1, <2>2, <2>4, WriteElsewhere DEF EndSeen
  <2> QED
    BY <2>3, <2>5 DEF EndSeen
<1>7. ASSUME NEW s \in Run, DeleteRun(s) PROVE EndStep
  <2> DEFINE obj == [NoObj EXCEPT !.phase = "Deleted"]
  <2>1. Write(s, obj) /\ op' = op
    BY <1>7 DEF DeleteRun
  <2>2. obj \in RunObj /\ obj.phase = "Deleted"
    BY DEF RunObj, NoObj, Gone, Output
  <2> HIDE DEF obj
  <2> SUFFICES ASSUME NEW r \in Run, EndSeen(r)
               PROVE  \/ EndSeen(r)' /\ store'[r] = store[r]
                      \/ store'[r].phase = "Deleted"
    BY DEF EndStep
  <2>3. CASE s = r
    BY <2>1, <2>2, <2>3 DEF Write, TypeOK
  <2>4. CASE s # r
    <3>1. Fresh(r)' /\ cache'[r] = cache[r] /\ store'[r] = store[r]
      BY <2>1, <2>2, <2>4, WriteElsewhere DEF EndSeen
    <3> QED
      BY <2>1, <3>1 DEF EndSeen
  <2> QED
    BY <2>3, <2>4
<1>8. ASSUME NEW s \in Run, AgentNotFound(s) \/ Labelled(s) PROVE EndStep
  <2>1. /\ UNCHANGED <<store, cache, watch>> /\ op'.run = s
        /\ cache[s].phase \notin Terminal
    BY <1>8 DEF AgentNotFound, Labelled, Begin
  <2> QED
    BY <2>1 DEF EndStep, EndSeen, Fresh
<1>9. ASSUME NEW s \in Run, EnsureLabel(s) PROVE EndStep
  <2>1. /\ Write(s, [cache[s] EXCEPT !.label = TRUE]) /\ op'.run = s
        /\ cache[s].phase \notin Terminal
    BY <1>9 DEF EnsureLabel, Begin
  <2>2. [cache[s] EXCEPT !.label = TRUE] \in RunObj
    BY DEF TypeOK, RunObj
  <2> SUFFICES ASSUME NEW r \in Run, EndSeen(r)
               PROVE  EndSeen(r)' /\ store'[r] = store[r]
    BY DEF EndStep
  <2>3. s # r
    BY <2>1 DEF EndSeen
  <2>4. Fresh(r)' /\ cache'[r] = cache[r] /\ store'[r] = store[r]
    BY <2>1, <2>2, <2>3, WriteElsewhere DEF EndSeen
  <2> QED
    BY <2>1, <2>3, <2>4 DEF EndSeen
<1> QED
  BY <1>1, <1>2, <1>3, <1>4, <1>5, <1>6, <1>7, <1>8, <1>9, StepKinds

-----------------------------------------------------------------------------
(* Where phases and outputs come from, whatever the lag.  P and T give the *)
(* phases and the texts that each run may show.  Patches and writes only   *)
(* ever copy single fields, so a field stays within them if nothing else   *)
(* puts it outside.                                                        *)

RunsWithin(P, T) ==
    \A r \in Run : \A o \in {store[r]} \cup Copies(r) :
       o.phase \in P[r] /\ o.output \in T[r]

OpWithin(P, T) ==
    op.pc # "idle" => op.mem.phase \in P[op.run] /\ op.mem.output \in T[op.run]

Within(P, T) == RunsWithin(P, T) /\ OpWithin(P, T)

(* What users and the shared half of the reconciler may write. *)
Bounds(P, T) ==
    \A r \in Run : /\ {"", "Pending", "Queued", "Failed"} \cup Gone \subseteq P[r]
                   /\ {""} \cup Message \subseteq T[r]

LEMMA WriteWithin ==
    ASSUME TypeOK, NEW P, NEW T, RunsWithin(P, T), NEW r \in Run, NEW obj \in RunObj,
           Write(r, obj), obj.phase \in P[r], obj.output \in T[r]
    PROVE  RunsWithin(P, T)'
<1> SUFFICES ASSUME NEW s \in Run, NEW o \in {store'[s]} \cup Copies(s)'
             PROVE  o.phase \in P[s] /\ o.output \in T[s]
  BY DEF RunsWithin
<1>1. store' = [store EXCEPT ![r] = obj] /\ store \in [Run -> RunObj]
  BY DEF Write, TypeOK
<1>2. Copies(s)' \subseteq Copies(s) \cup (IF s = r THEN {obj} ELSE {})
  BY WriteCopies
<1>3. o \in {store[s]} \cup Copies(s) \/ (s = r /\ o = obj)
  BY <1>1, <1>2
<1> QED
  BY <1>3 DEF RunsWithin

LEMMA PatchWithin ==
    ASSUME TypeOK, NEW P, NEW T, RunsWithin(P, T), NEW r \in Run,
           NEW base \in RunObj, NEW mem \in RunObj, PatchStatus(r, base, mem),
           mem.phase \in P[r], mem.output \in T[r]
    PROVE  RunsWithin(P, T)'
<1>1. CASE Exists(store[r])
  <2> DEFINE obj == MergeFrom(store[r], base, mem)
  <2>1. obj \in RunObj /\ store[r] \in RunObj /\ Write(r, obj)
    BY <1>1, MergeType DEF TypeOK, PatchStatus
  <2>2. obj.phase \in {store[r].phase, mem.phase}
    BY <2>1 DEF MergeFrom, RunObj
  <2>3. obj.output \in {store[r].output, mem.output}
    BY <2>1 DEF MergeFrom, RunObj
  <2> HIDE DEF obj
  <2>4. obj.phase \in P[r] /\ obj.output \in T[r]
    BY <2>2, <2>3 DEF RunsWithin
  <2> QED
    BY <2>1, <2>4, WriteWithin
<1>2. CASE ~ Exists(store[r])
  BY <1>2 DEF PatchStatus, RunsWithin, Copies
<1> QED
  BY <1>1, <1>2

(* The end of a reconcile by a patch of its run. *)
LEMMA PatchesWithin ==
    ASSUME TypeOK, NEW P, NEW T, Within(P, T), Bounds(P, T),
           NEW mem \in RunObj, Patches(mem)
    PROVE  Within(P, T)'
<1>1. /\ op.run \in Run /\ op.base \in RunObj
      /\ PatchStatus(op.run, op.base, mem) /\ op'.pc = "idle"
  BY IdleRun DEF Patches, TypeOK, Reconcile
<1>2. op.mem.phase \in P[op.run] /\ op.mem.output \in T[op.run]
  BY DEF Within, OpWithin, Patches
<1>3. mem.phase \in P[op.run] /\ mem.output \in T[op.run]
  BY <1>1, <1>2 DEF Patches, Bounds
<1>4. RunsWithin(P, T)'
  BY <1>1, <1>3, PatchWithin DEF Within
<1> QED
  BY <1>1, <1>4 DEF Within, OpWithin

LEMMA StepWithin ==
    ASSUME TypeOK, NEW P, NEW T, Within(P, T), Bounds(P, T), ReconcilerStep
    PROVE  Within(P, T)'
<1>1. ASSUME UNCHANGED <<store, cache, watch>> PROVE RunsWithin(P, T)'
  BY <1>1 DEF Within, RunsWithin, Copies
<1>2. CASE Rests
  BY <1>1, <1>2, IdleRun DEF Rests, Within, OpWithin
<1>3. CASE Deliver
  <2>1. UNCHANGED <<store, op>>
    BY <1>3 DEF Deliver
  <2>2. RunsWithin(P, T)'
    BY <1>3, <2>1, DeliverCopies DEF Within, RunsWithin
  <2> QED
    BY <2>1, <2>2 DEF Within, OpWithin
<1>4. ASSUME op.pc = "check", op' = Admitted PROVE OpWithin(P, T)'
  <2>1. /\ op'.run = op.run /\ op'.mem.output = op.mem.output
        /\ op'.mem.phase = IF op.mem.phase = "" THEN "Pending" ELSE op.mem.phase
    BY <1>4, AdmittedFields
  <2>2. op.run \in Run
    BY <1>4 DEF TypeOK
  <2>3. op.mem.phase \in P[op.run] /\ op.mem.output \in T[op.run]
    BY <1>4 DEF Within, OpWithin
  <2> QED
    BY <2>1, <2>2, <2>3 DEF OpWithin, Bounds
<1>5. CASE AdmitRun
  BY <1>1, <1>4, <1>5 DEF AdmitRun, Within
<1>6. CASE \E mem \in RunObj : Patches(mem)
  BY <1>6, PatchesWithin
<1>7. CASE \E o \in Active(op.run) : Cancels(o)
  <2>1. PICK o \in Active(op.run) : Cancels(o)
    BY <1>7
  <2> DEFINE mem == SetRunFailedStatus(cache[o], "Cancelled")
  <2>2. /\ o \in Run /\ cache[o] \in RunObj
        /\ mem \in RunObj /\ mem.phase = "Failed" /\ mem.output = "Cancelled"
    BY ActiveRun
  <2>3. PatchStatus(o, cache[o], mem)
    BY <2>1 DEF Cancels
  <2> HIDE DEF mem
  <2>4. mem.phase \in P[o] /\ mem.output \in T[o]
    BY <2>2 DEF Bounds, Message
  <2>5. RunsWithin(P, T)'
    BY <2>2, <2>3, <2>4, PatchWithin DEF Within
  <2>6. OpWithin(P, T)'
    BY <1>4, <2>1, IdleRun DEF Cancels, OpWithin
  <2> QED
    BY <2>5, <2>6 DEF Within
<1>8. ASSUME NEW r \in Run, CreateRun(r) PROVE Within(P, T)'
  <2>1. PICK l \in BOOLEAN : Write(r, [phase |-> "", label |-> l, output |-> ""])
    BY <1>8 DEF CreateRun
  <2> DEFINE obj == [phase |-> "", label |-> l, output |-> ""]
  <2>2. obj \in RunObj /\ obj.phase = "" /\ obj.output = ""
    BY DEF RunObj, Phase, Output
  <2>3. Write(r, obj) /\ op' = op
    BY <1>8, <2>1 DEF CreateRun
  <2> HIDE DEF obj
  <2>4. RunsWithin(P, T)'
    BY <2>2, <2>3, WriteWithin DEF Within, Bounds
  <2> QED
    BY <2>3, <2>4 DEF Within, OpWithin
<1>9. ASSUME NEW r \in Run, DeleteRun(r) PROVE Within(P, T)'
  <2> DEFINE obj == [NoObj EXCEPT !.phase = "Deleted"]
  <2>1. Write(r, obj) /\ op' = op
    BY <1>9 DEF DeleteRun
  <2>2. obj \in RunObj /\ obj.phase = "Deleted" /\ obj.output = ""
    BY DEF RunObj, NoObj, Gone, Output
  <2> HIDE DEF obj
  <2>3. RunsWithin(P, T)'
    BY <2>1, <2>2, WriteWithin DEF Within, Bounds, Gone
  <2> QED
    BY <2>1, <2>3 DEF Within, OpWithin
<1>10. ASSUME NEW r \in Run
       PROVE  cache[r] \in RunObj /\ cache[r].phase \in P[r] /\ cache[r].output \in T[r]
  BY DEF Within, RunsWithin, Copies, TypeOK
<1>11. ASSUME NEW r \in Run, AgentNotFound(r) PROVE Within(P, T)'
  <2>1. /\ UNCHANGED <<store, cache, watch>> /\ op'.run = r
        /\ op'.mem = SetRunFailedStatus(cache[r], "AgentNotFound")
    BY <1>11 DEF AgentNotFound
  <2>2. op'.mem.phase = "Failed" /\ op'.mem.output = "AgentNotFound"
    BY <1>10, <2>1 DEF SetRunFailedStatus, RunObj
  <2> QED
    BY <1>1, <2>1, <2>2 DEF Within, OpWithin, Bounds, Message
<1>12. ASSUME NEW r \in Run, Labelled(r) PROVE Within(P, T)'
  <2>1. UNCHANGED <<store, cache, watch>> /\ op'.run = r /\ op'.mem = cache[r]
    BY <1>12 DEF Labelled
  <2> QED
    BY <1>1, <1>10, <2>1 DEF Within, OpWithin
<1>13. ASSUME NEW r \in Run, EnsureLabel(r) PROVE Within(P, T)'
  <2> DEFINE obj == [cache[r] EXCEPT !.label = TRUE]
  <2>1. Write(r, obj) /\ op'.run = r /\ op'.mem = obj
    BY <1>13 DEF EnsureLabel
  <2>2. obj \in RunObj /\ obj.phase = cache[r].phase /\ obj.output = cache[r].output
    BY <1>10 DEF RunObj
  <2> HIDE DEF obj
  <2>3. RunsWithin(P, T)'
    BY <1>10, <2>1, <2>2, WriteWithin DEF Within
  <2> QED
    BY <1>10, <2>1, <2>2, <2>3 DEF Within, OpWithin
<1> QED
  BY <1>2, <1>3, <1>5, <1>6, <1>7, <1>8, <1>9, <1>11, <1>12, <1>13, StepKinds
=============================================================================
