----------------------------- MODULE MCDaemonRun -----------------------------
(* Instances of DaemonRun: runs are strings, so that a run can stand for   *)
(* the text that the daemon answers its prompt with.                       *)
EXTENDS DaemonRun

Runs2 == {"r1", "r2"}
Runs3 == {"r1", "r2", "r3"}

Tied == [r \in Run |-> 1]

OneSlot == [maxRuns : {1}, policy : Policy]
QueueTwoSlots == [maxRuns : {2}, policy : {"queue"}]
=============================================================================
