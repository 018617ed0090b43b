------------------------------ MODULE MCTaskRun ------------------------------
(* Instances of TaskRun: runs are strings, so that a run can stand for the *)
(* output of its own execution.                                            *)
EXTENDS TaskRun

Runs2 == {"r1", "r2"}
Runs3 == {"r1", "r2", "r3"}

Distinct == [r \in Run |-> CASE r = "r1" -> 1 [] r = "r2" -> 2 [] OTHER -> 3]
Tied == [r \in Run |-> 1]

OneSlot == [maxRuns : {1}, policy : Policy]
QueueOneSlot == [maxRuns : {1}, policy : {"queue"}]
QueueOneOrTwo == [maxRuns : {1, 2}, policy : {"queue"}]
QueueOrReplace == [maxRuns : {1}, policy : {"queue", "replace"}]
=============================================================================
