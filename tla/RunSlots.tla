------------------------------ MODULE RunSlots ------------------------------
(***************************************************************************)
(* What the AgentRun API promises about the phases of one Agent's runs, as *)
(* README.md and the field comments of agentrun_types.go describe them:    *)
(* at most `limit' runs are Running, a run starts only when a slot is      *)
(* free, and a Succeeded or Failed run stays as it is.                     *)
(***************************************************************************)
EXTENDS Naturals, FiniteSets

CONSTANT Run
VARIABLES phase, limit

slotVars == <<phase, limit>>

Waiting == {"", "Pending", "Queued"}
Ended == {"Succeeded", "Failed"}

Holding(r) == {s \in Run \ {r} : phase[s] = "Running"}

Init ==
    /\ phase = [r \in Run |-> "Absent"]
    /\ limit \in Nat \ {0}

Submit(r) ==
    /\ phase[r] = "Absent"
    /\ phase' = [phase EXCEPT ![r] = ""]

Wait(r) ==
    /\ phase[r] \in Waiting
    /\ \E p \in {"Pending", "Queued"} : phase' = [phase EXCEPT ![r] = p]

Start(r) ==
    /\ phase[r] \in Waiting
    /\ Cardinality(Holding(r)) < limit
    /\ phase' = [phase EXCEPT ![r] = "Running"]

End(r) ==
    /\ phase[r] \in Waiting \cup {"Running"}
    /\ \E p \in Ended : phase' = [phase EXCEPT ![r] = p]

Remove(r) ==
    /\ phase[r] \notin {"Absent", "Deleted"}
    /\ phase' = [phase EXCEPT ![r] = "Deleted"]

Next ==
    /\ \E r \in Run : Submit(r) \/ Wait(r) \/ Start(r) \/ End(r) \/ Remove(r)
    /\ UNCHANGED limit

Spec == Init /\ [][Next]_slotVars
=============================================================================
