---------------------------- MODULE MCWorkloads -----------------------------
(* A daemon Agent and a poll-based Channel of the same name, and a task    *)
(* Agent alone or with a Channel that has a webhook.                       *)
EXTENDS Workloads

Names == [w \in Workload |-> IF w = "same" THEN "daemon" ELSE w]

Daemon == [mode |-> "daemon", ownSA |-> TRUE, storage |-> FALSE, netpol |-> FALSE,
           integrations |-> {"repo"}, providers |-> {}]
Task == [Daemon EXCEPT !.mode = "task", !.ownSA = FALSE, !.integrations = {},
                       !.providers = {"llm"}]
Bridge == [agent |-> "daemon", ref |-> "repo", webhook |-> FALSE]
Hook == [agent |-> "task", ref |-> "unused", webhook |-> TRUE]

FirstSpec == [w \in Workload |-> CASE w = "daemon" -> Daemon [] w = "task" -> Task
                                   [] w = "same" -> Bridge [] w = "hook" -> Hook]
SpecsOf == [w \in Workload |->
              {FirstSpec[w]} \cup
              (IF w = "daemon" THEN {[Daemon EXCEPT !.storage = TRUE, !.netpol = TRUE]} ELSE {})]

AllReady == [d \in Dep |-> "ready"]
NoRepo == [AllReady EXCEPT !["repo"] = "absent"]
FourCasts == {[who |-> {"daemon", "same"}, deps |-> AllReady, trouble |-> 1],
              [who |-> {"daemon", "same"}, deps |-> NoRepo, trouble |-> 1],
              [who |-> {"task"}, deps |-> AllReady, trouble |-> 2],
              [who |-> {"task", "hook"}, deps |-> AllReady, trouble |-> 0]}
=============================================================================
