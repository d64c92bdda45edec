----------------------------- MODULE MCDeployment -----------------------------
(***************************************************************************)
(* Instance of Deployment for TLC: two enabled lines and one disabled, two  *)
(* released versions, two request threads.                                 *)
(***************************************************************************)
EXTENDS Deployment, TLC

CONSTANTS l1, l2, l3, t1, t2, b1

MCEnabled == {l1, l2}
MCRegistered == {l1, l2, l3}

Line == [goal |-> "ROUTINE", rank |-> 3, excluded |-> {}, strategy |-> "STOP_LINE",
         selected |-> {"tool_02"}, target |-> None, minRate |-> 100, maxDown |-> None,
         policy |-> "FCFS", enabled |-> FALSE]

\* Version 2 excludes a tool on l1 and raises the rank of l2; version 3 only
\* changes the picking priority of both.
MCTrts ==
  LET one == [l \in {l1, l2} |-> IF l = l1 THEN [Line EXCEPT !.target = "set_01"] ELSE Line]
      two == [one EXCEPT ![l1].excluded = {"tool_01"}, ![l2].rank = 5]
  IN <<one, two, [l \in {l1, l2} |-> [two[l] EXCEPT !.policy = "REQUIRED_FIRST",
                                                    !.enabled = TRUE]]>>

Record(mode, wip, tools) ==
  [mode |-> mode, wip |-> wip, task |-> "ROUTINE", tools |-> tools,
   trt |-> None, deployment |-> None]

MCReports ==
  {[l \in {l1, l2} |-> Record("IDLE", 0, {})],
   [l \in {l1, l2} |-> IF l = l1 THEN Record("RUNNING", 1, {"tool_01"})
                                 ELSE Record("ERROR", 0, {})]}

\* The caller of the supervisor may know more than the file.
MCGiven ==
  {[l \in {l1, l2} |-> IF l = l1 THEN Record("RUNNING", 1, {"tool_01"})
                                 ELSE Record("RUNNING", 0, {})]}

MCTools == {"tool_01", "tool_02", "tool_03"}
MCToolSets == [s \in {"set_01"} |-> [members |-> {"tool_01", "tool_02"}, others |-> {"tool_03"}]]

MCTemplateConfig == [count |-> 2, time |-> "T0", mode |-> None]

Request ==
  [scope |-> "ABSENT", lines |-> {}, affected |-> {}, decisions |-> <<>>,
   baseline |-> FALSE, waiting |-> FALSE, dryRun |-> FALSE, batch |-> None, overrides |-> <<>>,
   override |-> [envs |-> None, count |-> None, time |-> None, mode |-> None]]

MCRequests ==
  {[Request EXCEPT !.affected = {l1}, !.override.time = "T1"],
   [Request EXCEPT !.scope = "LIMITED", !.lines = {l2}, !.batch = b1,
                   !.overrides = [l \in {l2} |-> [strategy |-> "CONTINUE_FEASIBLE_TASKS",
                                                  priority |-> None]]],
   [Request EXCEPT !.affected = {l1}, !.decisions = [l \in {l2} |-> "IMMEDIATE_SWITCH"],
                   !.override.count = 0],
   [Request EXCEPT !.override.envs = 1, !.override.mode = "immediate-stop", !.dryRun = TRUE, !.baseline = TRUE],
   [Request EXCEPT !.scope = "FULL", !.override.envs = 1, !.affected = {l1}]}

Row == [success |-> TRUE, done |-> 2, rate |-> 120, cycle |-> None, down |-> 0,
        policy |-> None, deviations |-> 0]

MCResults ==
  LET clean == [file |-> "OPEN", status |-> "COMPLETED", error |-> {}, tabled |-> TRUE,
                kpis |-> [l \in {l2} |-> Row], picks |-> [l \in {l1, l2} |-> <<>>],
                batches |-> [l \in {l1, l2} |-> {}],
                sorting |-> [l \in {l1, l2} |-> None], tools |-> {}]
  IN {clean, [clean EXCEPT !.kpis = [l \in {l1, l2} |-> Row]],
      [clean EXCEPT !.kpis = [l \in {l2} |-> [Row EXCEPT !.rate = 90]]],
      [clean EXCEPT !.kpis = [l \in {l2} |-> [Row EXCEPT !.success = FALSE]],
                    !.sorting[l2] = [required |-> 9, done |-> 2, success |-> FALSE]]}

\* No run of this instance fails, so that it does not matter what the log says
\* of failures (StrategySelection has runs that do).
MCLogs == {[seed |-> {"ASSERT"}, host |-> {}]}

MCDeploys ==
  LET body == [run |-> None, version |-> 2, decision |-> "DEPLOY", acks |-> {}, force |-> FALSE]
  IN {body, [body EXCEPT !.decision = "DEPLOY_WITH_ACK"],
      [body EXCEPT !.version = 1, !.force = TRUE]}

Symmetric == Permutations({t1, t2})
===============================================================================
