-------------------------- MODULE MCStrategySelection --------------------------
(***************************************************************************)
(* Instance of StrategySelection for TLC: two lines, up to two proposals    *)
(* per batch, and result databases that differ from a clean one in one      *)
(* respect each.                                                           *)
(***************************************************************************)
EXTENDS StrategySelection

CONSTANTS l1, l2

Lines == {l1, l2}
NoOverride == [l \in {} |-> None]

MCProposals ==
  {[id |-> 1, strategy |-> [l \in Lines |-> "STOP_LINE"], priority |-> NoOverride,
    mode |-> "immediate-stop"],
   [id |-> 1, strategy |-> NoOverride, priority |-> [l \in {l1} |-> "FCFS"], mode |-> None],
   [id |-> 3, strategy |-> NoOverride, priority |-> [l \in {l2} |-> "REQUIRED_FIRST"],
    mode |-> None],
   [id |-> 3, strategy |-> [l \in {l1} |-> "STOP_LINE"], priority |-> NoOverride,
    mode |-> "immediate-stop"],
   [id |-> Baseline, strategy |-> NoOverride, priority |-> NoOverride, mode |-> None]}

Context ==
  [scope |-> Lines, lines |-> Lines, count |-> 2, tooling |-> 2, mode |-> "continue-until-arrival",
   lockMode |-> None, lockedStrategy |-> {}, lockedPriority |-> {},
   strategy |-> [l \in Lines |-> "CONTINUE_FEASIBLE_TASKS"],
   priority |-> [l \in Lines |-> IF l = l1 THEN "REQUIRED_FIRST" ELSE "FCFS"],
   minRate |-> [l \in Lines |-> IF l = l1 THEN 100 ELSE None],
   maxDown |-> [l \in Lines |-> 5]]

MCContexts ==
  {Context,
   [Context EXCEPT !.lockedPriority = {l1}, !.count = 3],
   [Context EXCEPT !.lockMode = "immediate-stop"],
   [Context EXCEPT !.lockMode = "immediate-stop", !.lockedStrategy = {l2}],
   [Context EXCEPT !.lockMode = "continue-until-arrival", !.lockedStrategy = Lines,
                   !.strategy = [l \in Lines |-> "STOP_LINE"]],
   [Context EXCEPT !.strategy = [l \in Lines |-> "STOP_LINE"], !.lines = {l1}],
   [Context EXCEPT !.lines = {l1}, !.scope = {l1}],
   [Context EXCEPT !.mode = None, !.tooling = 0],
   [Context EXCEPT !.minRate[l2] = 0]}

Tool(l, n, time, wanted) ==
  [line |-> l, tool |-> n, time |-> time, wanted |-> wanted, picked |-> TRUE,
   placed |-> TRUE, correct |-> TRUE, target |-> IF wanted THEN "TRAY" ELSE "BOX"]

Row == [success |-> TRUE, done |-> 2, rate |-> 180, cycle |-> 40, down |-> 0,
        policy |-> "REQUIRED_FIRST", deviations |-> 0, seconds |-> 40]

Batch == [violation |-> FALSE, tools |-> 2, picked |-> 2, completed |-> 40,
          next |-> None, success |-> TRUE]

Clean ==
  [file |-> "OPEN", status |-> "COMPLETED", error |-> {}, tabled |-> TRUE,
   kpis |-> [l \in Lines |-> Row],
   picks |-> [l \in Lines |-> <<[batch |-> 1, tool |-> 1, wanted |-> TRUE],
                                [batch |-> 1, tool |-> 2, wanted |-> FALSE]>>],
   batches |-> [l \in Lines |-> {Batch}],
   sorting |-> [l \in Lines |-> [required |-> 2, done |-> 2, success |-> TRUE]],
   tools |-> UNION {{Tool(l, 1, 20, TRUE), Tool(l, 2, 40, FALSE)} : l \in Lines}]

MCLogs ==
  [seed : {{}, {"ASSERT"}}, host : {{}, {"ASSERT"}}]

Drop(db, l) == [db EXCEPT !.kpis = [k \in Lines \ {l} |-> db.kpis[k]]]

MCDatabases ==
  {Clean,
   [Clean EXCEPT !.file = "SIMULATION_DB_NOT_FOUND"],
   [Clean EXCEPT !.status = "RUNNING"],
   [Clean EXCEPT !.status = "FAILED", !.error = {"EXCEPTION"}],
   [Clean EXCEPT !.status = "FAILED", !.error = {"ASSERT"}, !.kpis[l1].success = FALSE],
   [Clean EXCEPT !.status = "FAILED"],
   Drop(Clean, l1), Drop(Clean, l2),
   [Clean EXCEPT !.kpis[l1].rate = 240, !.kpis[l1].seconds = None],
   [Clean EXCEPT !.kpis[l1].rate = 90],
   [Clean EXCEPT !.kpis[l1].rate = 400, !.kpis[l1].cycle = 3, !.kpis[l1].success = FALSE],
   [Clean EXCEPT !.kpis[l2].down = 9],
   [Clean EXCEPT !.kpis[l2].success = FALSE],
   [Clean EXCEPT !.kpis[l1].policy = None, !.picks[l1] = <<>>],
   [Clean EXCEPT !.picks[l1] = <<[batch |-> 1, tool |-> 2, wanted |-> FALSE],
                                 [batch |-> 1, tool |-> 1, wanted |-> TRUE]>>],
   [Clean EXCEPT !.picks[l1] = <<[batch |-> 1, tool |-> 1, wanted |-> TRUE],
                                 [batch |-> 1, tool |-> 2, wanted |-> FALSE],
                                 [batch |-> 1, tool |-> 1, wanted |-> TRUE]>>],
   [Clean EXCEPT !.kpis[l1].policy = "NONE"],
   [Clean EXCEPT !.kpis[l2].rate = None],
   [Clean EXCEPT !.batches[l2] = {[Batch EXCEPT !.violation = TRUE]}],
   [Clean EXCEPT !.batches[l2] = {[Batch EXCEPT !.violation = TRUE, !.picked = 1]}],
   [Clean EXCEPT !.sorting[l1] = [required |-> 9, done |-> 2, success |-> FALSE],
                 !.kpis[l1].success = FALSE],
   [Clean EXCEPT !.tools = {[e EXCEPT !.correct = e.wanted] : e \in Clean.tools}],
   [Clean EXCEPT !.tools = {[e EXCEPT !.correct = IF e.wanted THEN TRUE ELSE None] :
                              e \in Clean.tools}],
   [Clean EXCEPT !.tools = {[e EXCEPT !.correct = None] : e \in Clean.tools}],
   [Clean EXCEPT !.tools = {[e EXCEPT !.time = 0] : e \in Clean.tools}
                           \cup {Tool(l1, 3, 0, FALSE)}, !.tabled = FALSE],
   [Clean EXCEPT !.tools = {}]}
===============================================================================
