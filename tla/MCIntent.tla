------------------------------- MODULE MCIntent -------------------------------
(***************************************************************************)
(* Instance of Intent for TLC: two lines, one of them perhaps in error, three tools *)
(* of three types; requests that name lines, all lines or none, parts that   *)
(* overlap, values given, changed and left to the number patterns.           *)
(***************************************************************************)
EXTENDS Intent

CONSTANTS l1, l2, t1, t2, t3, s1, s2, ENT

MCTypeOf == t1 :> "FORCEPS" @@ t2 :> "SCISSORS" @@ t3 :> "KNIFE_HANDLE"
MCSetTypes == ENT :> {"SCISSORS"}
MCModes == {[l \in {l1, l2} |-> "RUNNING"], l1 :> "RUNNING" @@ l2 :> "ERROR"}

Line ==
  [goal |-> "ROUTINE_CLASSIFICATION", priority |-> 3, set |-> ENT, selected |-> {t1, t2},
   selectedTypes |-> {}, excluded |-> {}, required |-> {t2}, allowed |-> {"FORCEPS"},
   barred |-> {}, order |-> None, policy |-> "NONE", kpi |-> 60, strategy |-> "PAUSE"]
MCInitialTRT == [l \in {l1, l2} |-> Line]

Time(n) == [travel_time |-> n]
MCInitialTimes == Time(10)
MCTimes == {Time(1)}

Text ==
  [ambiguous |-> FALSE, grasp |-> FALSE, rank |-> None, tools |-> <<>>, types |-> <<>>,
   all |-> None, lines |-> {}, set |-> None, use |-> FALSE, removes |-> FALSE, goal |-> FALSE,
   restricted |-> FALSE, everything |-> FALSE, others |-> FALSE, stated |-> <<>>,
   relative |-> <<>>, loose |-> <<>>, target |-> None, order |-> None]
Request == [Part EXCEPT !.said = Text]
At(c, l) == [c EXCEPT !.lines = {l}, !.scope = "SINGLE_LINE"]
Everywhere(c) == [c EXCEPT !.scope = "ALL_LINES", !.lines = {}]

Removal == [Request EXCEPT !.said.removes = TRUE, !.said.types = <<"FORCEPS">>]
Picking == [Request EXCEPT !.said.grasp = TRUE]
Travel(n) == [travel_time |-> n]

MCTools ==
  {[Removal EXCEPT !.said.lines = {l1}],
   At(Removal, l1),
   At([Request EXCEPT !.excluded = {t2}], l1),
   At([Request EXCEPT !.policy = "ALL_REQUIRED"], l2),
   At([Request EXCEPT !.selectedTypes = {"KNIFE_HANDLE"}, !.policy = "SELECTED_TOOLING"], l1),
   [Request EXCEPT !.excludedTypes = {"SCISSORS"}, !.line = l1],
   At([Request EXCEPT !.selected = {t3}, !.required = {t3}], l1),
   Everywhere([Request EXCEPT !.policy = "ALL_REQUIRED"]),
   [Request EXCEPT !.scope = "MULTIPLE_LINES", !.lines = {l1, l2}, !.policy = "ALL_REQUIRED"]}

MCOrders ==
  {At([Picking EXCEPT !.said.types = <<"SCISSORS", "FORCEPS">>], l1),
   [Picking EXCEPT !.said.tools = <<t2, t1>>, !.said.lines = {l1}, !.line = l2],
   [Picking EXCEPT !.said.rank = "REQUIRED_FIRST", !.said.all = "ROBOTS"],
   [Picking EXCEPT !.said.rank = "REQUIRED_FIRST"],
   At([Request EXCEPT !.said.ambiguous = TRUE, !.priority = 1], l1),
   [Request EXCEPT !.said.set = ENT, !.said.use = TRUE, !.said.all = "LINES"],
   [Request EXCEPT !.said.set = ENT, !.said.use = TRUE, !.said.lines = {l1}],
   At([Request EXCEPT !.order = [NoOrder EXCEPT !.non = TRUE, !.refs = {"FORCEPS"}]], l1),
   At([Request EXCEPT !.strategy = "CONTINUE_FEASIBLE_TASKS"], l2)}

MCValues ==
  {[Request EXCEPT !.said.stated = Travel(8), !.sim = Travel(7)],
   [Request EXCEPT !.said.relative = Travel(-2), !.sim = Travel(7)],
   [Request EXCEPT !.said.stated = [num_envs |-> 1], !.said.loose = [num_envs |-> 1], !.sim = [num_envs |-> 2]],
   [Request EXCEPT !.said.stated = Travel(8), !.said.loose = Travel(8), !.priority = 1,
                   !.lines = {l1}]}

MCLoose ==
  {[Removal EXCEPT !.kinds = {"INSTRUMENT_SCOPE_UPDATE"}, !.said.lines = {l1}, !.said.stated = Travel(8), !.said.loose = Travel(8)],
   [Request EXCEPT !.said.relative = Travel(-2), !.said.loose = Travel(2), !.sim = Travel(8)]}

Removing(tools) == At([Part EXCEPT !.kinds = {"INSTRUMENT_SCOPE_UPDATE"}, !.excluded = tools], l1)
Tooling == At([Part EXCEPT !.kinds = {"TOOLING_POLICY_UPDATE"}, !.order = NoOrder], l1)
Order == At([Part EXCEPT !.kinds = {"MANIPULATOR_PRIORITY_UPDATE"}], l1)

MCComposites ==
  {At([Request EXCEPT !.kpi = 150], l1),
   [Request EXCEPT !.kpi = 150, !.lines = {l2}],
   [Request EXCEPT !.kpi = 150, !.kpiScope = "SINGLE_LINE", !.kpiLines = {l2}, !.said.stated = Travel(8),
                   !.sim = Travel(7)],
   [Request EXCEPT !.parts = <<Removing({t1}), Removing({t2})>>],
   [Request EXCEPT !.parts = <<Tooling, Order>>,
                   !.said.target = [Text EXCEPT !.types = <<"KNIFE_HANDLE">>],
                   !.said.order = [Text EXCEPT !.others = TRUE, !.types = <<"FORCEPS">>]],
   [Request EXCEPT !.updates = <<[Order EXCEPT !.scope = None, !.order = [NoOrder EXCEPT !.policy = "FCFS"]]>>,
                   !.said.order = [Text EXCEPT !.others = TRUE, !.set = ENT]],
   [Request EXCEPT !.parts = <<[Part EXCEPT !.kinds = {"KPI_LIMIT_UPDATE"}, !.lines = {l1}]>>]}

MCCandidates == MCTools \cup MCOrders \cup MCValues \cup MCLoose \cup MCComposites

MCRegenerations == {Travel(8), Travel(9)}

Symmetric == Permutations({s1, s2})
=============================================================================
