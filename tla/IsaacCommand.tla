----------------------------- MODULE IsaacCommand -----------------------------
(***************************************************************************)
(* From a ScenarioSpec to the command of the simulator                      *)
(* (digital_twin_adapter/scenario_spec.py, isaac_command_builder.py): which  *)
(* tools every line is given, which arguments the command resolves, and the  *)
(* errors for which POST /simulation/run never reaches the host.             *)
(*                                                                         *)
(* Pure operators on the specifications of Supervisor.  Paths, host          *)
(* configuration and the arguments no request can set are left out.          *)
(***************************************************************************)
EXTENDS Supervisor

CONSTANTS
  Instruments,  \* instrument types: what a line excludes is one of them or a tool
  ToolSets      \* the tool sets of the TRT, each [members, others]

\* The tools a line wants and those it does not, from its tool set if it has
\* one, else from its own selection.  Excluded tools leave the wanted ones only
\* when they come from a tool set.
LineTooling(spec, l) ==
  LET policy   == spec.policy[l]
      excluded == policy.excluded \ Instruments
      listed   == policy.target \in DOMAIN ToolSets
      selected == IF listed THEN ToolSets[policy.target].members \ excluded
                  ELSE policy.selected
      named    == IF listed THEN ToolSets[policy.target].others \cup excluded ELSE {}
  IN [selected   |-> selected,
      unselected |-> IF named = {} THEN ToolCatalog \ selected ELSE named,
      excluded   |-> excluded]

ToolsKnown(spec) ==
  \A l \in DOMAIN spec.policy :
    LET tooling == LineTooling(spec, l)
    IN tooling.selected \cup tooling.unselected \cup tooling.excluded \subseteq ToolCatalog

\* What validate_scenario_spec_for_isaac accepts.
IsaacCanRun(spec) ==
  /\ DOMAIN spec.policy \subseteq spec.bound
  /\ ToolCatalog # {}
  /\ ToolsKnown(spec)

\* The configuration goes before what the lines' strategies suggest.
ChosenInterventionMode(spec) ==
  LET strategies == {spec.policy[l].strategy : l \in DOMAIN spec.policy}
  IN IF spec.mode # None THEN spec.mode
     ELSE IF "STOP_LINE" \in strategies /\ "CONTINUE_FEASIBLE_TASKS" \notin strategies
     THEN "immediate-stop" ELSE "continue-until-arrival"

\* The number of simulated lines is that of the scope, whatever was asked for.
NumEnvs(spec) == IF spec.lines # {} THEN Cardinality(spec.lines) ELSE spec.envs

\* The arguments, the size of the catalog for a missing count.
CommandArgs(spec) ==
  [envs  |-> NumEnvs(spec),
   mode  |-> ChosenInterventionMode(spec),
   time  |-> spec.time,
   count |-> IF spec.count # None THEN spec.count
             ELSE IF ToolCatalog # {} THEN Cardinality(ToolCatalog) ELSE 27]

\* "ScenarioSpec compilation failed": the command must say what was requested.
MeetsRequest(spec) ==
  \A key \in DOMAIN spec.expected :
    spec.expected[key] # None => CommandArgs(spec)[key] = spec.expected[key]

Launches(spec) == IsaacCanRun(spec) /\ MeetsRequest(spec)
===============================================================================
