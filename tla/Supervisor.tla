------------------------------ MODULE Supervisor ------------------------------
(***************************************************************************)
(* From a released Task Requirement Table to a ScenarioSpec: the decision   *)
(* of the supervisor on every line (supervisor.py, reconciliation.py) and   *)
(* the generator (POST /scenario/generate, scenario_generation/generator.py)*)
(*                                                                         *)
(* Pure operators, no state.  A TRT maps each line to its requirements      *)
(*   goal, rank (priority), excluded (tools and instruments), selected     *)
(*   (selected_tool_ids), target (target_set_id), strategy                 *)
(*   (abnormal_strategy), minRate and maxDown (kpi), policy and enabled     *)
(*   (manipulator_priority)                                                *)
(* and the state records map each line to                                  *)
(*   mode, wip (wip_count), task (current_task), tools (everything on the   *)
(*   line), trt and deployment (what was deployed to it last, or None).     *)
(* A simulation configuration is [count, time, mode]: add_reference_number, *)
(* the Time-Arrival values and chosen_intervention_mode.  Operators ending in _Fault are plausible       *)
(* mistakes; no specification uses them.                                   *)
(***************************************************************************)
EXTENDS Integers, Sequences, FiniteSets

CONSTANTS
  None,
  Trts,          \* released versions 1..n, each line -> requirements
  Registered,    \* the lines of the line registry
  Enabled,       \* those it enables
  TemplateBound, \* the lines the scenario template binds by itself
  TemplateConfig, \* its simulation_config
  ToolCatalog    \* the tools of the TRT

ASSUME RegistryAssumption == Enabled \subseteq Registered

Versions == 1..Len(Trts)

Executable == {"STOP_LINE", "CONTINUE_FEASIBLE_TASKS"}   \* ISAAC_SUPPORTED_STRATEGIES

(***************************************************************************)
(* Supervisor: one decision per line.                                      *)
(***************************************************************************)
\* Number v - 1, if it exists: otherwise every field of every line is new.
PreviousTrt(v) == IF v > 1 THEN Trts[v - 1] ELSE <<>>

\* LINE_COMPARISON_FIELDS: everything but manipulator_priority.
Compared ==
  {"goal", "rank", "excluded", "selected", "target", "strategy", "minRate", "maxDown"}

ChangedLineFields(old, new) == {f \in Compared : old[f] # new[f]}

\* A line the previous version did not have is compared with what it runs.
InferredChangedFields(state, new) ==
  (IF state.task # new.goal THEN {"goal"} ELSE {})
  \cup (IF new.excluded \cap state.tools # {} THEN {"excluded"} ELSE {})

NoRecord == [mode |-> "ERROR", wip |-> 0, task |-> None, tools |-> {},
             trt |-> None, deployment |-> None]

DecideLine_IdleFirst_Fault(changed, new, state) ==
  CASE changed = {}           -> "NO_CHANGE"
    [] changed # {} /\ (state.mode = "IDLE" \/ state.wip = 0) -> "IMMEDIATE_SWITCH"
    [] OTHER                  -> "WAIT_FOR_CHECKPOINT"

DecideLine(changed, new, state) ==
  LET blocked == new.excluded \cap state.tools # {} /\ state.wip > 0
  IN IF changed = {} THEN "NO_CHANGE"
     ELSE IF state.mode = "ERROR" THEN "REJECT_INCOMPATIBLE"
     ELSE IF state.mode = "INTERVENTION" THEN "WAIT_FOR_CHECKPOINT"
     ELSE IF changed = {"rank"} THEN "IMMEDIATE_SWITCH"
     ELSE IF blocked /\ "rank" \in changed THEN "DEGRADED_SWITCH"
     ELSE IF blocked THEN "WAIT_FOR_CHECKPOINT"
     ELSE IF state.mode = "IDLE" \/ (state.mode = "RUNNING" /\ state.wip = 0)
          THEN "IMMEDIATE_SWITCH"
     ELSE "WAIT_FOR_CHECKPOINT"

LineDecision(v, records, l) ==
  LET state == IF l \in DOMAIN records THEN records[l] ELSE NoRecord
  IN DecideLine(IF l \in DOMAIN PreviousTrt(v)
                THEN ChangedLineFields(PreviousTrt(v)[l], Trts[v][l])
                ELSE InferredChangedFields(state, Trts[v][l]),
                Trts[v][l], state)

Reconciled(v) == DOMAIN Trts[v] \cap Enabled

\* Changed lines without a state record; a new line counts as changed, and where
\* no line is to be reconciled every line of the table is asked for.
MissingRequiredStateLines(v, records) ==
  {l \in (IF Reconciled(v) = {} THEN DOMAIN Trts[v] ELSE Reconciled(v)) \ DOMAIN records :
     l \in DOMAIN PreviousTrt(v)
       => ChangedLineFields(PreviousTrt(v)[l], Trts[v][l]) # {}}

CanReconcile(v, records) ==
  /\ DOMAIN Trts[v] \cup DOMAIN records \subseteq Registered
  /\ MissingRequiredStateLines(v, records) = {}

OverallStatus(decisions) ==
  LET made == {decisions[l] : l \in DOMAIN decisions}
  IN CASE "REJECT_INCOMPATIBLE" \in made -> "REJECTED"
       [] "REJECT_INCOMPATIBLE" \notin made /\ "DEGRADED_SWITCH" \in made -> "DEGRADED"
       [] made \cap {"REJECT_INCOMPATIBLE", "DEGRADED_SWITCH"} = {}
          /\ "WAIT_FOR_CHECKPOINT" \in made -> "WAITING"
       [] OTHER -> "READY"

BuildPlan(v, records) ==
  LET decisions == [l \in Reconciled(v) |-> LineDecision(v, records, l)]
  IN [version |-> v, decisions |-> decisions, status |-> OverallStatus(decisions),
      seen |-> records]

(***************************************************************************)
(* Scenario generation.  A request names a plan and the version it is for,  *)
(* and may carry its own line decisions, affected lines, a scope (FULL,     *)
(* LIMITED to lines, or ABSENT), an override of the configuration with envs *)
(* lines (num_envs), and a candidate's overrides of line policies:          *)
(* overrides[l] is [strategy, priority], each None if it is not changed.    *)
(***************************************************************************)
\* Without a scope, a request for a number of lines is shortened to that many.
IsShortened(req) == req.scope = "ABSENT" /\ req.override.envs # None

\* It takes the affected lines only if there are enough of them; which ones is
\* the order of their names, left open.
ShortenedLines(req) ==
  LET size == Cardinality(Enabled)
      n == CASE req.override.envs > size -> size
             [] req.override.envs < 1 /\ size > 0 -> 1
             [] OTHER -> req.override.envs
  IN {s \in SUBSET Enabled :
        /\ Cardinality(s) = n
        /\ Cardinality(req.affected \cap Enabled) >= n => s \subseteq req.affected}

\* The lines to simulate: all enabled lines of the TRT, or those asked for.
ScopeChoices(req, v) ==
  IF IsShortened(req) THEN ShortenedLines(req)
  ELSE IF req.scope \in {"ABSENT", "FULL"} THEN {Reconciled(v)}
  ELSE {IF req.lines = {} THEN req.affected ELSE req.lines}

\* The registry must know every line of the TRT too, not only those simulated.
MissingRegistryLines(lines, v) == (DOMAIN Trts[v] \cup lines) \ Registered

LinesResolve(lines, v, records) ==
  /\ MissingRegistryLines(lines, v) = {}
  /\ lines \subseteq DOMAIN Trts[v]
  /\ lines \subseteq DOMAIN records

\* A plan is good for the TRT version it was made for.
PlanMatches(plan, v) == plan.version = v

\* The generator falls back to the whole TRT when no line is asked for; the
\* bindings then are those of the template.
RequiredLines(lines, v) == IF lines = {} THEN DOMAIN Trts[v] ELSE lines
BoundLines(lines) == IF lines = {} THEN TemplateBound ELSE lines

ScenarioReadiness_AllWait_Fault(decisions) ==
  LET made == {decisions[l] : l \in DOMAIN decisions}
  IN CASE made = {"WAIT_FOR_CHECKPOINT"} -> "WAITING"
       [] "DEGRADED_SWITCH" \in made -> "DEGRADED"
       [] OTHER -> "READY"

ScenarioReadiness(decisions) ==
  LET made == {decisions[l] : l \in DOMAIN decisions}
  IN CASE "WAIT_FOR_CHECKPOINT" \in made -> "WAITING"
       [] "WAIT_FOR_CHECKPOINT" \notin made /\ "DEGRADED_SWITCH" \in made -> "DEGRADED"
       [] OTHER -> "READY"

\* The override wins over what is deployed, which wins over the template; a
\* deployed count of 0 counts as absent, and a mode nobody chose is the one to
\* continue, whatever the lines' strategies are.
BuildSimulationConfig(deployed, override) ==
  LET base == IF deployed # None THEN deployed ELSE TemplateConfig
  IN [count |-> IF override.count # None THEN override.count
                ELSE IF base.count \notin {None, 0} THEN base.count
                ELSE IF ToolCatalog # {} THEN Cardinality(ToolCatalog) ELSE 27,
      time  |-> IF override.time # None THEN override.time ELSE base.time,
      mode  |-> IF override.mode # None THEN override.mode
                ELSE IF base.mode # None THEN base.mode ELSE "continue-until-arrival"]

BuildLinePolicies(lines, v) ==
  LET kept == {"minRate", "maxDown", "policy", "enabled", "strategy",
               "selected", "excluded", "target"}
  IN [l \in lines |-> [f \in kept |-> Trts[v][l][f]]]

\* A candidate changes lines of the scope, to strategies Isaac can execute.
OverridesApply(overrides, lines) ==
  /\ DOMAIN overrides \subseteq lines
  /\ \A l \in DOMAIN overrides : overrides[l].strategy \in Executable \cup {None}

ApplyLinePolicyOverrides(policies, overrides) ==
  [l \in DOMAIN policies |->
     LET old == policies[l] IN
     IF l \notin DOMAIN overrides THEN old
     ELSE [old EXCEPT
       !.strategy = IF overrides[l].strategy # None THEN overrides[l].strategy ELSE @,
       !.policy   = IF overrides[l].priority # None THEN overrides[l].priority.policy ELSE @,
       !.enabled  = IF overrides[l].priority # None THEN overrides[l].priority.enabled ELSE @]]

Decisions(plan, req) == IF req.decisions # <<>> THEN req.decisions ELSE plan.decisions

\* What POST /scenario/generate answers; only GENERATED has a ScenarioSpec.
GenerateAnswer(plan, v, req, lines, records) ==
  LET decisions == Decisions(plan, req)
      required  == RequiredLines(lines, v)
      strategy  == {Trts[v][l].strategy : l \in required}
  IN IF ~LinesResolve(lines, v, records) THEN "UNRESOLVED"
     ELSE IF ~PlanMatches(plan, v) THEN "OTHER_VERSION"
     ELSE IF /\ decisions # <<>>
             /\ \A l \in DOMAIN decisions : decisions[l] = "NO_CHANGE"
             /\ req.affected = {} /\ ~req.baseline THEN "NO_CHANGED_LINES"
     ELSE IF plan.status = "REJECTED" THEN "REJECTED"
     ELSE IF ~(required \subseteq BoundLines(lines)) THEN "UNBOUND"
     ELSE IF ScenarioReadiness(decisions) = "WAITING" /\ ~req.waiting
          THEN "WAITING_FOR_CHECKPOINT"
     ELSE IF "ASK_OPERATOR" \in strategy THEN "REQUIRES_OPERATOR_RESOLUTION"
     ELSE IF \/ \E l \in required \cap DOMAIN decisions : decisions[l] = "REJECT_INCOMPATIBLE"
             \/ ~(strategy \subseteq Executable)
             \/ ~OverridesApply(req.overrides, required) THEN "REJECTED"
     ELSE "GENERATED"

\* expected: what the override asks of the simulator command.
ScenarioSpec(plan, v, req, lines, deployed) ==
  LET required == RequiredLines(lines, v)
      config   == BuildSimulationConfig(deployed, req.override)
  IN [version |-> v, plan |-> plan, lines |-> required, bound |-> BoundLines(lines),
      policy |-> ApplyLinePolicyOverrides(BuildLinePolicies(required, v), req.overrides),
      readiness |-> ScenarioReadiness(Decisions(plan, req)),
      count |-> config.count, time |-> config.time, mode |-> config.mode,
      envs |-> Cardinality(required), expected |-> req.override,
      dryRun |-> req.dryRun, batch |-> req.batch, overridden |-> req.decisions # <<>>]
===============================================================================
