-------------------------------- MODULE Intent --------------------------------
(***************************************************************************)
(* From what the language model extracts of an operator's words to a        *)
(* released change of the TRT: POST /intent/normalize (trt_core/api.py,     *)
(* trt_core/intent_normalizer.py), the firewall (trt_core/validator.py,     *)
(* trt_core/semantic_rules.py) and the application of the reviewed patch    *)
(* (trt_core/patch_apply.py).                                              *)
(*                                                                         *)
(* A text is what the code's patterns find in it; None is the empty text.   *)
(*   ambiguous, grasp  the words of an unclear, of a clear picking order    *)
(*   rank              REQUIRED_FIRST or UNWANTED_FIRST by its words        *)
(*   tools, types      tool ids and tool types in the order of mention      *)
(*   all, lines        "LINES" or "ROBOTS" when all are meant; line numbers *)
(*   set, use          an alias of a tool set; a word like target or focus  *)
(*   removes, goal, restricted, everything   the other words looked for     *)
(*   stated, relative  simulation values given as such, or as a change      *)
(*   loose             values the number patterns pick up whatever is meant *)
(*   target, order     the clauses of a composite about what is picked and  *)
(*                     in which order: texts themselves                     *)
(* A request of the model is a record of its fields, None when null.  A     *)
(* field of the simulation configuration is present or not.                *)
(***************************************************************************)
EXTENDS Integers, Sequences, FiniteSets, SequencesExt

CONSTANTS
  None,
  Lines, Tools, TypeOf,  \* of the TRT, and the type of a tool
  Forceps,               \* the types the group FORCEPS stands for
  LegacyHandles,         \* knife handles left out when the group is meant
  SetTypes,              \* the types of the tools of each tool set
  Modes,                 \* the modes of the lines: functions from Lines
  InitialTRT, InitialTimes, Times,  \* the lines and times at first, the times recorded later
  Candidates,            \* what the intent model may extract
  Regenerations,         \* what it may answer when asked again
  Slots,                 \* requests under way
  MaxAttempts,           \* VLLM_INTENT_SEMANTIC_ATTEMPTS
  MaxVersion, MaxTimes, MaxRequests  \* bounds

ASSUME IntentAssumption ==
  /\ TypeOf \in [Tools -> STRING] /\ Modes \subseteq [Lines -> STRING]
  /\ MaxAttempts \in Nat \ {0} /\ MaxVersion \in Nat /\ MaxTimes \in Nat
  /\ MaxRequests \in Nat

VARIABLES
  trt, version,  \* the current TRT: its lines by their fields, its version
  latest,        \* the highest version with a file
  twice,         \* versions that two approvals were given the number of
  mode,          \* state.mode of each line, which no patch writes
  times,         \* the recorded Time-Arrival state
  changes,       \* how often it was changed, and how many requests there were
  slot           \* per request: where it is and what it has read

vars == <<trt, version, latest, twice, mode, times, changes, slot>>
releases == <<trt, version, latest, twice>>

Types == Range(TypeOf)
NonEmpty(x) == IF x = {} THEN None ELSE x
Or(x, y) == IF x = None THEN y ELSE x
Restricted(f, S) == Restrict(f, S \cap DOMAIN f)
\* The fields of both, with the values of g where it has any.
Over(g, h) == [f \in DOMAIN g \cup DOMAIN h |-> IF f \in DOMAIN g THEN g[f] ELSE h[f]]
\* The fields of all, each with the value of the last that has it.
Merge(fs) ==
  [f \in UNION {DOMAIN fs[i] : i \in DOMAIN fs} |-> fs[Max({i \in DOMAIN fs : f \in DOMAIN fs[i]})][f]]
Several(lines) == IF Cardinality(lines) > 1 THEN "MULTIPLE_LINES" ELSE "SINGLE_LINE"
Untargeted(c) == c.line = None /\ c.lines \in {None, {}}

-----------------------------------------------------------------------------
(* The values of the simulation configuration. *)

\* What a text without arithmetic says overrules what the model says.
NonArithmetic == {"num_envs", "chosen_intervention_mode", "add_reference_number"}
WithTextValues(updates, said) ==
  IF said = None THEN updates ELSE Over(Restricted(said.stated, NonArithmetic), updates)

\* The values a text asks for; a change counts from the recorded state.
Negative(said, base) == {f \in DOMAIN said.relative : base[f] + said.relative[f] < 0}
Expected(said, base) ==
  IF base = None THEN said.stated
  ELSE Over([f \in DOMAIN said.relative \ Negative(said, base) |-> base[f] + said.relative[f]],
            said.stated)

\* The fields for which the model's values are not those. Without any value of
\* the model there is nothing to compare.
DerivationErrors_CandidateOnly_Fault(c, base) ==
  IF c.said = None \/ DOMAIN c.sim = {} THEN {}
  ELSE {f \in DOMAIN c.said.stated : f \notin DOMAIN c.sim \/ c.sim[f] # c.said.stated[f]}
DerivationErrors(c, base) ==
  IF c.said = None THEN {}
  ELSE LET updates == Merge([i \in DOMAIN c.parts |-> c.parts[i].sim] \o <<c.sim>>)
           expected == Expected(c.said, base)
       IN (IF base = None THEN {} ELSE Negative(c.said, base))
          \cup IF DOMAIN updates = {} THEN {}
               ELSE {f \in DOMAIN expected : f \notin DOMAIN updates \/ updates[f] # expected[f]}

\* A number near the name of a field becomes its value, and values without a
\* target are for all lines.
CoerceSimulation_AllLines_Fault(c) ==
  LET updates == Over(c.said.loose, WithTextValues(c.sim, c.said)) IN
  IF c.said = None \/ DOMAIN updates = {} THEN c
  ELSE [c EXCEPT !.sim = updates, !.goal = None, !.scope = Or(c.scope, "ALL_LINES"),
                 !.kinds = Or(@, {}) \cup {"SIMULATION_CONFIG_UPDATE"}]
CoerceSimulation(c) ==
  LET updates == Over(c.said.loose, WithTextValues(c.sim, c.said))
      untargeted == c.scope = None /\ Untargeted(c)
  IN IF c.said = None \/ DOMAIN updates = {} THEN c
     ELSE [c EXCEPT !.sim = updates, !.goal = None,
                    !.scope = IF untargeted THEN "ALL_LINES" ELSE @,
                    !.lines = IF untargeted THEN {} ELSE @,
                    !.kinds = Or(@, {}) \cup {"SIMULATION_CONFIG_UPDATE"}]

-----------------------------------------------------------------------------
(* What the text says of picking, of tool sets and of tools to leave out. *)

AtLines(c, lines) ==
  [c EXCEPT !.lines = lines, !.scope = Several(lines),
            !.line = IF Cardinality(lines) = 1 THEN CHOOSE l \in lines : TRUE ELSE None]
AtAllLines(c) == [c EXCEPT !.scope = "ALL_LINES", !.lines = {}, !.line = None]
\* The lines of the text count where the model named none.
AtTextLines(c) ==
  IF c.lines = None /\ c.said.lines # {} THEN AtLines(c, c.said.lines) ELSE c
Asks(c) == [c EXCEPT !.action = "NEEDS_CLARIFICATION"]

\* A picking order: others than the referenced types first is an order of types.
NormalOrder(o) ==
  LET refs == IF ~o.non THEN o.refs
              ELSE (o.refs \cap Types) \cup (IF "FORCEPS" \in o.refs THEN Forceps ELSE {})
  IN [o EXCEPT !.refs = refs,
               !.policy = IF o.non THEN "EXPLICIT_TYPE_ORDER" ELSE Or(@, "FCFS"),
               !.types = IF o.non /\ @ = <<>> THEN SetToSeq(Types \ refs) ELSE @]

NoOrder == [policy |-> None, tools |-> <<>>, types |-> <<>>, non |-> FALSE, refs |-> {}]

OrderFromText(o, said) ==
  CASE said.tools # <<>> -> [o EXCEPT !.policy = "EXPLICIT_TOOL_ORDER", !.tools = said.tools]
    [] said.tools = <<>> /\ said.types # <<>> /\ ~o.non ->
         [o EXCEPT !.policy = "EXPLICIT_TYPE_ORDER", !.types = said.types]
    [] OTHER -> [o EXCEPT !.policy = Or(said.rank, @)]

CoerceOrder(c) ==
  LET order == OrderFromText(Or(c.order, NoOrder), c.said)
      d == [c EXCEPT !.goal = None, !.order = NormalOrder(order),
                     !.kinds = Or(@, {}) \cup {"MANIPULATOR_PRIORITY_UPDATE"}]
  IN CASE c.said.ambiguous -> Asks(c)
       [] ~c.said.ambiguous /\ ~c.said.grasp -> c
       [] ~c.said.ambiguous /\ c.said.grasp /\ order.policy = None -> Asks(c)
       [] OTHER ->
            IF c.said.all # None THEN AtAllLines(d)
            ELSE IF c.said.lines # {} THEN AtLines(d, c.said.lines)
            ELSE IF Untargeted(c) /\ c.scope # "ALL_LINES" THEN Asks(d) ELSE d

CoerceTargetSet(c) ==
  LET d == [c EXCEPT !.set = Or(@, c.said.set), !.goal = IF c.said.goal THEN @ ELSE None,
                     !.kinds = Or(@, {}) \cup {"TOOLING_POLICY_UPDATE"}]
  IN IF c.said.set = None \/ ~c.said.use THEN c
     ELSE IF c.said.all = "LINES" THEN AtAllLines(d) ELSE AtTextLines(d)

ToolsOf(types) ==
  {t \in Tools : TypeOf[t] \in types}
  \ (IF "KNIFE_HANDLE" \in types THEN LegacyHandles ELSE {})

CoerceRemoval(c) ==
  LET types == Or(c.excludedTypes, {}) \cup Range(c.said.types)
  IN IF ~c.said.removes \/ c.said.types = <<>> THEN c
     ELSE AtTextLines([c EXCEPT !.excludedTypes = types, !.excluded = Or(@, ToolsOf(types)),
                                !.kinds = Or(@, {}) \cup {"INSTRUMENT_SCOPE_UPDATE"}])

-----------------------------------------------------------------------------
(* The candidate, completed. *)

Policy(c) ==
  IF c.policy = "NOT_ALL_REQUIRED" /\ ~(c.said # None /\ c.said.everything) THEN "NONE"
  ELSE IF c.policy \in {"ALL_REQUIRED", "NOT_ALL_REQUIRED"} THEN "ALL_SUPPORTED_TOOLING"
  ELSE c.policy

Kinds(c) ==
  IF c.kinds # None THEN c.kinds
  ELSE {k \in {"TASK_GOAL_UPDATE", "PRIORITY_UPDATE", "MANIPULATOR_PRIORITY_UPDATE",
               "INSTRUMENT_SCOPE_UPDATE", "ABNORMAL_STRATEGY_UPDATE", "KPI_LIMIT_UPDATE",
               "TOOLING_POLICY_UPDATE", "MULTI_LINE_POLICY_UPDATE"} :
          CASE k = "TASK_GOAL_UPDATE" -> c.goal # None
            [] k = "PRIORITY_UPDATE" -> c.priority # None
            [] k = "MANIPULATOR_PRIORITY_UPDATE" -> c.order # None
            [] k = "INSTRUMENT_SCOPE_UPDATE" ->
                 {c.allowed, c.barred, c.selectedTypes, c.excludedTypes,
                  c.selected, c.excluded} # {None}
            [] k = "ABNORMAL_STRATEGY_UPDATE" -> c.strategy # None
            [] k = "KPI_LIMIT_UPDATE" -> c.kpi # None
            [] k = "TOOLING_POLICY_UPDATE" -> c.policy # None \/ c.set # None
            [] OTHER -> c.scope \in {"MULTIPLE_LINES", "ALL_LINES"}}

\* The tools of a request: by themselves, by its policy, by types.
WithTools(c) ==
  LET policy == Policy(c)
      byTypes(types) == IF types = None THEN None ELSE ToolsOf(types)
      byPolicy == CASE policy = "ALL_SUPPORTED_TOOLING" -> Tools
                    [] policy = "NONE" -> {}
                    [] OTHER -> None
      noneOut == IF byPolicy = None THEN None ELSE {}
  IN [c EXCEPT
       !.policy = policy,
       !.selected = Or(@, Or(byPolicy, Or(byTypes(c.allowed), byTypes(c.selectedTypes)))),
       !.excluded = Or(@, Or(noneOut, Or(byTypes(c.barred), byTypes(c.excludedTypes))))]

SimulationOnly(c) ==
  Or(c.kinds, {}) # {} /\ c.kinds \subseteq {"SIMULATION_CONFIG_UPDATE", "DRY_RUN_ONLY"}

CoerceText(c) ==
  IF c.said = None \/ SimulationOnly(c) THEN c
  ELSE CoerceRemoval(CoerceTargetSet(CoerceOrder(c)))

AtItsLine(c) ==
  IF c.line = None THEN c
  ELSE [c EXCEPT !.scope = Or(@, "SINGLE_LINE"), !.lines = Or(@, {c.line})]

WithKinds(c) == [c EXCEPT !.kinds = Kinds(c)]

Coerced(c) == WithKinds(AtItsLine(WithTools(CoerceText(CoerceSimulation(c)))))

Targets(c) ==
  IF c.scope = "ALL_LINES" THEN Lines
  ELSE IF c.lines \notin {None, {}} THEN c.lines
  ELSE IF c.line # None THEN {c.line} ELSE {}

Unordered(o) ==
  \/ o.policy = "EXPLICIT_TOOL_ORDER" /\ o.tools = <<>>
  \/ o.policy = "EXPLICIT_TYPE_ORDER" /\ o.types = <<>>

OrderRejected(o) ==
  \/ o.policy \notin {"FCFS", "REQUIRED_FIRST", "UNWANTED_FIRST",
                      "EXPLICIT_TOOL_ORDER", "EXPLICIT_TYPE_ORDER"}
  \/ Unordered(o)
  \/ ~(Range(o.tools) \subseteq Tools) \/ ~(Range(o.types) \subseteq Types)

\* A change of all lines stops at a line in error.
SweepsErrorLine_Untyped_Fault(c) == FALSE
SweepsErrorLine(c) ==
  /\ c.scope = "ALL_LINES"
  /\ \/ c.kinds \cap {"MULTI_LINE_POLICY_UPDATE", "TOOLING_POLICY_UPDATE",
                      "KPI_LIMIT_UPDATE", "PRIORITY_UPDATE"} # {}
     \/ c.policy # None \/ c.kpi # None
  /\ \E l \in Lines : mode[l] = "ERROR"

\* Is a completed candidate one the current TRT can take?
Valid(c, now) ==
  /\ c.action = "PROPOSE_PATCH"
  /\ c.said # None => ~c.said.restricted
  /\ c.base = now.version
  /\ Or(c.lines, {}) \cup (IF c.line = None THEN {} ELSE {c.line}) \subseteq Lines
  /\ c.set = None \/ c.set \in DOMAIN SetTypes
  /\ c.order # None => ~OrderRejected(NormalOrder(c.order))
  /\ ~(c.policy = "ALL_SUPPORTED_TOOLING" /\ {} \in {c.selected, c.allowed})
  /\ ~SweepsErrorLine(c)
  /\ Targets(c) # {}

-----------------------------------------------------------------------------
(* The operations: fields of lines, in the order of the JSON patch. *)

Put(l, field, value) ==
  IF value = None THEN <<>> ELSE <<[line |-> l, field |-> field, value |-> value]>>

Exclusion(c, now) == IF c.excluded = None THEN None ELSE now.excluded \cup c.excluded

OperationsOf(c, l, now) ==
  LET without(tools) == IF c.excluded = None \/ tools = {} THEN None
                        ELSE tools \ Exclusion(c, now)
  IN Put(l, "order", IF c.order = None THEN None ELSE NormalOrder(c.order))
     \o Put(l, "policy", c.policy) \o Put(l, "goal", c.goal)
     \o Put(l, "priority", c.priority) \o Put(l, "set", c.set)
     \o Put(l, "selected", c.selected) \o Put(l, "selectedTypes", c.selectedTypes)
     \o Put(l, "excluded", Exclusion(c, now))
     \o Put(l, "selected", without(now.selected)) \o Put(l, "required", without(now.required))
     \o Put(l, "required", c.required)
     \o Put(l, "allowed", c.allowed) \o Put(l, "barred", c.barred)
     \o Put(l, "kpi", c.kpi) \o Put(l, "strategy", c.strategy)

Drives(c) ==
  {c.order, c.policy, c.goal, c.priority, c.set, c.selected, c.excluded, c.required,
   c.allowed, c.barred, c.strategy, c.kpi} # {None}

\* A completed request made a patch, or None. A patch is for the version it was
\* made of.
PatchOf(c, now) ==
  LET simulation == "SIMULATION_CONFIG_UPDATE" \in c.kinds /\ ~Drives(c)
      perLine == [l \in Lines |-> OperationsOf(c, l, now.trt[l])]
  IN IF ~Valid(c, now) \/ (simulation /\ DOMAIN c.sim = {})
     THEN None
     ELSE [base |-> now.version, sim |-> c.sim,
           ops |-> IF simulation THEN <<>>
                   ELSE FlattenSeq([i \in 1..Cardinality(Targets(c)) |->
                                      perLine[SetToSeq(Targets(c))[i]]])]

NormalizedPart(candidate, now) ==
  IF DerivationErrors(candidate, None) # {} THEN None ELSE PatchOf(Coerced(candidate), now)

-----------------------------------------------------------------------------
(* A composite: parts, the explicit ones or those the compact fields stand for. *)

Part ==
  [said |-> None, base |-> 0, action |-> "PROPOSE_PATCH", scope |-> None, line |-> None,
   lines |-> None, kinds |-> None, goal |-> None, priority |-> None, set |-> None,
   selected |-> None, excluded |-> None, required |-> None, selectedTypes |-> None,
   excludedTypes |-> None, allowed |-> None, barred |-> None, order |-> None,
   policy |-> None, kpi |-> None, kpiScope |-> None, kpiLines |-> None, strategy |-> None,
   sim |-> <<>>, parts |-> <<>>, updates |-> <<>>]

Parts(c) == Range(c.parts) \cup Range(c.updates)

\* No pattern for a change knows a field whose values take no arithmetic, and a
\* clause is a piece of its text.
Legible(said) ==
  said # None => said.lines # None /\ DOMAIN said.relative \cap NonArithmetic = {}
ClauseOf(t, said) ==
  /\ Legible(t)
  /\ t # None => t.lines \subseteq said.lines /\ (t.all # None => said.all # None)
Readable(said) ==
  Legible(said) /\ (said # None => ClauseOf(said.target, said) /\ ClauseOf(said.order, said))

Formed(c) ==
  /\ DOMAIN c = DOMAIN Part /\ Readable(c.said)
  /\ c.parts \in Seq(Range(c.parts)) /\ c.updates \in Seq(Range(c.updates))
FormedRequest(c) == Formed(c) /\ \A r \in Parts(c) : Formed(r)

ASSUME RequestAssumption ==
  /\ \A c \in Candidates : FormedRequest(c)
  /\ None \notin {"ALL_REQUIRED", "NOT_ALL_REQUIRED", "ALL_SUPPORTED_TOOLING", "NONE", "LINES"}

ASSUME LinesAssumption ==
  /\ IsFiniteSet(Lines) /\ DOMAIN InitialTRT = Lines
  /\ \A l \in Lines : {"excluded", "kpi", "policy"} \subseteq DOMAIN InitialTRT[l]

Expanded(c) ==
  LET kpi == IF c.kpi = None THEN <<>>
             ELSE <<[Part EXCEPT !.kinds = {"KPI_LIMIT_UPDATE"}, !.kpi = c.kpi,
                                 !.lines = Or(c.kpiLines, c.lines),
                                 !.scope = Or(c.kpiScope, Or(c.scope, "ALL_LINES"))]>>
      scoped(u) == [u EXCEPT !.scope = IF @ = None /\ NonEmpty(Or(u.lines, {})) # None
                                       THEN Several(u.lines) ELSE @]
      compact == kpi \o [i \in DOMAIN c.updates |-> scoped(c.updates[i])]
      d == [c EXCEPT !.sim = IF DOMAIN @ = {} THEN @ ELSE WithTextValues(@, c.said)]
  IN IF c.parts # <<>> \/ compact = <<>> THEN d
     ELSE [d EXCEPT !.parts = compact, !.kpi = None, !.updates = <<>>]

\* What a clause says outright replaces what the model made of it.
RepairedPart(c, p) ==
  LET tooling == IF c.said = None THEN None ELSE c.said.target
      picking == IF c.said = None THEN None ELSE c.said.order
      unwanted == [NoOrder EXCEPT !.policy = "UNWANTED_FIRST"]
      others == [NoOrder EXCEPT !.policy = "EXPLICIT_TYPE_ORDER", !.non = TRUE,
                                !.refs = Range(picking.types)]
  IN IF "TOOLING_POLICY_UPDATE" \in p.kinds
     THEN IF tooling = None \/ tooling.types = <<>> THEN p
          ELSE [p EXCEPT !.said = tooling, !.selectedTypes = Range(tooling.types),
                         !.policy = "SELECTED_TOOLING", !.order = None]
     ELSE IF "MANIPULATOR_PRIORITY_UPDATE" \in p.kinds /\ picking # None
     THEN IF ~picking.others THEN p
          ELSE IF picking.set # None
          THEN [p EXCEPT !.said = picking, !.order = unwanted]
          ELSE IF picking.types # <<>> /\ Or(p.order, NoOrder).policy = None
          THEN [p EXCEPT !.said = picking, !.order = others] ELSE p
     ELSE p

PartCandidate(c, p) ==
  LET types == NonEmpty(p.selectedTypes)
      tools == NonEmpty(p.selected)
      picked == types # None \/ tools # None
  IN [p EXCEPT
       !.base = c.base, !.selectedTypes = types, !.selected = tools,
       !.kinds = @ \cup IF picked THEN {"INSTRUMENT_SCOPE_UPDATE", "TOOLING_POLICY_UPDATE"} ELSE {},
       !.policy = IF picked THEN Or(@, "SELECTED_TOOLING") ELSE @,
       !.sim = IF "SIMULATION_CONFIG_UPDATE" \in p.kinds
               THEN WithTextValues(@, Or(p.said, c.said)) ELSE @]

\* One patch for all parts, if there is one for each.
Joined(c, patches) ==
  LET bare == \E i \in DOMAIN c.parts :
                "KPI_LIMIT_UPDATE" \in c.parts[i].kinds /\ c.parts[i].kpi = None
      patch == [base |-> c.base,
                ops |-> FlattenSeq([i \in DOMAIN patches |-> patches[i].ops]),
                sim |-> Merge(<<WithTextValues(c.sim, c.said)>>
                              \o [i \in DOMAIN patches |-> patches[i].sim])]
  IN IF bare \/ None \in Range(patches) THEN None
     ELSE IF patch.ops = <<>> /\ DOMAIN patch.sim = {} THEN None ELSE patch

Composite(c, now) ==
  Joined(c, [i \in DOMAIN c.parts |->
               NormalizedPart(PartCandidate(c, RepairedPart(c, c.parts[i])), now)])

Normalized(candidate, now, base) ==
  LET c == Expanded(candidate)
  IN IF DerivationErrors(candidate, base) # {} THEN None
     ELSE IF c.parts # <<>> THEN Composite(c, now) ELSE NormalizedPart(c, now)

-----------------------------------------------------------------------------
(* POST /intent/normalize: values the text states are put in for the model, *)
(* for the others the model is asked again; minutes may pass.               *)

\* The values go to the request and to those parts.
WithValues(c, updates, parts) ==
  [c EXCEPT !.sim = Over(updates, @),
            !.parts = [i \in DOMAIN c.parts |->
                         IF i \in parts THEN [c.parts[i] EXCEPT !.sim = Over(updates, @)]
                         ELSE c.parts[i]]]

Simulates(c) == {i \in DOMAIN c.parts : "SIMULATION_CONFIG_UPDATE" \in c.parts[i].kinds}
SimulatesSome(c) == Simulates(c) \cup {i \in DOMAIN c.parts : DOMAIN c.parts[i].sim # {}}

Recovered(c, base) ==
  IF DerivationErrors(c, base) = {} \/ DOMAIN c.said.stated = {} THEN c
  ELSE WithValues(c, c.said.stated, Simulates(c))

\* The fields the model is asked for again; all of its answer if there are none.
Requested(c, base) ==
  {"travel_time", "fix_duration", "resume_delay", "chosen_intervention_mode",
   "allowed_overlap_ratio"}
  \cap (DOMAIN c.said.stated \cup DerivationErrors(c, base))

Regenerated(c, base, updates) ==
  WithValues(c, IF Requested(c, base) = {} THEN updates ELSE Restricted(updates, Requested(c, base)),
             SimulatesSome(c))

\* The request has its patch, or is refused.
Reviewing(c, base, patch) ==
  IF patch = None THEN None
  ELSE [at |-> "reviewed", request |-> c, base |-> base, patch |-> patch]

Outcome(c, now, base) == Reviewing(c, base, Normalized(c, now, base))

Receive(s) ==
  /\ slot[s] = None /\ version < MaxVersion /\ changes.requests < MaxRequests
  /\ \E candidate \in Candidates, claimed \in 1..version :
       LET c == Recovered([candidate EXCEPT !.base = claimed], times)
           now == [trt |-> trt, version |-> version]
       IN slot' = [slot EXCEPT ![s] =
            IF DerivationErrors(c, times) = {} THEN Outcome(c, now, times)
            ELSE [at |-> "regenerate", request |-> c, now |-> now, base |-> times]]
  /\ changes' = [changes EXCEPT !.requests = @ + 1]
  /\ UNCHANGED <<releases, mode, times>>

\* The regeneration reads the recorded state for itself.
Ask(s) ==
  /\ slot[s] # None /\ slot[s].at = "regenerate"
  /\ slot' = [slot EXCEPT ![s] = [at |-> "model", request |-> @.request, now |-> @.now,
                                  base |-> @.base, asked |-> times, tries |-> 0]]
  /\ UNCHANGED <<releases, mode, times, changes>>

Answer(s) ==
  /\ slot[s] # None /\ slot[s].at = "model"
  /\ \E updates \in Regenerations :
       LET c == Regenerated(slot[s].request, slot[s].base, updates)
       IN slot' = [slot EXCEPT ![s] =
            IF DerivationErrors(c, @.asked) = {} THEN Outcome(c, @.now, @.base)
            ELSE IF @.tries + 1 < MaxAttempts THEN [slot[s] EXCEPT !.tries = @ + 1] ELSE None]
  /\ UNCHANGED <<releases, mode, times, changes>>

ModelFails(s) ==
  /\ slot[s] # None /\ slot[s].at = "model"
  /\ slot' = [slot EXCEPT ![s] = None]
  /\ UNCHANGED <<releases, mode, times, changes>>

-----------------------------------------------------------------------------
(***************************************************************************)
(* The reviewed patch is applied to the TRT that is current by then.  The   *)
(* TRT is read and the patch checked against it; a number is taken; the     *)
(* version file is written; and the current TRT is replaced.  Other         *)
(* approvals may pass between any two of these.                            *)
(***************************************************************************)

Patched(lines, ops) ==
  [l \in Lines |-> [f \in DOMAIN lines[l] |->
     LET writes == {i \in DOMAIN ops : ops[i].line = l /\ ops[i].field = f}
     IN IF writes = {} THEN lines[l][f] ELSE ops[Max(writes)].value]]

\* trt_core/semantic_rules.py
Consistent(lines) ==
  \A l \in Lines :
    /\ lines[l].allowed \cap lines[l].barred = {}
    /\ lines[l].selected \cap lines[l].excluded = {}
    /\ lines[l].priority \in 1..5
    /\ lines[l].order = None \/ ~Unordered(lines[l].order)
    /\ lines[l].kpi # None => lines[l].kpi >= 0
    /\ ~(lines[l].strategy = "CONTINUE_FEASIBLE_TASKS" /\ mode[l] = "ERROR")

Accepts_AnyBase_Fault(patch) == Consistent(Patched(trt, patch.ops))
Accepts(patch) == patch.base = version /\ Consistent(Patched(trt, patch.ops))

Standing(s, step) == slot[s] # None /\ slot[s].at = step

Apply(s) ==
  /\ Standing(s, "reviewed")
  /\ slot' = [slot EXCEPT ![s] =
       IF Accepts(@.patch)
       THEN [at |-> "checked", request |-> @.request, patch |-> @.patch,
             read |-> [trt |-> trt, version |-> version]]
       ELSE None]
  /\ UNCHANGED <<releases, mode, times, changes>>

\* next_released_version: the number of an approval that has not written yet is
\* given out once more.
Number(s) ==
  /\ Standing(s, "checked") /\ latest < MaxVersion
  /\ slot' = [slot EXCEPT ![s] =
       [at |-> "numbered", request |-> @.request, patch |-> @.patch, read |-> @.read,
        number |-> latest + 1]]
  /\ twice' = twice \cup (IF \E o \in Slots : Standing(o, "numbered") /\ slot[o].number = latest + 1
                         THEN {latest + 1} ELSE {})
  /\ UNCHANGED <<trt, version, latest, mode, times, changes>>

SaveVersion(s) ==
  /\ Standing(s, "numbered")
  /\ latest' = IF slot[s].number > latest THEN slot[s].number ELSE latest
  /\ slot' = [slot EXCEPT ![s].at = "stored"]
  /\ UNCHANGED <<trt, version, twice, mode, times, changes>>

SaveCurrent(s) ==
  /\ Standing(s, "stored")
  /\ trt' = Patched(slot[s].read.trt, slot[s].patch.ops)
  /\ version' = slot[s].number
  /\ slot' = [slot EXCEPT ![s] = None]
  /\ UNCHANGED <<latest, twice, mode, times, changes>>

\* The operator does not approve.
Discard(s) ==
  /\ slot[s] # None /\ slot[s].at = "reviewed"
  /\ slot' = [slot EXCEPT ![s] = None]
  /\ UNCHANGED <<releases, mode, times, changes>>

\* A deployment, or PUT of the Time-Arrival state.
RecordTimes ==
  /\ changes.times < MaxTimes
  /\ times' \in Times
  /\ changes' = [changes EXCEPT !.times = @ + 1]
  /\ UNCHANGED <<releases, mode, slot>>

Init ==
  /\ trt = InitialTRT /\ version = 1 /\ latest = 1 /\ twice = {}
  /\ mode \in Modes
  /\ times = InitialTimes /\ changes = [times |-> 0, requests |-> 0]
  /\ slot = [s \in Slots |-> None]

Next ==
  \/ \E s \in Slots :
       \/ Receive(s) \/ Ask(s) \/ Answer(s) \/ ModelFails(s) \/ Discard(s)
       \/ Apply(s) \/ Number(s) \/ SaveVersion(s) \/ SaveCurrent(s)
  \/ RecordTimes

Spec == Init /\ [][Next]_vars

-----------------------------------------------------------------------------
(* Properties *)

Reviewed(s) == Standing(s, "reviewed")
\* A step that makes the patch of s the current TRT, and the lines it was made of.
Releases(s) == Standing(s, "stored") /\ slot'[s] # slot[s]
Before(s) == slot[s].read.trt

Requests(c) == IF Parts(c) = {} THEN {c} ELSE Parts(c)
NamedBy(c) == Or(c.lines, {}) \cup (IF c.line = None THEN {} ELSE {c.line})
SaidLines(c) == IF c.said = None THEN {} ELSE c.said.lines
MeansAll(c) == c.scope = "ALL_LINES" \/ c.kpiScope = "ALL_LINES" \/ (c.said # None /\ c.said.all # None)

\* All that a request says of lines, the model's fields and the text together.
Named(c) == UNION {NamedBy(r) \cup SaidLines(r) \cup Or(r.kpiLines, {}) : r \in Requests(c) \cup {c}}

\* Each part of the request names lines and none means all of them.
Targeted(c) == (\A r \in Requests(c) : NamedBy(r) # {} /\ ~MeansAll(r)) /\ ~MeansAll(c)

\* A request whose every part names lines changes nothing but throughput targets
\* on the others: no default scope, line number of the text or group of tools
\* spreads a change of tools, order or policy.  This is so against the version it
\* was applied to; another one may have become current since.
UnnamedLinesKept ==
  [][\A s \in Slots :
       LET c == slot[s].request IN
       Releases(s) /\ Targeted(c) =>
         \A l \in Lines \ Named(c) : trt'[l] = [Before(s)[l] EXCEPT !.kpi = trt'[l].kpi]]_vars

\* What a version excludes from a line, every version made from it excludes,
\* whatever is requested afterwards or was reviewed before: every request was
\* computed from the exclusions of some version, and only on that one may its
\* patch be built, unless two approvals have written it under one number.  It is
\* not so of the version that is current: an overlapping approval, made from an
\* older one, does take its exclusions back.
ExclusionsAccumulate ==
  [][\A s \in Slots, l \in Lines :
       Releases(s) /\ slot[s].read.version \notin twice =>
         Before(s)[l].excluded \subseteq trt'[l].excluded]_vars

\* A change of all lines does not set throughput or tooling policy of a line in
\* error: whoever does so names the line.
ErrorLineNamed ==
  [][\A s \in Slots, l \in Lines :
       Releases(s) /\ mode[l] = "ERROR"
       /\ <<trt'[l].kpi, trt'[l].policy>> # <<Before(s)[l].kpi, Before(s)[l].policy>> =>
         l \in Named(slot[s].request)]_vars

\* Neither a part nor a clause of the text has a value of its own.
Silent(said) == said = None \/ DOMAIN said.stated \cup DOMAIN said.loose = {}
SaidOnce(c) ==
  /\ Silent(c.said.target) /\ Silent(c.said.order)
  /\ \A r \in Parts(c) : Silent(r.said) /\ DOMAIN r.sim = {}

\* What is reviewed never has another value than the text asks for, counted from
\* the state that was recorded when the request came, however often the model
\* was asked and the record changed since: as long as the text says each value
\* once, and the number patterns pick up no other number for it.
RequestedValuesReviewed ==
  \A s \in Slots :
    LET c == slot[s].request IN
    Reviewed(s) /\ c.said # None /\ SaidOnce(c) =>
      LET expected == Expected(c.said, slot[s].base)
          sim == slot[s].patch.sim
      IN \A f \in DOMAIN expected \cap DOMAIN sim :
           (f \in DOMAIN c.said.loose => c.said.loose[f] = expected[f]) => sim[f] = expected[f]

=============================================================================
