------------------------------- MODULE Evidence -------------------------------
(***************************************************************************)
(* From the result database of a simulation run to the deployment advice    *)
(* the operator reads: result_reader.py and evidence_summary_builder.py.    *)
(*                                                                         *)
(* Pure operators, no state.  A result database db is a record             *)
(*   file      "OPEN", or why it cannot be read                            *)
(*   status    the row of simulation_runs: COMPLETED, FAILED or RUNNING    *)
(*   error     the markers found in its error_message                      *)
(*   kpis      line -> the row of line_kpis                                *)
(*   picks     line -> the sequence of priority_events, in picking order   *)
(*   batches   line -> the set of batch_completion_kpis                    *)
(*   sorting   line -> the ALL_SORTING container row, or None              *)
(*   tools     the set of tool_events; correct is TRUE, FALSE or None      *)
(*   tabled    some table_batch_events or batch_pick_events exist          *)
(* and a ScenarioSpec spec is a record                                     *)
(*   lines, bound   simulation_scope.lines and the lines of line_bindings  *)
(*   policy         line -> the KPI targets and the picking priority       *)
(*   count, envs    add_reference_number and num_envs                      *)
(*   dryRun         governance_metadata.dry_run_only                       *)
(* A log has the markers of seed, the reason of the last failure in the     *)
(* seed database, and of host, the tail of Isaac's output.                 *)
(* Durations are whole seconds.  Every text of the summary is left out but *)
(* for what it tells the operator about deploying.  An operator whose name  *)
(* ends in _Fault is a plausible mistake in the definition that follows it; *)
(* no specification uses it.                                                *)
(***************************************************************************)
EXTENDS Integers, Sequences, FiniteSets, FiniteSetsExt

CONSTANT None   \* an absent value (NULL, a missing key)

(***************************************************************************)
(* The run artifact.                                                       *)
(***************************************************************************)
Unreadable(code) ==
  [status |-> "ERROR", code |-> code, root |-> {}, message |-> {"OTHER"},
   error |-> {}, kpis |-> <<>>, picks |-> <<>>, batches |-> <<>>,
   sorting |-> <<>>, tools |-> {}, tabled |-> FALSE]

ReadSimulationResults(db) ==
  LET art(status, code, root, message) ==
        [status |-> status, code |-> code, root |-> root, message |-> message,
         error |-> db.error, kpis |-> db.kpis, picks |-> db.picks,
         batches |-> db.batches, sorting |-> db.sorting,
         tools |-> db.tools, tabled |-> db.tabled]
  IN CASE db.file # "OPEN" -> Unreadable(db.file)
       [] db.file = "OPEN" /\ db.status = "RUNNING" ->
            art("ERROR", "SIMULATION_RESULT_NOT_FINALIZED", {}, {"OTHER"})
       [] db.file = "OPEN" /\ db.status = "FAILED" /\ "EXCEPTION" \in db.error ->
            art("ERROR", "SIMULATION_SCRIPT_EXCEPTION", db.error, {"OTHER"})
       [] OTHER -> art(db.status, None, {}, {})

(***************************************************************************)
(* Checks and warnings of one line.                                        *)
(***************************************************************************)
ToolsOf(art, l) == {e \in art.tools : e.line = l}

PlacedEvents(art, l) ==
  {e \in ToolsOf(art, l) : (e.placed \/ e.target # None) /\ e.time # None}

\* Once every completed tool has a placing event with a time, the times
\* replace the recorded throughput.  suspect: the two disagree by far.
Timing(art, l) ==
  LET row    == art.kpis[l]
      placed == PlacedEvents(art, l)
      cycle  == Max({e.time : e \in placed})
  IN IF row.done = 0 \/ Cardinality(placed) < row.done
     THEN [rate |-> row.rate, suspect |-> FALSE]
     ELSE [rate |-> IF cycle > 0 THEN (row.done * 3600) \div cycle ELSE None,
           suspect |-> /\ row.cycle # None
                       /\ cycle > Max({row.cycle * 10, row.cycle + 5})]

Blocking(id) ==
  id \notin {"data_quality.timing_inconsistent_with_pick_events",
             "kpi_scope.full_environment_expected_for_limited_simulation"}

\* The first unwanted pick while a wanted tool of the same table batch is left.
RequiredFirst(picks) ==
  LET left(i) == {picks[j].tool : j \in {k \in DOMAIN picks :
                    picks[k].batch = picks[i].batch /\ picks[k].wanted}}
                 \ {picks[j].tool : j \in {k \in 1..(i - 1) :
                    picks[k].batch = picks[i].batch /\ picks[k].wanted}}
  IN CASE picks = <<>> -> "NO_DATA"
       [] \E i \in DOMAIN picks : ~picks[i].wanted /\ left(i) # {} -> "FAIL"
       [] OTHER -> "PASS"

PriorityPolicy(art, spec, l) ==
  IF art.kpis[l].policy # None THEN art.kpis[l].policy ELSE spec.policy[l].policy

PriorityEnabled(art, spec, l) ==
  spec.policy[l].enabled \/ PriorityPolicy(art, spec, l) \notin {"NONE", "FCFS"}

PriorityFailureChecks(art, spec, l) ==
  CASE ~PriorityEnabled(art, spec, l) -> {}
    [] PriorityEnabled(art, spec, l) /\ PriorityPolicy(art, spec, l) = "NONE" ->
         {"priority.policy_missing"}
    [] PriorityEnabled(art, spec, l) /\ PriorityPolicy(art, spec, l) = "REQUIRED_FIRST" ->
         (CASE RequiredFirst(art.picks[l]) = "PASS" -> {}
            [] \/ RequiredFirst(art.picks[l]) = "FAIL"
               \/ RequiredFirst(art.picks[l]) = "NO_DATA" /\ art.kpis[l].deviations > 0 ->
                 {"priority.required_first"}
            [] OTHER -> {"result_data.missing_priority_events"})
    [] OTHER -> {}

\* A flagged batch whose table was cleared in the end is a recovered attempt.
RealGatingViolation_TrustsSuccess_Fault(b) == b.violation /\ ~b.success

RealGatingViolation(b) ==
  LET cleared == b.tools > 0 /\ b.picked >= b.tools
      inOrder == b.completed # None /\ (b.next = None \/ b.next >= b.completed)
  IN b.violation /\ ~(cleared /\ (b.success \/ inOrder))

BatchGatingChecks(art, l) ==
  {"batch_gating.table_not_empty_before_next_batch" :
     b \in {c \in art.batches[l] : RealGatingViolation(c)}}

RecoveredGatingWarnings(art, l) ==
  {"batch_gating.recovered_blocked_next_batch_request" :
     b \in {c \in art.batches[l] : c.violation /\ ~RealGatingViolation(c)}}

PlacementWarnings(art, l) ==
  {IF e.wanted THEN "placement.incorrect_required_tool"
               ELSE "placement.incorrect_tool" :
     e \in {t \in ToolsOf(art, l) : t.picked /\ t.placed /\ t.correct # TRUE}}

LimitedScopeChecks(art, spec, l) ==
  LET all == art.sorting[l]
  IN IF /\ spec.count > 0
        /\ all # None
        /\ all.required > spec.count
        /\ art.kpis[l].done = spec.count
        /\ all.done = art.kpis[l].done
        /\ ~all.success
     THEN {"kpi_scope.full_environment_expected_for_limited_simulation"} ELSE {}

\* The ScenarioSpec's target of a line, else the one of the TRT.
Target(spec, trt, l, field) ==
  IF spec.policy[l][field] # None THEN spec.policy[l][field] ELSE trt[l][field]

AtLeast(value, target) == target # None => value # None /\ value >= target
AtMost(value, limit)   == limit # None => value # None /\ value <= limit

ThroughputPass(art, spec, trt, l) ==
  AtLeast(Timing(art, l).rate, Target(spec, trt, l, "minRate"))

DowntimePass(art, spec, trt, l) ==
  AtMost(art.kpis[l].down, Target(spec, trt, l, "maxDown"))

\* A line that failed for no recorded reason fails the check of its own
\* success flag.
WithOwnFlag(found, success) ==
  IF ~success /\ found = {} THEN {"tooling.wanted_completion"} ELSE found

\* The checks a line fails.
LineChecks(art, spec, trt, l) ==
  WithOwnFlag(
    (IF Timing(art, l).suspect
     THEN {"data_quality.timing_inconsistent_with_pick_events"} ELSE {})
    \cup (IF ThroughputPass(art, spec, trt, l) THEN {} ELSE {"throughput.min_per_hour"})
    \cup (IF DowntimePass(art, spec, trt, l) THEN {} ELSE {"downtime.max_seconds"})
    \cup PriorityFailureChecks(art, spec, l)
    \cup BatchGatingChecks(art, l)
    \cup LimitedScopeChecks(art, spec, l),
    art.kpis[l].success)

LineWarnings(art, l) == PlacementWarnings(art, l) \cup RecoveredGatingWarnings(art, l)

LineStatus(failed, warned) ==
  CASE failed = {} /\ warned = {} -> "PASS"
    [] failed = {} /\ warned # {} -> "WARNING"
    [] failed # {} /\ \A id \in failed : ~Blocking(id) -> "OPERATOR_ACK_REQUIRED"
    [] OTHER -> "FAIL"

(***************************************************************************)
(* The run as a whole.                                                     *)
(***************************************************************************)
ExpectedLines(spec, trt) ==
  CASE spec.lines # {} -> spec.lines
    [] spec.lines = {} /\ spec.bound # {} -> spec.bound
    [] OTHER -> DOMAIN trt

\* The check an expected line without a row fails.
MissingLineCheck(art) ==
  IF DOMAIN art.kpis = {} THEN "result_data.missing_kpi_rows"
  ELSE "simulation_scope.line_kpis_missing"

FailedChecks(art, spec, trt) ==
  (UNION {{[line |-> l, id |-> id] : id \in LineChecks(art, spec, trt, l)} :
            l \in DOMAIN art.kpis})
  \cup {[line |-> l, id |-> MissingLineCheck(art)] :
          l \in ExpectedLines(spec, trt) \ DOMAIN art.kpis}

WarningChecks(art) ==
  UNION {{[line |-> l, id |-> id] : id \in LineWarnings(art, l)} : l \in DOMAIN art.kpis}

\* The text a failed run is explained with: its own, else what the log says:
\* the last failure in the seed database, else the tail of the Isaac output.
RawError(art, log) ==
  CASE art.root # {} -> art.root
    [] art.root = {} /\ art.message # {} -> art.message
    [] art.root = {} /\ art.message = {} /\ art.error # {} -> art.error
    [] OTHER -> IF log.seed # {} THEN log.seed ELSE log.host

FailureSummary(art, log) ==
  /\ ~(art.status = "COMPLETED" /\ art.code = None)
  /\ ~("ASSERT" \in RawError(art, log) /\ DOMAIN art.kpis # {})

\* Tool events made up at time zero: the run says nothing about picking.
ClassificationFailure(art, spec, log) ==
  LET envs     == IF spec.envs # 0 THEN spec.envs ELSE Cardinality(spec.lines)
      expected == spec.count * envs
  IN /\ ~art.tabled
     /\ art.tools # {}
     /\ \A e \in art.tools : e.time \in {None, 0}
     /\ \/ expected # 0 /\ Cardinality(art.tools) > expected
        \/ "LINE_ID" \in art.root \cup art.message \cup art.error \cup log.host

RunFailed(art, spec, log) ==
  FailureSummary(art, log) \/ ClassificationFailure(art, spec, log)

\* FAIL, WARNING or PASS for the run, by the checks it fails (failed) and
\* whether it failed itself (broken).
OverallResult(art, spec, trt, failed, broken) ==
  CASE broken \/ \E c \in failed : Blocking(c.id) -> "FAIL"
    [] failed = {} /\ WarningChecks(art) = {} /\ ~broken
       /\ DOMAIN art.kpis \cup ExpectedLines(spec, trt) # {} -> "PASS"
    [] OTHER -> "WARNING"

\* A failed run whose line KPIs were recorded and pass is not blocked.
RiskTier(art, failed, broken, overall) ==
  LET warned == WarningChecks(art)
      block  == \/ \E c \in failed : Blocking(c.id)
                \/ broken /\ DOMAIN art.kpis = {}
      acks   == \/ failed # {}
                \/ \E w \in warned : w.id = "placement.incorrect_required_tool"
  IN CASE block -> "BLOCKING"
       [] ~block /\ acks -> "OPERATOR_ACK_REQUIRED"
       [] ~block /\ ~acks /\ (overall = "WARNING" \/ warned # {}) -> "ATTENTION"
       [] OTHER -> "INFO"

RequiredAcks(art, failed) ==
  {c.id : c \in {d \in failed : ~Blocking(d.id)}}
  \cup {w.id : w \in {v \in WarningChecks(art) : v.id # "placement.incorrect_tool"}}

OperatorOptions(tier, dryRun) ==
  CASE dryRun -> {"RERUN_SIMULATION", "REQUEST_REVISION", "CANCEL"}
    [] ~dryRun /\ tier = "BLOCKING" -> {"REQUEST_REVISION", "RERUN_SIMULATION"}
    [] ~dryRun /\ tier = "OPERATOR_ACK_REQUIRED" ->
         {"DEPLOY_WITH_ACK", "DO_NOT_DEPLOY", "REQUEST_REVISION", "RERUN_SIMULATION"}
    [] ~dryRun /\ tier = "ATTENTION" ->
         {"DEPLOY", "DO_NOT_DEPLOY", "REQUEST_REVISION", "RERUN_SIMULATION"}
    [] OTHER -> {"DEPLOY", "DO_NOT_DEPLOY", "REQUEST_REVISION"}

\* What the operator's summary says about deploying.
OperatorSummary(failed, broken, overall, dryRun) ==
  LET scope == "kpi_scope.full_environment_expected_for_limited_simulation"
  IN CASE broken -> "NOT_RECOMMENDED"
       [] ~broken /\ dryRun -> "NO_DEPLOYMENT"
       [] ~broken /\ ~dryRun /\ overall = "PASS" -> "SUPPORTED"
       [] OTHER -> IF failed # {} /\ \A c \in failed : c.id = scope
                   THEN "POSSIBLE_WITH_ACK"
                   ELSE IF failed # {} THEN "NOT_RECOMMENDED" ELSE "NOT_SUPPORTED_YET"

\* What the evidence says of a line with a row.
MeasuredLine(art, spec, trt, l) ==
  [status   |-> LineStatus(LineChecks(art, spec, trt, l), LineWarnings(art, l)),
   priority |-> PriorityFailureChecks(art, spec, l) = {},
   gating   |-> BatchGatingChecks(art, l) = {}]

LineEvidence(art, spec, trt) ==
  [l \in DOMAIN art.kpis \cup ExpectedLines(spec, trt) |->
     IF l \in DOMAIN art.kpis
     THEN MeasuredLine(art, spec, trt, l)
     ELSE [status |-> "FAIL", priority |-> None, gating |-> None]]

\* What is concluded from the checks.
Conclusions(art, spec, trt, failed, broken, overall) ==
  LET tier == RiskTier(art, failed, broken, overall)
  IN [status      |-> art.status,
      overall     |-> overall,
      tier        |-> tier,
      allowed     |-> tier # "BLOCKING" /\ ~spec.dryRun,
      recommended |-> tier \in {"INFO", "ATTENTION"} /\ ~spec.dryRun,
      needsAck    |-> tier = "OPERATOR_ACK_REQUIRED" /\ ~spec.dryRun,
      options     |-> OperatorOptions(tier, spec.dryRun),
      acks        |-> RequiredAcks(art, failed),
      says        |-> OperatorSummary(failed, broken, overall, spec.dryRun),
      lines       |-> LineEvidence(art, spec, trt)]

BuildEvidenceSummary(db, spec, trt, log) ==
  LET art    == ReadSimulationResults(db)
      failed == FailedChecks(art, spec, trt)
      broken == RunFailed(art, spec, log)
  IN Conclusions(art, spec, trt, failed, broken,
                 OverallResult(art, spec, trt, failed, broken))
===============================================================================
