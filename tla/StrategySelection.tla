--------------------------- MODULE StrategySelection ---------------------------
(***************************************************************************)
(* How one strategy is chosen for a released TRT (strategy_selection.py and *)
(* the batch worker of api.py): the operator-faithful baseline, the model's *)
(* proposals and their validation, the evidence of every candidate's run,   *)
(* the measurements, and the ranking that names a winner.  The threads and  *)
(* files of the worker are in StrategyBatch; here is what is computed.      *)
(* Operators ending in _Fault are plausible mistakes, as in Evidence.       *)
(*                                                                         *)
(* A context is what a batch is generated from: the lines simulated (scope) *)
(* and those the candidates may change, the policies of the released TRT,   *)
(* the fields the operator's patch wrote (locked), the mode of the deployed *)
(* defaults and the mode the operator asked for.  A candidate is an id and  *)
(* three partial overrides.                                                *)
(***************************************************************************)
EXTENDS Evidence, Functions

CONSTANTS
  Contexts,      \* the contexts a batch may be generated in
  Proposals,     \* the candidates the model may write
  Databases,     \* the result databases a simulation run may leave
  Logs,          \* the markers in the seed database and in Isaac's output
  MaxAttempts    \* STRATEGY_CANDIDATE_GENERATION_ATTEMPTS

ASSUME AttemptsAssumption == MaxAttempts \in Nat \ {0}

ASSUME NoneAssumption == None \notin Nat \cup BOOLEAN \cup {"REQUIRED_FIRST"}

\* The scope names lines of the TRT, whose schema and semantic rules make a
\* target null or not negative.
ASSUME ContextAssumption ==
  \A x \in Contexts : /\ IsFiniteSet(x.scope) /\ x.scope \subseteq DOMAIN x.strategy
                     /\ \A l \in x.scope : x.minRate[l] \in Nat \cup {None}

\* The simulator counts tools per hour, the picks are read in their order, and
\* a placement is right, wrong or not checked.
ASSUME DatabaseAssumption ==
  \A db \in Databases :
    /\ \A e \in db.tools : e.correct \in BOOLEAN \cup {None}
    /\ \A l \in DOMAIN db.kpis : /\ db.kpis[l].rate \in Nat \cup {None}
                                 /\ db.picks[l] \in Seq(Range(db.picks[l]))

VARIABLES
  ctx,        \* the context of the batch
  phase,      \* GENERATING, SIMULATING, RANKING, or the final status of the batch
  attempt,    \* the model call being answered
  accepted,   \* candidates accepted so far, the baseline first
  runs,       \* one outcome per simulated candidate
  winner      \* index of the selected candidate, or None

vars == <<ctx, phase, attempt, accepted, runs, winner>>

\* Candidate ids are numbered in their lexicographic order.
Baseline == 2

StrategyOf(mode) ==
  CASE mode = "immediate-stop" -> "STOP_LINE"
    [] mode = "continue-until-arrival" -> "CONTINUE_FEASIBLE_TASKS"
    [] OTHER -> None

-------------------------------------------------------------------------------
(***************************************************************************)
(* Candidates.                                                             *)
(***************************************************************************)
Mode(x, c) ==
  IF c.mode # None THEN c.mode ELSE IF x.lockMode # None THEN x.lockMode ELSE x.mode

Strategy(x, c, l) == IF l \in DOMAIN c.strategy THEN c.strategy[l] ELSE x.strategy[l]
Priority(x, c, l) == IF l \in DOMAIN c.priority THEN c.priority[l] ELSE x.priority[l]

\* What makes two candidates the same strategy.
Fingerprint(x, c) ==
  <<Mode(x, c), [l \in x.lines |-> <<Strategy(x, c, l), Priority(x, c, l)>>]>>

\* The locked strategy of a line is the one it has in the released TRT.
BaselineConflicts(x) ==
  LET wanted == StrategyOf(Mode(x, [mode |-> None]))
  IN wanted # None /\ \E l \in x.lines \cap x.lockedStrategy : x.strategy[l] # wanted

OperatorFaithfulBaseline(x) ==
  LET wanted  == StrategyOf(Mode(x, [mode |-> None]))
      changed == {l \in x.lines : wanted # None /\ x.strategy[l] # wanted}
  IN [id |-> Baseline, strategy |-> [l \in changed |-> wanted],
      priority |-> [l \in {} |-> None], mode |-> None]

\* The fields the operator's patch wrote and the mode the operator asked for.
KeepsLocks_PriorityFree_Fault(x, c) ==
  /\ \A l \in x.lockedStrategy \cap DOMAIN c.strategy : c.strategy[l] = x.strategy[l]
  /\ x.lockMode # None => c.mode \in {None, x.lockMode}

KeepsLocks(x, c) ==
  /\ \A l \in x.lockedStrategy \cap DOMAIN c.strategy : c.strategy[l] = x.strategy[l]
  /\ \A l \in x.lockedPriority \cap DOMAIN c.priority : c.priority[l] = x.priority[l]
  /\ x.lockMode # None => c.mode \in {None, x.lockMode}

ValidNext_UnderDeployedMode_Fault(x, before, c) ==
  /\ \A i \in DOMAIN before : before[i].id # c.id
  /\ DOMAIN c.strategy \cup DOMAIN c.priority \subseteq x.lines
  /\ KeepsLocks(x, c)
  /\ StrategyOf(x.mode) # None =>
       \A l \in x.lines : Strategy(x, c, l) = StrategyOf(x.mode)
  /\ \A i \in DOMAIN before : Fingerprint(x, before[i]) # Fingerprint(x, c)

\* The checks _validate_candidate_batch adds to the candidates already there.
ValidNext(x, before, c) ==
  /\ \A i \in DOMAIN before : before[i].id # c.id
  /\ DOMAIN c.strategy \cup DOMAIN c.priority \subseteq x.lines
  /\ KeepsLocks(x, c)
  /\ StrategyOf(Mode(x, c)) # None =>
       \A l \in x.lines : Strategy(x, c, l) = StrategyOf(Mode(x, c))
  /\ \A i \in DOMAIN before : Fingerprint(x, before[i]) # Fingerprint(x, c)

-------------------------------------------------------------------------------
(***************************************************************************)
(* Measurements of a finished run.  The throughput is the recorded one and  *)
(* the target is the ScenarioSpec's.                                        *)
(***************************************************************************)
ScenarioOf(x, c) ==
  [lines |-> x.scope, bound |-> x.scope, count |-> x.tooling, envs |-> 0, dryRun |-> FALSE,
   policy |-> [l \in DOMAIN x.strategy |->
     IF l \in x.scope
     THEN [policy |-> Priority(x, c, l), enabled |-> Priority(x, c, l) # "NONE",
           minRate |-> x.minRate[l], maxDown |-> x.maxDown[l]]
     ELSE [policy |-> "NONE", enabled |-> FALSE, minRate |-> None, maxDown |-> None]]]

TargetsOf(x) ==
  [l \in DOMAIN x.strategy |-> [minRate |-> x.minRate[l], maxDown |-> x.maxDown[l]]]

EvidenceOf(x, c, db, log) ==
  BuildEvidenceSummary(db, ScenarioOf(x, c), TargetsOf(x), log)

\* A placement counts that was found right or wrong.
Determinate(tools) ==
  {e \in tools : (e.target # None \/ e.placed) /\ e.correct # None}

\* All determinate placements right; None without any.
StorageVerified(art) ==
  LET placed == Determinate(art.tools)
  IN IF placed = {} THEN None ELSE \A e \in placed : e.correct

\* A target of zero asks for nothing.
TargetLines(x) == {l \in x.scope : x.minRate[l] \notin {None, 0}}

MeasuredLines(x, art) ==
  {l \in DOMAIN art.kpis \cap TargetLines(x) : art.kpis[l].rate # None}

\* The mean over the measured lines, in percent; None without any.
Attainment(x, art) ==
  LET lines == MeasuredLines(x, art)
      ratio == [l \in lines |-> (100 * art.kpis[l].rate) \div x.minRate[l]]
  IN IF lines = {} THEN None ELSE SumFunctionOnSet(ratio, lines) \div Cardinality(lines)

ThroughputReasons(x, art) ==
  CASE MeasuredLines(x, art) = {} -> {"THROUGHPUT_EVIDENCE_MISSING"}
    [] MeasuredLines(x, art) # {} /\ MeasuredLines(x, art) # TargetLines(x) ->
         {"LINE_THROUGHPUT_EVIDENCE_MISSING"}
    [] MeasuredLines(x, art) # {} /\ MeasuredLines(x, art) = TargetLines(x) ->
         IF \E l \in TargetLines(x) : art.kpis[l].rate < x.minRate[l]
         THEN {"LINE_THROUGHPUT_TARGET_NOT_MET"} ELSE {}

\* The verdicts of the evidence go before the raw counts of the line KPIs.
ComplianceReasons(art, ev) ==
  LET judged == {l \in DOMAIN ev.lines : ev.lines[l].priority # None}
  IN (IF \/ \E l \in judged : ~ev.lines[l].priority
         \/ judged = {} /\ \E l \in DOMAIN art.kpis : art.kpis[l].deviations > 0
      THEN {"PRIORITY_COMPLIANCE_FAILED"} ELSE {})
     \cup (IF \E l \in judged : ~ev.lines[l].gating
           THEN {"BATCH_GATING_COMPLIANCE_FAILED"} ELSE {})

BlockingReasons_NoEvidence_Fault(x, art, ev) ==
  (IF art.status # "COMPLETED" THEN {"RUN_ARTIFACT_NOT_COMPLETED"} ELSE {})
  \cup ThroughputReasons(x, art)
  \cup ComplianceReasons(art, ev)

BlockingReasons(x, art, ev) ==
  (IF art.status # "COMPLETED" THEN {"RUN_ARTIFACT_NOT_COMPLETED"} ELSE {})
  \cup (IF ~ev.allowed THEN {"EVIDENCE_DISALLOWS_DEPLOYMENT"} ELSE {})
  \cup (CASE StorageVerified(art) = None -> {"PLACEMENT_EVIDENCE_MISSING"}
          [] StorageVerified(art) = FALSE -> {"PLACEMENT_VERIFICATION_FAILED"}
          [] OTHER -> {})
  \cup ThroughputReasons(x, art)
  \cup ComplianceReasons(art, ev)

CandidateMeasurements(x, c, db, log) ==
  LET art == ReadSimulationResults(db)
  IN [reasons    |-> BlockingReasons(x, art, EvidenceOf(x, c, db, log)),
      attainment |-> Attainment(x, art),
      seconds    |-> LET known == {art.kpis[l].seconds : l \in DOMAIN art.kpis} \ {None, 0}
                     IN IF known = {} THEN None ELSE Max(known)]

\* The status the simulation client reports for a run the host completed.
SimulationCompleted(x, db) ==
  LET art == ReadSimulationResults(db)
  IN /\ art.code = None
     /\ Cardinality(DOMAIN art.kpis) >= Cardinality(x.scope)
     /\ \/ art.status = "COMPLETED"
        \/ DOMAIN art.kpis # {} /\ \A l \in DOMAIN art.kpis : art.kpis[l].success

-------------------------------------------------------------------------------
(***************************************************************************)
(* Ranking: score, then the shorter simulation (an unknown one last), then  *)
(* the id.                                                                  *)
(***************************************************************************)
Eligible(i) == runs[i].status = "EVALUATED" /\ runs[i].reasons = {}

Shorter(a, b) == a # None /\ (b = None \/ a < b)

Better_IgnoresScore_Fault(i, j) ==
  \/ Shorter(runs[i].seconds, runs[j].seconds)
  \/ /\ runs[i].seconds = runs[j].seconds
     /\ accepted[i].id < accepted[j].id

Better(i, j) ==
  \/ runs[i].attainment > runs[j].attainment
  \/ /\ runs[i].attainment = runs[j].attainment
     /\ \/ Shorter(runs[i].seconds, runs[j].seconds)
        \/ /\ runs[i].seconds = runs[j].seconds
           /\ accepted[i].id < accepted[j].id

\* w is what rank_candidate_runs returns.
RankCandidateRuns(w) ==
  LET eligible == {i \in DOMAIN runs : Eligible(i)}
  IN \/ w = None /\ eligible = {}
     \/ w \in eligible /\ \A j \in eligible \ {w} : Better(w, j)

\* Only a batch whose candidates were all evaluated goes back to the operator.
FinalStatus(w) ==
  CASE w # None -> "SELECTED"
    [] w = None /\ \A i \in DOMAIN runs : runs[i].status = "EVALUATED" ->
         "POST_SIMULATION_CONSTRAINT_FAILURE"
    [] OTHER -> "SYSTEM_OR_SIMULATION_INCOMPLETE"

-------------------------------------------------------------------------------
(***************************************************************************)
(* The steps.                                                              *)
(***************************************************************************)
Init ==
  /\ ctx \in Contexts
  /\ phase = "NEW"
  /\ attempt = 0
  /\ accepted = <<>>
  /\ runs = <<>>
  /\ winner = None

\* The baseline is built first; a lock it would have to break fails the batch.
StartBatch ==
  /\ phase = "NEW"
  /\ IF BaselineConflicts(ctx)
     THEN phase' = "GENERATION_FAILED" /\ UNCHANGED <<accepted, attempt>>
     ELSE /\ phase' = "GENERATING"
          /\ accepted' = <<OperatorFaithfulBaseline(ctx)>>
          /\ attempt' = 1
  /\ UNCHANGED <<ctx, runs, winner>>

\* One candidate of the model's answer; the accepted ones survive a retry.
ConsiderProposal(c) ==
  /\ phase = "GENERATING"
  /\ c.id # Baseline
  /\ Len(accepted) < ctx.count
  /\ ValidNext(ctx, accepted, c)
  /\ accepted' = Append(accepted, c)
  /\ UNCHANGED <<ctx, phase, attempt, runs, winner>>

\* The answer is used up, or the call failed: retry until the batch is full.
EndAttempt ==
  /\ phase = "GENERATING"
  /\ IF Len(accepted) = ctx.count \/ attempt = MaxAttempts
     THEN phase' = "SIMULATING" /\ UNCHANGED attempt
     ELSE attempt' = attempt + 1 /\ UNCHANGED phase
  /\ UNCHANGED <<ctx, accepted, runs, winner>>

\* The worker runs the next candidate and measures what its database holds.
RunCandidate(db, log) ==
  /\ phase = "SIMULATING" /\ Len(runs) < Len(accepted)
  /\ LET c == accepted[Len(runs) + 1]
         m == CandidateMeasurements(ctx, c, db, log)
     IN runs' = Append(runs,
          IF SimulationCompleted(ctx, db)
          THEN [status |-> "EVALUATED", db |-> db, reasons |-> m.reasons,
                attainment |-> m.attainment, seconds |-> m.seconds]
          ELSE [status |-> "FAILED", db |-> db, reasons |-> {"SIMULATION_NOT_COMPLETED"},
                attainment |-> None, seconds |-> None])
  /\ UNCHANGED <<ctx, phase, attempt, accepted, winner>>

\* No ScenarioSpec for the candidate, or any exception on the way.
CandidateError ==
  /\ phase = "SIMULATING" /\ Len(runs) < Len(accepted)
  /\ runs' = Append(runs, [status |-> "SYSTEM_ERROR", db |-> None, reasons |-> {"SYSTEM_ERROR"},
                           attainment |-> None, seconds |-> None])
  /\ UNCHANGED <<ctx, phase, attempt, accepted, winner>>

SelectWinner ==
  /\ phase = "SIMULATING" /\ Len(runs) = Len(accepted)
  /\ \E w \in DOMAIN runs \cup {None} :
       RankCandidateRuns(w) /\ winner' = w /\ phase' = FinalStatus(w)
  /\ UNCHANGED <<ctx, attempt, accepted, runs>>

Next ==
  \/ StartBatch
  \/ \E c \in Proposals : ConsiderProposal(c)
  \/ EndAttempt
  \/ \E db \in Databases, log \in Logs : RunCandidate(db, log)
  \/ CandidateError
  \/ SelectWinner

Spec == Init /\ [][Next]_vars

-------------------------------------------------------------------------------
(***************************************************************************)
(* Properties.                                                             *)
(***************************************************************************)
Simulated == {i \in DOMAIN runs : runs[i].status = "EVALUATED"}

\* The evidence a later request builds, without the output of the host.
AdviceLater(i, log) ==
  EvidenceOf(ctx, accepted[i], runs[i].db, [seed |-> log.seed, host |-> {}])

\* What the operator approved is what every candidate runs with: the locked
\* picking priorities and strategies keep their released values, through the
\* baseline, every retry and every override (_validate_candidate_batch).
LocksKept ==
  \A i \in DOMAIN accepted :
    /\ \A l \in ctx.lines \cap ctx.lockedStrategy :
         Strategy(ctx, accepted[i], l) = ctx.strategy[l]
    /\ \A l \in ctx.lines \cap ctx.lockedPriority :
         Priority(ctx, accepted[i], l) = ctx.priority[l]
    /\ ctx.lockMode # None => Mode(ctx, accepted[i]) = ctx.lockMode

\* The simulator is told a mode, the lines a policy: no accepted candidate
\* says one thing to the simulator and another to a line, and no two
\* candidates of a batch are the same experiment.
BatchSound ==
  \A i \in DOMAIN accepted :
    /\ StrategyOf(Mode(ctx, accepted[i])) # None =>
         \A l \in ctx.lines :
           Strategy(ctx, accepted[i], l) = StrategyOf(Mode(ctx, accepted[i]))
    /\ \A j \in DOMAIN accepted \ {i} :
         Fingerprint(ctx, accepted[i]) # Fingerprint(ctx, accepted[j])

\* A wanted tool that had not been picked before.
FirstPick(picks, j) ==
  /\ picks[j].wanted
  /\ \A k \in 1..(j - 1) :
       ~(picks[k].batch = picks[j].batch /\ picks[k].wanted /\ picks[k].tool = picks[j].tool)

\* A winner really did what it was selected for: it finished, every line in
\* scope left a KPI row at or above its target, no wanted tool waited behind
\* an unwanted one where the run recorded that rule (picking a tool again
\* does not count), no table was refilled early, some placement was checked
\* and every checked one was right (_storage_rate passes over the others);
\* a line that missed its own success flag is left to the operator.
WinnerComplied ==
  winner # None =>
    LET db == runs[winner].db
    IN /\ db.file = "OPEN" /\ db.status = "COMPLETED"
       /\ ctx.scope \subseteq DOMAIN db.kpis
       /\ \E e \in db.tools : e.correct = TRUE
       /\ \A e \in db.tools : e.placed => e.correct # FALSE
       /\ \A l \in ctx.scope :
            /\ l \in TargetLines(ctx) => db.kpis[l].rate >= ctx.minRate[l]
            /\ db.kpis[l].policy = "REQUIRED_FIRST" =>
                 \A j \in DOMAIN db.picks[l] : \A i \in 1..(j - 1) :
                   FirstPick(db.picks[l], j) /\ db.picks[l][i].batch = db.picks[l][j].batch
                     => db.picks[l][i].wanted
            /\ \A b \in db.batches[l] : b.violation => b.picked >= b.tools
            /\ db.kpis[l].success \/ \A log \in Logs : AdviceLater(winner, log).needsAck

\* POST /deployment/simulated-deploy computes the evidence again, without the
\* output of the host and whatever the seed database says by then: it never
\* turns down the run the selection offered.
WinnerDeployable ==
  winner # None =>
    \A log \in Logs :
      \/ AdviceLater(winner, log).recommended
      \/ AdviceLater(winner, log).allowed /\ AdviceLater(winner, log).needsAck

\* A run nothing can be said against: no row says that the picking rule of
\* its line was not in force.
CleanRun(i) ==
  LET db == runs[i].db
  IN /\ db.file = "OPEN" /\ db.status = "COMPLETED" /\ db.tabled
     /\ ctx.scope = DOMAIN db.kpis /\ TargetLines(ctx) # {} /\ db.tools # {}
     /\ \A e \in db.tools : e.placed /\ e.correct = TRUE
     /\ \A l \in ctx.scope :
          /\ db.kpis[l].success
          /\ db.kpis[l].policy = "NONE" => Priority(ctx, accepted[i], l) = "NONE"
          /\ ctx.minRate[l] # None => /\ db.kpis[l].rate # None
                                     /\ db.kpis[l].rate >= ctx.minRate[l]
                                     /\ Timing(db, l).rate # None
                                     /\ Timing(db, l).rate >= ctx.minRate[l]
          /\ ctx.maxDown[l] # None => /\ db.kpis[l].down # None
                                     /\ db.kpis[l].down <= ctx.maxDown[l]
          /\ db.picks[l] # <<>>
          /\ \A j \in DOMAIN db.picks[l] : \A i2 \in 1..(j - 1) :
               db.picks[l][j].wanted => db.picks[l][i2].wanted
          /\ \A b \in db.batches[l] : ~b.violation

\* A clean run is never lost to the ranking: the batch ends with a winner
\* whose attainment is at least that of every clean run, whatever failed
\* before or after it.
CleanRunWins ==
  \A i \in Simulated :
    CleanRun(i) /\ phase \notin {"GENERATING", "SIMULATING"} =>
      /\ phase = "SELECTED"
      /\ runs[winner].attainment >= runs[i].attainment
===============================================================================
