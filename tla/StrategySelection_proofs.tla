----------------------- MODULE StrategySelection_proofs -----------------------
(***************************************************************************)
(* Proofs about StrategySelection for any contexts, proposals, result      *)
(* databases and logs: what a candidate may be, that the run the   *)
(* batch offers kept the rules and can be deployed, and that a clean run is *)
(* never lost.  Of the data only what the assumptions of StrategySelection *)
(* say is used: targets and rates are natural numbers or absent, and the   *)
(* picks of a line are a sequence.                                         *)
(*   CandidatesInv  the accepted candidates passed the validation          *)
(*   RunsInv        every outcome was measured from the database of its run *)
(*   RankedInv      a batch that is over was ranked                        *)
(***************************************************************************)
EXTENDS StrategySelection, SequenceTheorems, FiniteSetTheorems, WellFoundedInduction, TLAPS

-------------------------------------------------------------------------------
(***************************************************************************)
(* Sequences that grow by one.                                             *)
(***************************************************************************)

Elements(s) == {s[i] : i \in DOMAIN s}

LEMMA Appended ==
  ASSUME NEW s, s \in Seq(Elements(s)), NEW e
  PROVE  /\ Append(s, e) \in Seq(Elements(Append(s, e)))
         /\ Len(s) \in Nat /\ DOMAIN s = 1 .. Len(s)
         /\ DOMAIN Append(s, e) = 1 .. Len(s) + 1
         /\ \A i \in DOMAIN s : Append(s, e)[i] = s[i]
         /\ Append(s, e)[Len(s) + 1] = e
  <1> DEFINE T == Elements(s) \cup {e}
  <1>1. s \in Seq(T)
    BY SeqMonotonic
  <1>2. Len(s) \in Nat /\ DOMAIN s = 1 .. Len(s)
    BY <1>1
  <1>3. /\ Append(s, e) \in Seq(T) /\ Len(Append(s, e)) = Len(s) + 1
        /\ \A i \in 1 .. Len(s) : Append(s, e)[i] = s[i]
        /\ Append(s, e)[Len(s) + 1] = e
    BY <1>1, AppendProperties
  <1>4. DOMAIN Append(s, e) = 1 .. Len(s) + 1
    BY <1>2, <1>3
  <1>5. Elements(Append(s, e)) = T
    BY <1>2, <1>3, <1>4 DEF Elements
  <1> QED
    BY <1>2, <1>3, <1>4, <1>5

LEMMA Singleton ==
  ASSUME NEW e
  PROVE  <<e>> \in Seq(Elements(<<e>>)) /\ DOMAIN <<e>> = {1} /\ <<e>>[1] = e
BY DEF Elements

-------------------------------------------------------------------------------
(***************************************************************************)
(* The candidates.                                                         *)
(***************************************************************************)

\* What _validate_candidate_batch establishes for one candidate ...
Sound(x, c) ==
  /\ KeepsLocks(x, c)
  /\ StrategyOf(Mode(x, c)) # None =>
       \A l \in x.lines : Strategy(x, c, l) = StrategyOf(Mode(x, c))

\* ... and for two of them.
Distinct(x, s) ==
  \A i, j \in DOMAIN s : i # j => Fingerprint(x, s[i]) # Fingerprint(x, s[j])

\* The baseline that could be built keeps the locks, and follows the mode that
\* is locked or deployed.
LEMMA BaselineSound ==
  ASSUME NEW x, ~BaselineConflicts(x)
  PROVE  Sound(x, OperatorFaithfulBaseline(x))
  <1> DEFINE c == OperatorFaithfulBaseline(x)
             wanted == StrategyOf(Mode(x, [mode |-> None]))
             changed == {l \in x.lines : wanted # None /\ x.strategy[l] # wanted}
  <1>1. /\ c.mode = None /\ DOMAIN c.priority = {} /\ DOMAIN c.strategy = changed
        /\ \A l \in changed : c.strategy[l] = wanted
    BY DEF OperatorFaithfulBaseline
  <1>2. \A l \in changed : l \notin x.lockedStrategy
    BY DEF BaselineConflicts
  <1>3. Mode(x, c) = Mode(x, [mode |-> None])
    BY <1>1 DEF Mode
  <1>4. KeepsLocks(x, c)
    BY <1>1, <1>2 DEF KeepsLocks
  <1>5. wanted # None => \A l \in x.lines : Strategy(x, c, l) = wanted
    BY <1>1 DEF Strategy
  <1> QED
    BY <1>3, <1>4, <1>5 DEF Sound

CandidatesInv ==
  /\ ctx \in Contexts
  /\ phase = "NEW" => accepted = <<>>
  /\ accepted \in Seq(Elements(accepted))
  /\ \A i \in DOMAIN accepted : Sound(ctx, accepted[i])
  /\ Distinct(ctx, accepted)

LEMMA InitCandidates == Init => CandidatesInv
  <1>1. Init => accepted = <<>> /\ ctx \in Contexts
    BY DEF Init
  <1>2. <<>> \in Seq(Elements(<<>>)) /\ DOMAIN <<>> = {}
    BY EmptySeq
  <1> QED
    BY <1>1, <1>2 DEF CandidatesInv, Distinct

LEMMA NextCandidates ==
  ASSUME CandidatesInv, [Next]_vars
  PROVE  CandidatesInv'
  <1>0. phase' = "NEW" => accepted' = <<>>
    <2>1. phase' = "NEW" => phase = "NEW" /\ accepted' = accepted
      BY DEF Next, vars, StartBatch, ConsiderProposal, EndAttempt, RunCandidate, CandidateError,
             SelectWinner, FinalStatus
    <2> QED
      BY <2>1 DEF CandidatesInv
  <1>1. CASE UNCHANGED <<ctx, accepted>>
    BY <1>0, <1>1 DEF CandidatesInv
  <1>2. CASE StartBatch /\ accepted' # accepted
    <2>1. ~BaselineConflicts(ctx) /\ accepted' = <<OperatorFaithfulBaseline(ctx)>> /\ ctx' = ctx
      BY <1>2 DEF StartBatch
    <2>2. Sound(ctx, OperatorFaithfulBaseline(ctx))
      BY <2>1, BaselineSound
    <2> QED
      BY <1>0, <2>1, <2>2, Singleton DEF CandidatesInv, Distinct
  <1>3. ASSUME NEW c \in Proposals, ConsiderProposal(c)
        PROVE  CandidatesInv'
    <2>1. accepted' = Append(accepted, c) /\ ctx' = ctx /\ ValidNext(ctx, accepted, c)
      BY <1>3 DEF ConsiderProposal
    <2>2. /\ accepted' \in Seq(Elements(accepted'))
          /\ Len(accepted) \in Nat /\ DOMAIN accepted = 1 .. Len(accepted)
          /\ DOMAIN accepted' = 1 .. Len(accepted) + 1
          /\ \A i \in DOMAIN accepted : accepted'[i] = accepted[i]
          /\ accepted'[Len(accepted) + 1] = c
      BY <2>1, Appended DEF CandidatesInv
    <2>3. \A i \in DOMAIN accepted' : i \in DOMAIN accepted \/ i = Len(accepted) + 1
      BY <2>2
    <2>4. /\ Sound(ctx, c)
          /\ \A i \in DOMAIN accepted : Fingerprint(ctx, accepted[i]) # Fingerprint(ctx, c)
      BY <2>1 DEF ValidNext, Sound
    <2>5. \A i \in DOMAIN accepted' : Sound(ctx, accepted'[i])
      BY <2>2, <2>3, <2>4 DEF CandidatesInv
    <2>6. Distinct(ctx, accepted')
      BY <2>2, <2>3, <2>4 DEF CandidatesInv, Distinct
    <2> QED
      BY <1>0, <2>1, <2>2, <2>5, <2>6 DEF CandidatesInv
  <1> QED
    BY <1>1, <1>2, <1>3 DEF Next, vars, StartBatch, EndAttempt, RunCandidate, CandidateError,
                            SelectWinner

THEOREM CandidatesHold == Spec => []CandidatesInv
BY InitCandidates, NextCandidates, PTL DEF Spec

\* Locked picking priorities, strategies and modes keep their released values
\* in every candidate, whatever the model proposes and however often it is asked.
THEOREM OperatorLocksAreKept == Spec => []LocksKept
  <1>1. CandidatesInv => LocksKept
    BY DEF CandidatesInv, Sound, KeepsLocks, LocksKept, Strategy, Priority, Mode
  <1> QED
    BY <1>1, CandidatesHold, PTL

\* The mode of a candidate and the strategies of its lines agree, and no two
\* candidates of a batch are the same strategy.
THEOREM BatchesAreSound == Spec => []BatchSound
  <1>1. CandidatesInv => BatchSound
    BY DEF CandidatesInv, Sound, Distinct, BatchSound
  <1> QED
    BY <1>1, CandidatesHold, PTL

-------------------------------------------------------------------------------
(***************************************************************************)
(* The winner.                                                             *)
(***************************************************************************)

\* A run that was evaluated is one of an accepted candidate, was completed,
\* and was held against the evidence the worker built for it.
Evaluated(x, c, outcome) ==
  outcome.status = "EVALUATED" =>
    /\ outcome.db \in Databases
    /\ SimulationCompleted(x, outcome.db)
    /\ outcome.attainment = Attainment(x, ReadSimulationResults(outcome.db))
    /\ \E log \in Logs :
         outcome.reasons = BlockingReasons(x, ReadSimulationResults(outcome.db),
                                           EvidenceOf(x, c, outcome.db, log))

RunsInv ==
  /\ runs \in Seq(Elements(runs))
  /\ \A i \in DOMAIN runs : i \in DOMAIN accepted /\ Evaluated(ctx, accepted[i], runs[i])
  /\ winner # None => winner \in DOMAIN runs /\ Eligible(winner)

LEMMA InitRuns == Init => RunsInv
  <1>1. Init => runs = <<>> /\ winner = None
    BY DEF Init
  <1>2. <<>> \in Seq(Elements(<<>>)) /\ DOMAIN <<>> = {}
    BY EmptySeq
  <1> QED
    BY <1>1, <1>2 DEF RunsInv

\* One outcome more.
LEMMA OutcomeAdded ==
  ASSUME CandidatesInv, RunsInv, NEW outcome,
         Len(runs) < Len(accepted), runs' = Append(runs, outcome),
         Evaluated(ctx, accepted[Len(runs) + 1], outcome),
         UNCHANGED <<ctx, accepted, winner>>
  PROVE  RunsInv'
  <1>1. /\ runs' \in Seq(Elements(runs'))
        /\ Len(runs) \in Nat /\ DOMAIN runs = 1 .. Len(runs)
        /\ DOMAIN runs' = 1 .. Len(runs) + 1
        /\ \A i \in DOMAIN runs : runs'[i] = runs[i]
        /\ runs'[Len(runs) + 1] = outcome
    BY Appended DEF RunsInv
  <1>2. Len(accepted) \in Nat /\ DOMAIN accepted = 1 .. Len(accepted)
    BY DEF CandidatesInv
  <1>3. \A i \in DOMAIN runs' : i \in DOMAIN runs \/ i = Len(runs) + 1
    BY <1>1
  <1>4. Len(runs) + 1 \in DOMAIN accepted
    BY <1>1, <1>2
  <1>5. \A i \in DOMAIN runs' : i \in DOMAIN accepted /\ Evaluated(ctx, accepted[i], runs'[i])
    BY <1>1, <1>3, <1>4 DEF RunsInv
  <1>6. winner # None => winner \in DOMAIN runs' /\ Eligible(winner)'
    BY <1>1 DEF RunsInv, Eligible
  <1> QED
    BY <1>1, <1>5, <1>6 DEF RunsInv

LEMMA NextRuns ==
  ASSUME CandidatesInv, RunsInv, [Next]_vars
  PROVE  RunsInv'
  <1>1. CASE UNCHANGED <<ctx, accepted, runs, winner>>
    BY <1>1 DEF RunsInv, Eligible
  <1>2. CASE StartBatch
    <2>1. CASE accepted' = accepted
      BY <1>2, <2>1, <1>1 DEF StartBatch
    <2>2. CASE accepted = <<>>
      <3>1. DOMAIN runs = {}
        BY <2>2 DEF RunsInv
      <3>2. UNCHANGED <<ctx, runs, winner>>
        BY <1>2 DEF StartBatch
      <3> QED
        BY <3>1, <3>2 DEF RunsInv, Eligible
    <2> QED
      BY <1>2, <2>1, <2>2 DEF StartBatch, CandidatesInv
  <1>3. ASSUME NEW c \in Proposals, ConsiderProposal(c)
        PROVE  RunsInv'
    <2>1. accepted' = Append(accepted, c) /\ UNCHANGED <<ctx, runs, winner>>
      BY <1>3 DEF ConsiderProposal
    <2>2. \A i \in DOMAIN accepted : i \in DOMAIN accepted' /\ accepted'[i] = accepted[i]
      BY <2>1, Appended DEF CandidatesInv
    <2> QED
      BY <2>1, <2>2 DEF RunsInv, Eligible
  <1>4. ASSUME NEW db \in Databases, NEW log \in Logs, RunCandidate(db, log)
        PROVE  RunsInv'
    <2> DEFINE c == accepted[Len(runs) + 1]
               m == CandidateMeasurements(ctx, c, db, log)
               outcome == IF SimulationCompleted(ctx, db)
                          THEN [status |-> "EVALUATED", db |-> db, reasons |-> m.reasons,
                                attainment |-> m.attainment, seconds |-> m.seconds]
                          ELSE [status |-> "FAILED", db |-> db,
                                reasons |-> {"SIMULATION_NOT_COMPLETED"},
                                attainment |-> None, seconds |-> None]
    <2>1. /\ Len(runs) < Len(accepted) /\ runs' = Append(runs, outcome)
          /\ UNCHANGED <<ctx, accepted, winner>>
      BY <1>4 DEF RunCandidate
    <2>2. /\ m.reasons =
               BlockingReasons(ctx, ReadSimulationResults(db), EvidenceOf(ctx, c, db, log))
          /\ m.attainment = Attainment(ctx, ReadSimulationResults(db))
      BY DEF CandidateMeasurements
    <2>3. Evaluated(ctx, c, outcome)
      <3> HIDE DEF m
      <3> QED
        BY <2>2 DEF Evaluated
    <2> HIDE DEF outcome
    <2> QED
      BY <2>1, <2>3, OutcomeAdded
  <1>5. CASE CandidateError
    <2> DEFINE outcome == [status |-> "SYSTEM_ERROR", db |-> None, reasons |-> {"SYSTEM_ERROR"},
                           attainment |-> None, seconds |-> None]
    <2>1. /\ Len(runs) < Len(accepted) /\ runs' = Append(runs, outcome)
          /\ UNCHANGED <<ctx, accepted, winner>>
      BY <1>5 DEF CandidateError
    <2>2. Evaluated(ctx, accepted[Len(runs) + 1], outcome)
      BY DEF Evaluated
    <2> HIDE DEF outcome
    <2> QED
      BY <2>1, <2>2, OutcomeAdded
  <1>6. CASE SelectWinner
    <2>1. PICK w \in DOMAIN runs \cup {None} :
            /\ RankCandidateRuns(w) /\ winner' = w
            /\ UNCHANGED <<ctx, accepted, runs>>
      BY <1>6 DEF SelectWinner
    <2>2. w # None => w \in DOMAIN runs /\ Eligible(w)
      BY <2>1 DEF RankCandidateRuns
    <2> QED
      BY <2>1, <2>2 DEF RunsInv, Eligible
  <1> QED
    BY <1>1, <1>2, <1>3, <1>4, <1>5, <1>6 DEF Next, vars, EndAttempt

THEOREM RunsHold == Spec => []RunsInv
BY InitCandidates, NextCandidates, InitRuns, NextRuns, PTL DEF Spec

\* The tier of a run that left log.
TierOf(art, spec, trt, log) ==
  RiskTier(art, FailedChecks(art, spec, trt), RunFailed(art, spec, log),
           OverallResult(art, spec, trt, FailedChecks(art, spec, trt),
                         RunFailed(art, spec, log)))

\* Without the output of the host the evidence of a finished run is no worse.
LEMMA StillAllowed ==
  ASSUME NEW art, NEW spec, NEW trt, NEW log, NEW later, art.status = "COMPLETED", art.code = None, later.host = {},
         TierOf(art, spec, trt, log) # "BLOCKING"
  PROVE  TierOf(art, spec, trt, later) # "BLOCKING"
  <1> DEFINE block(h) == \/ \E c \in FailedChecks(art, spec, trt) : Blocking(c.id)
                         \/ RunFailed(art, spec, h) /\ DOMAIN art.kpis = {}
  <1>1. ~FailureSummary(art, log) /\ ~FailureSummary(art, later)
    BY DEF FailureSummary
  <1>2. ClassificationFailure(art, spec, later) => ClassificationFailure(art, spec, log)
    BY DEF ClassificationFailure
  <1>3. RunFailed(art, spec, later) => RunFailed(art, spec, log)
    BY <1>1, <1>2 DEF RunFailed
  <1>4. ~block(log)
    BY DEF TierOf, RiskTier
  <1>5. ~block(later)
    BY <1>3, <1>4
  <1> QED
    BY <1>5 DEF TierOf, RiskTier

LEMMA TierNamed ==
  ASSUME NEW art, NEW spec, NEW trt, NEW log
  PROVE  TierOf(art, spec, trt, log) \in {"BLOCKING", "OPERATOR_ACK_REQUIRED", "ATTENTION", "INFO"}
BY DEF TierOf, RiskTier

\* POST /deployment/simulated-deploy, which builds the evidence anew, never
\* turns down the run that the batch selected.
THEOREM WinnersAreDeployable == Spec => []WinnerDeployable
  <1>1. RunsInv => WinnerDeployable
    <2> SUFFICES ASSUME RunsInv, winner # None, NEW any \in Logs
                 PROVE  \/ AdviceLater(winner, any).recommended
                        \/ /\ AdviceLater(winner, any).allowed
                           /\ AdviceLater(winner, any).needsAck
      BY DEF WinnerDeployable
    <2> DEFINE db   == runs[winner].db
               art  == ReadSimulationResults(db)
               spec == ScenarioOf(ctx, accepted[winner])
               trt  == TargetsOf(ctx)
               later == [seed |-> any.seed, host |-> {}]
    <2>1. PICK log \in Logs :
            /\ SimulationCompleted(ctx, db)
            /\ BlockingReasons(ctx, art, EvidenceOf(ctx, accepted[winner], db, log)) = {}
      BY DEF RunsInv, Evaluated, Eligible
    <2>2. /\ EvidenceOf(ctx, accepted[winner], db, log).allowed
          /\ art.status = "COMPLETED"
      BY <2>1 DEF BlockingReasons
    <2>3. art.code = None
      BY <2>1 DEF SimulationCompleted
    <2>4. \A h : /\ EvidenceOf(ctx, accepted[winner], db, h).allowed =
                     (TierOf(art, spec, trt, h) # "BLOCKING" /\ ~spec.dryRun)
                 /\ EvidenceOf(ctx, accepted[winner], db, h).recommended =
                     (TierOf(art, spec, trt, h) \in {"INFO", "ATTENTION"} /\ ~spec.dryRun)
                 /\ EvidenceOf(ctx, accepted[winner], db, h).needsAck =
                     (TierOf(art, spec, trt, h) = "OPERATOR_ACK_REQUIRED" /\ ~spec.dryRun)
      BY DEF EvidenceOf, BuildEvidenceSummary, Conclusions, TierOf
    <2> HIDE DEF art, spec, trt, db, later
    <2>5. TierOf(art, spec, trt, log) # "BLOCKING" /\ ~spec.dryRun
      BY <2>2, <2>4
    <2>6. TierOf(art, spec, trt, later) # "BLOCKING"
      BY <2>2, <2>3, <2>5, StillAllowed DEF later
    <2>7. TierOf(art, spec, trt, later) \in {"OPERATOR_ACK_REQUIRED", "ATTENTION", "INFO"}
      BY <2>6, TierNamed
    <2> QED
      BY <2>4, <2>5, <2>7 DEF AdviceLater, db, later
  <1> QED
    BY <1>1, RunsHold, PTL

-------------------------------------------------------------------------------
(***************************************************************************)
(* What the winner was held against.                                       *)
(***************************************************************************)

\* A run artifact is completed only when the database of the run was read
\* and says so; then it is that database.
Reads(art, db) ==
  /\ art.code = None /\ art.root = {} /\ art.message = {}
  /\ art.kpis = db.kpis /\ art.picks = db.picks /\ art.batches = db.batches
  /\ art.tools = db.tools /\ art.sorting = db.sorting /\ art.tabled = db.tabled

LEMMA CompletedArtifact ==
  ASSUME NEW db
  PROVE  /\ ReadSimulationResults(db).status = "COMPLETED"
              => db.file = "OPEN" /\ db.status = "COMPLETED"
         /\ db.file = "OPEN" /\ db.status = "COMPLETED"
              => /\ ReadSimulationResults(db).status = "COMPLETED"
                 /\ Reads(ReadSimulationResults(db), db)
BY DEF ReadSimulationResults, Unreadable, Reads

LEMMA NoReasons ==
  ASSUME NEW x, NEW art, NEW ev, BlockingReasons(x, art, ev) = {}
  PROVE  /\ art.status = "COMPLETED" /\ ev.allowed
         /\ StorageVerified(art) # None /\ StorageVerified(art) # FALSE
         /\ ThroughputReasons(x, art) = {} /\ ComplianceReasons(art, ev) = {}
  <1>1. art.status = "COMPLETED" /\ ev.allowed
    BY DEF BlockingReasons
  <1>2. StorageVerified(art) # None /\ StorageVerified(art) # FALSE
    <2> DEFINE v == StorageVerified(art)
    <2>1. (CASE v = None -> {"PLACEMENT_EVIDENCE_MISSING"}
             [] v = FALSE -> {"PLACEMENT_VERIFICATION_FAILED"}
             [] OTHER -> {}) = {}
      BY DEF BlockingReasons
    <2> HIDE DEF v
    <2>2. v # None /\ v # FALSE
      BY <2>1
    <2> QED
      BY <2>2 DEF v
  <1>3. ThroughputReasons(x, art) = {} /\ ComplianceReasons(art, ev) = {}
    BY DEF BlockingReasons
  <1> QED
    BY <1>1, <1>2, <1>3

\* Some placement of a verified run was found right, and none wrong.
LEMMA PlacedWell ==
  ASSUME NEW art, StorageVerified(art) # None, StorageVerified(art) # FALSE,
         \A e \in art.tools : e.correct \in BOOLEAN \cup {None}
  PROVE  /\ \E e \in art.tools : e.correct = TRUE
         /\ \A e \in art.tools : e.placed => e.correct # FALSE
  <1> DEFINE placed == Determinate(art.tools)
  <1>1. placed # {} /\ StorageVerified(art) = (\A e \in placed : e.correct)
    BY DEF StorageVerified
  <1>2. \A e \in placed : e \in art.tools /\ e.correct # None /\ e.correct
    BY <1>1 DEF Determinate
  <1>3. \A e \in art.tools : e.placed /\ e.correct # None => e \in placed
    BY DEF Determinate
  <1>4. None # FALSE
    BY NoneAssumption
  <1> HIDE DEF placed
  <1>5. \E e \in art.tools : e.correct = TRUE
    BY <1>1, <1>2
  <1> QED
    BY <1>2, <1>3, <1>4, <1>5

\* Nothing blocks a run that may be deployed.
LEMMA AllowedMeansUnblocked ==
  ASSUME NEW db, NEW spec, NEW trt, NEW log,
         BuildEvidenceSummary(db, spec, trt, log).allowed
  PROVE  /\ \A c \in FailedChecks(ReadSimulationResults(db), spec, trt) : ~Blocking(c.id)
         /\ TierOf(ReadSimulationResults(db), spec, trt, log) # "BLOCKING"
         /\ ~spec.dryRun
  <1> DEFINE art == ReadSimulationResults(db)
  <1>1. TierOf(art, spec, trt, log) # "BLOCKING" /\ ~spec.dryRun
    BY DEF BuildEvidenceSummary, Conclusions, TierOf
  <1> HIDE DEF art
  <1>2. \A c \in FailedChecks(art, spec, trt) : ~Blocking(c.id)
    BY <1>1 DEF TierOf, RiskTier
  <1> QED
    BY <1>1, <1>2 DEF art

\* A check is failed by a line that has a row, or for want of one.
LEMMA FailedCheckOfLine ==
  ASSUME NEW art, NEW spec, NEW trt
  PROVE  /\ \A l \in DOMAIN art.kpis : \A id \in LineChecks(art, spec, trt, l) :
              [line |-> l, id |-> id] \in FailedChecks(art, spec, trt)
         /\ \A l \in ExpectedLines(spec, trt) \ DOMAIN art.kpis :
              [line |-> l, id |-> MissingLineCheck(art)] \in FailedChecks(art, spec, trt)
         /\ \A c \in FailedChecks(art, spec, trt) :
              \/ c.line \in DOMAIN art.kpis /\ c.id \in LineChecks(art, spec, trt, c.line)
              \/ c.line \in ExpectedLines(spec, trt) \ DOMAIN art.kpis
  <1> DEFINE check(l, id) == [line |-> l, id |-> id]
             found(l) == {check(l, id) : id \in LineChecks(art, spec, trt, l)}
             measured == UNION {found(l) : l \in DOMAIN art.kpis}
             unmeasured == {check(l, MissingLineCheck(art)) :
                              l \in ExpectedLines(spec, trt) \ DOMAIN art.kpis}
  <1>1. FailedChecks(art, spec, trt) = measured \cup unmeasured
    BY DEF FailedChecks
  <1>2. \A l, id : check(l, id).line = l /\ check(l, id).id = id
    OBVIOUS
  <1> HIDE DEF check
  <1>3. ASSUME NEW l \in DOMAIN art.kpis, NEW id \in LineChecks(art, spec, trt, l)
        PROVE  check(l, id) \in FailedChecks(art, spec, trt)
    <2>1. check(l, id) \in found(l)
      OBVIOUS
    <2> HIDE DEF found
    <2>2. check(l, id) \in measured
      BY <2>1
    <2> HIDE DEF measured, unmeasured
    <2> QED
      BY <1>1, <2>2
  <1>4. ASSUME NEW l \in ExpectedLines(spec, trt) \ DOMAIN art.kpis
        PROVE  check(l, MissingLineCheck(art)) \in FailedChecks(art, spec, trt)
    <2>1. check(l, MissingLineCheck(art)) \in unmeasured
      OBVIOUS
    <2> HIDE DEF measured, unmeasured
    <2> QED
      BY <1>1, <2>1
  <1>5. ASSUME NEW c \in FailedChecks(art, spec, trt)
        PROVE  \/ c.line \in DOMAIN art.kpis /\ c.id \in LineChecks(art, spec, trt, c.line)
               \/ c.line \in ExpectedLines(spec, trt) \ DOMAIN art.kpis
    <2>1. CASE c \in measured
      BY <1>2, <2>1
    <2>2. CASE c \in unmeasured
      BY <1>2, <2>2
    <2> HIDE DEF measured, unmeasured
    <2> QED
      BY <1>1, <2>1, <2>2
  <1> QED
    BY <1>3, <1>4, <1>5 DEF check

\* Every line in scope of such a run has a row.
LEMMA RowsComplete ==
  ASSUME NEW art, NEW spec, NEW trt,
         \A c \in FailedChecks(art, spec, trt) : ~Blocking(c.id)
  PROVE  spec.lines \subseteq DOMAIN art.kpis
  <1> SUFFICES ASSUME NEW l \in spec.lines, l \notin DOMAIN art.kpis
               PROVE  FALSE
    OBVIOUS
  <1>1. l \in ExpectedLines(spec, trt) \ DOMAIN art.kpis
    BY DEF ExpectedLines
  <1>2. PICK c \in FailedChecks(art, spec, trt) : c.id = MissingLineCheck(art)
    <2>1. [line |-> l, id |-> MissingLineCheck(art)] \in FailedChecks(art, spec, trt)
      BY <1>1, FailedCheckOfLine
    <2>2. [line |-> l, id |-> MissingLineCheck(art)].id = MissingLineCheck(art)
      OBVIOUS
    <2> QED
      BY <2>1, <2>2
  <1>3. Blocking(MissingLineCheck(art))
    BY DEF Blocking, MissingLineCheck
  <1> QED
    BY <1>2, <1>3

\* The verdicts on a line that leave no compliance reason.
LEMMA VerdictsOfLine ==
  ASSUME NEW db, NEW spec, NEW trt, NEW log, NEW l \in DOMAIN ReadSimulationResults(db).kpis,
         ComplianceReasons(ReadSimulationResults(db),
                           BuildEvidenceSummary(db, spec, trt, log)) = {}
  PROVE  /\ PriorityFailureChecks(ReadSimulationResults(db), spec, l) = {}
         /\ BatchGatingChecks(ReadSimulationResults(db), l) = {}
  <1> DEFINE art == ReadSimulationResults(db)
             ev == BuildEvidenceSummary(db, spec, trt, log)
             judged == {k \in DOMAIN ev.lines : ev.lines[k].priority # None}
  <1>1. ev.lines = LineEvidence(art, spec, trt)
    BY DEF BuildEvidenceSummary, Conclusions
  <1> HIDE DEF art, ev
  <1>2. l \in DOMAIN art.kpis
    BY DEF art
  <1>3. l \in DOMAIN ev.lines /\ ev.lines[l] = MeasuredLine(art, spec, trt, l)
    BY <1>1, <1>2 DEF LineEvidence
  <1>4. /\ ev.lines[l].priority = (PriorityFailureChecks(art, spec, l) = {})
        /\ ev.lines[l].gating = (BatchGatingChecks(art, l) = {})
    BY <1>3 DEF MeasuredLine
  <1>5. l \in judged
    BY <1>3, <1>4, NoneAssumption
  <1>6. ComplianceReasons(art, ev) = {}
    BY DEF art, ev
  <1>7. ev.lines[l].priority /\ ev.lines[l].gating
    BY <1>5, <1>6 DEF ComplianceReasons
  <1> QED
    BY <1>4, <1>7 DEF art

\* Passing the required-first rule: the wanted tools of a table batch were
\* picked before the first unwanted one.
LEMMA WantedFirst ==
  ASSUME NEW picks, RequiredFirst(picks) = "PASS",
         NEW j \in DOMAIN picks, NEW i \in DOMAIN picks,
         i < j, FirstPick(picks, j), picks[i].batch = picks[j].batch,
         DOMAIN picks \subseteq Nat
  PROVE  picks[i].wanted
  <1> DEFINE left(k) == {picks[m].tool : m \in {n \in DOMAIN picks :
                            picks[n].batch = picks[k].batch /\ picks[n].wanted}}
                        \ {picks[m].tool : m \in {n \in 1..(k - 1) :
                            picks[n].batch = picks[k].batch /\ picks[n].wanted}}
  <1> SUFFICES ASSUME ~picks[i].wanted
               PROVE  FALSE
    OBVIOUS
  <1>1. left(i) = {}
    BY DEF RequiredFirst
  <1>2. picks[j].tool \in {picks[m].tool : m \in {n \in DOMAIN picks :
                             picks[n].batch = picks[i].batch /\ picks[n].wanted}}
    BY DEF FirstPick
  <1>3. PICK m \in 1..(i - 1) : /\ picks[m].batch = picks[i].batch /\ picks[m].wanted
                                /\ picks[m].tool = picks[j].tool
    BY <1>1, <1>2
  <1>4. m \in 1..(j - 1)
    BY <1>3
  <1> QED
    BY <1>3, <1>4 DEF FirstPick

\* A violation of the gating rule that does not count was cleared.
LEMMA GatingRecovered ==
  ASSUME NEW art, NEW l, BatchGatingChecks(art, l) = {}
  PROVE  \A b \in art.batches[l] : b.violation => b.picked >= b.tools
BY DEF BatchGatingChecks, RealGatingViolation

\* The winner of a batch finished, reached its targets and kept the rules.
THEOREM WinnersComply == Spec => []WinnerComplied
  <1>1. CandidatesInv /\ RunsInv => WinnerComplied
    <2> SUFFICES ASSUME CandidatesInv, RunsInv, winner # None
                 PROVE  WinnerComplied
      BY DEF WinnerComplied
    <2> DEFINE db   == runs[winner].db
               art  == ReadSimulationResults(db)
               spec == ScenarioOf(ctx, accepted[winner])
               trt  == TargetsOf(ctx)
               ev(h) == EvidenceOf(ctx, accepted[winner], db, h)
    <2>1. PICK log \in Logs :
            /\ db \in Databases
            /\ BlockingReasons(ctx, art, ev(log)) = {}
      BY DEF RunsInv, Evaluated, Eligible
    <2>2. \A h : ev(h) = BuildEvidenceSummary(db, spec, trt, h)
      BY DEF EvidenceOf
    <2>3. /\ art.status = "COMPLETED" /\ ev(log).allowed
          /\ StorageVerified(art) # None /\ StorageVerified(art) # FALSE
          /\ ThroughputReasons(ctx, art) = {} /\ ComplianceReasons(art, ev(log)) = {}
      <3> HIDE DEF art, ev
      <3> QED
        BY <2>1, NoReasons
    <2>4. db.file = "OPEN" /\ db.status = "COMPLETED" /\ Reads(art, db)
      BY <2>3, CompletedArtifact
    <2>5. /\ \A c \in FailedChecks(art, spec, trt) : ~Blocking(c.id)
          /\ TierOf(art, spec, trt, log) # "BLOCKING"
          /\ ~spec.dryRun
      BY <2>2, <2>3, AllowedMeansUnblocked
    <2>6. spec.lines = ctx.scope
      BY DEF ScenarioOf
    <2>7. ctx.scope \subseteq DOMAIN db.kpis
      BY <2>4, <2>5, <2>6, RowsComplete DEF Reads
    <2>8. /\ \E e \in db.tools : e.correct = TRUE
          /\ \A e \in db.tools : e.placed => e.correct # FALSE
      <3>1. \A e \in art.tools : e.correct \in BOOLEAN \cup {None}
        BY <2>1, <2>4, DatabaseAssumption DEF Reads
      <3> HIDE DEF art
      <3>2. art.tools = db.tools
        BY <2>4 DEF Reads
      <3> QED
        BY <2>3, <3>1, <3>2, PlacedWell
    <2>9. \A l \in ctx.scope : /\ PriorityFailureChecks(art, spec, l) = {}
                               /\ BatchGatingChecks(art, l) = {}
      <3> SUFFICES ASSUME NEW l \in ctx.scope
                   PROVE  /\ PriorityFailureChecks(art, spec, l) = {}
                          /\ BatchGatingChecks(art, l) = {}
        OBVIOUS
      <3>1. l \in DOMAIN art.kpis
        BY <2>4, <2>7 DEF Reads
      <3>2. ComplianceReasons(art, BuildEvidenceSummary(db, spec, trt, log)) = {}
        BY <2>2, <2>3
      <3> HIDE DEF db, spec, trt
      <3> QED
        BY <3>1, <3>2, VerdictsOfLine
    <2> HIDE DEF db, art, spec, trt, ev
    <2>10. \A l \in ctx.scope : l \in TargetLines(ctx) => db.kpis[l].rate >= ctx.minRate[l]
      <3> SUFFICES ASSUME NEW l \in TargetLines(ctx)
                   PROVE  db.kpis[l].rate >= ctx.minRate[l]
        OBVIOUS
      <3>1. MeasuredLines(ctx, art) = TargetLines(ctx)
        BY <2>3 DEF ThroughputReasons
      <3>2. ~(art.kpis[l].rate < ctx.minRate[l])
        BY <2>3, <3>1 DEF ThroughputReasons
      <3>3. l \in ctx.scope /\ ctx.minRate[l] \in Nat /\ art.kpis[l].rate # None
        BY <3>1, ContextAssumption DEF CandidatesInv, TargetLines, MeasuredLines
      <3>4. db.kpis[l].rate \in Nat
        BY <2>1, <2>4, <2>7, <3>3, DatabaseAssumption DEF Reads
      <3> QED
        BY <2>4, <3>2, <3>3, <3>4 DEF Reads
    <2>11. ASSUME NEW l \in ctx.scope, db.kpis[l].policy = "REQUIRED_FIRST",
                  NEW j \in DOMAIN db.picks[l], NEW i \in 1..(j - 1),
                  FirstPick(db.picks[l], j), db.picks[l][i].batch = db.picks[l][j].batch
           PROVE  db.picks[l][i].wanted
      <3>1. db.picks[l] \in Seq(Range(db.picks[l]))
        BY <2>1, <2>7, DatabaseAssumption
      <3>2. Len(db.picks[l]) \in Nat /\ DOMAIN db.picks[l] = 1 .. Len(db.picks[l])
        BY <3>1
      <3>3. i \in DOMAIN db.picks[l] /\ i < j /\ DOMAIN db.picks[l] \subseteq Nat
        BY <3>2
      <3>4. PriorityPolicy(art, spec, l) = "REQUIRED_FIRST"
        BY <2>4, <2>11, NoneAssumption DEF PriorityPolicy, Reads
      <3>5. PriorityEnabled(art, spec, l)
        BY <3>4 DEF PriorityEnabled
      <3>6. RequiredFirst(art.picks[l]) = "PASS"
        BY <2>9, <3>4, <3>5 DEF PriorityFailureChecks
      <3> QED
        BY <2>4, <2>11, <3>3, <3>6, WantedFirst DEF Reads
    <2>12. \A l \in ctx.scope : \A b \in db.batches[l] : b.violation => b.picked >= b.tools
      BY <2>4, <2>9, GatingRecovered DEF Reads
    <2>13. ASSUME NEW l \in ctx.scope, ~db.kpis[l].success, NEW any \in Logs
           PROVE  AdviceLater(winner, any).needsAck
      <3> DEFINE later == [seed |-> any.seed, host |-> {}]
      <3>0. later.host = {}
        OBVIOUS
      <3>6. ev(later).needsAck =
              (TierOf(art, spec, trt, later) = "OPERATOR_ACK_REQUIRED" /\ ~spec.dryRun)
        BY <2>2 DEF BuildEvidenceSummary, Conclusions, TierOf, art
      <3>7. AdviceLater(winner, any) = ev(later)
        BY DEF AdviceLater, ev, db
      <3> HIDE DEF later
      <3>1. l \in DOMAIN art.kpis /\ ~art.kpis[l].success
        BY <2>4, <2>7, <2>13 DEF Reads
      <3>2. LineChecks(art, spec, trt, l) # {}
        BY <3>1 DEF LineChecks, WithOwnFlag
      <3>3. FailedChecks(art, spec, trt) # {}
        BY <3>1, <3>2, FailedCheckOfLine
      <3>4. TierOf(art, spec, trt, later) # "BLOCKING"
        BY <2>3, <2>4, <2>5, <3>0, StillAllowed DEF Reads
      <3>5. TierOf(art, spec, trt, later) = "OPERATOR_ACK_REQUIRED"
        BY <3>3, <3>4 DEF TierOf, RiskTier
      <3> QED
        BY <2>5, <3>5, <3>6, <3>7
    <2> QED
      BY <2>4, <2>7, <2>8, <2>10, <2>11, <2>12, <2>13 DEF WinnerComplied, db
  <1> QED
    BY <1>1, CandidatesHold, RunsHold, PTL

-------------------------------------------------------------------------------
(***************************************************************************)
(* A clean run is eligible.                                                *)
(***************************************************************************)

LEMMA TimingRead ==
  ASSUME NEW art, NEW db, Reads(art, db), NEW l
  PROVE  Timing(art, l) = Timing(db, l)
  <1>1. PlacedEvents(art, l) = PlacedEvents(db, l)
    BY DEF Reads, PlacedEvents, ToolsOf
  <1> HIDE DEF PlacedEvents
  <1> QED
    BY <1>1 DEF Timing, Reads

\* Wanted tools before unwanted ones satisfy the required-first rule.
LEMMA OrderedPicksPass ==
  ASSUME NEW picks, picks \in Seq(Range(picks)), picks # <<>>,
         \A j \in DOMAIN picks : \A i \in 1..(j - 1) : picks[j].wanted => picks[i].wanted
  PROVE  RequiredFirst(picks) = "PASS"
  <1> DEFINE tools(S) == {picks[m].tool : m \in S}
             all(k) == {n \in DOMAIN picks : picks[n].batch = picks[k].batch /\ picks[n].wanted}
             before(k) == {n \in 1..(k - 1) : picks[n].batch = picks[k].batch /\ picks[n].wanted}
  <1>1. Len(picks) \in Nat /\ DOMAIN picks = 1 .. Len(picks)
    OBVIOUS
  <1>2. \A i \in DOMAIN picks : ~picks[i].wanted => all(i) \subseteq before(i)
    BY <1>1
  <1>3. \A i \in DOMAIN picks : ~picks[i].wanted => tools(all(i)) \ tools(before(i)) = {}
    BY <1>2
  <1>4. ~\E i \in DOMAIN picks : ~picks[i].wanted /\ tools(all(i)) \ tools(before(i)) # {}
    BY <1>3
  <1> QED
    BY <1>4 DEF RequiredFirst

\* A line of a clean run fails no check that blocks, and leaves the verdicts
\* the ranking asks for.
LEMMA CleanLine ==
  ASSUME CandidatesInv, RunsInv, NEW i \in Simulated, CleanRun(i), NEW l \in ctx.scope
  PROVE  LET art  == ReadSimulationResults(runs[i].db)
             spec == ScenarioOf(ctx, accepted[i])
         IN  /\ PriorityFailureChecks(art, spec, l) = {}
             /\ BatchGatingChecks(art, l) = {}
             /\ \A id \in LineChecks(art, spec, TargetsOf(ctx), l) : ~Blocking(id)
  <1> DEFINE db   == runs[i].db
             art  == ReadSimulationResults(db)
             spec == ScenarioOf(ctx, accepted[i])
             trt  == TargetsOf(ctx)
  <1>1. db \in Databases /\ Reads(art, db)
    BY CompletedArtifact DEF RunsInv, Evaluated, Simulated, CleanRun
  <1>2. /\ l \in DOMAIN db.kpis /\ db.kpis[l].success
        /\ db.kpis[l].policy = "NONE" => Priority(ctx, accepted[i], l) = "NONE"
        /\ ctx.minRate[l] # None => /\ Timing(db, l).rate # None
                                    /\ Timing(db, l).rate >= ctx.minRate[l]
        /\ ctx.maxDown[l] # None => db.kpis[l].down # None /\ db.kpis[l].down <= ctx.maxDown[l]
        /\ db.picks[l] # <<>>
        /\ \A j \in DOMAIN db.picks[l] : \A k \in 1..(j - 1) :
             db.picks[l][j].wanted => db.picks[l][k].wanted
        /\ \A b \in db.batches[l] : ~b.violation
    BY DEF CleanRun
  <1>3. l \in DOMAIN ctx.strategy
    BY ContextAssumption DEF CandidatesInv
  <1>4. /\ spec.policy[l].policy = Priority(ctx, accepted[i], l)
        /\ spec.policy[l].enabled = (Priority(ctx, accepted[i], l) # "NONE")
        /\ spec.policy[l].minRate = ctx.minRate[l] /\ spec.policy[l].maxDown = ctx.maxDown[l]
        /\ trt[l].minRate = ctx.minRate[l] /\ trt[l].maxDown = ctx.maxDown[l]
    BY <1>3 DEF ScenarioOf, TargetsOf
  <1> HIDE DEF db, art, spec, trt
  <1>5. ThroughputPass(art, spec, trt, l)
    BY <1>1, <1>2, <1>4, TimingRead DEF ThroughputPass, AtLeast, Target
  <1>6. DowntimePass(art, spec, trt, l)
    BY <1>1, <1>2, <1>4 DEF DowntimePass, AtMost, Target, Reads
  <1>7. PriorityFailureChecks(art, spec, l) = {}
    <2>1. CASE ~PriorityEnabled(art, spec, l)
      BY <2>1 DEF PriorityFailureChecks
    <2>2. CASE PriorityEnabled(art, spec, l)
      <3>1. PriorityPolicy(art, spec, l) # "NONE"
        BY <1>1, <1>2, <1>4, <2>2 DEF PriorityEnabled, PriorityPolicy, Reads
      <3>2. RequiredFirst(art.picks[l]) = "PASS"
        BY <1>1, <1>2, OrderedPicksPass, DatabaseAssumption DEF Reads
      <3>3. CASE PriorityPolicy(art, spec, l) = "REQUIRED_FIRST"
        BY <2>2, <3>2, <3>3 DEF PriorityFailureChecks
      <3>4. CASE PriorityPolicy(art, spec, l) # "REQUIRED_FIRST"
        BY <2>2, <3>1, <3>4 DEF PriorityFailureChecks
      <3> QED
        BY <3>3, <3>4
    <2> QED
      BY <2>1, <2>2
  <1>8. BatchGatingChecks(art, l) = {}
    BY <1>1, <1>2 DEF BatchGatingChecks, RealGatingViolation, Reads
  <1>9. \A id \in LimitedScopeChecks(art, spec, l) : ~Blocking(id)
    BY DEF LimitedScopeChecks, Blocking
  <1>10. art.kpis[l].success
    BY <1>1, <1>2 DEF Reads
  <1>11. \A id \in LineChecks(art, spec, trt, l) : ~Blocking(id)
    <2>1. ~Blocking("data_quality.timing_inconsistent_with_pick_events")
      BY DEF Blocking
    <2> QED
      BY <1>5, <1>6, <1>7, <1>8, <1>9, <1>10, <2>1 DEF LineChecks, WithOwnFlag
  <1> QED
    BY <1>7, <1>8, <1>11 DEF db, art, spec, trt

LEMMA CleanHasNoReasons ==
  ASSUME CandidatesInv, RunsInv, NEW i \in Simulated, CleanRun(i)
  PROVE  Eligible(i)
  <1> DEFINE db   == runs[i].db
             art  == ReadSimulationResults(db)
             spec == ScenarioOf(ctx, accepted[i])
             trt  == TargetsOf(ctx)
             ev(h) == BuildEvidenceSummary(db, spec, trt, h)
  <1>1. PICK log \in Logs : runs[i].reasons = BlockingReasons(ctx, art, ev(log))
    BY DEF RunsInv, Evaluated, Simulated, EvidenceOf
  <1>2. db \in Databases /\ art.status = "COMPLETED" /\ Reads(art, db)
    BY CompletedArtifact DEF RunsInv, Evaluated, Simulated, CleanRun
  <1>3. /\ db.tabled /\ ctx.scope = DOMAIN db.kpis /\ TargetLines(ctx) # {} /\ db.tools # {}
        /\ \A e \in db.tools : e.placed /\ e.correct = TRUE
        /\ \A l \in ctx.scope : ctx.minRate[l] # None => /\ db.kpis[l].rate # None
                                                        /\ db.kpis[l].rate >= ctx.minRate[l]
    BY DEF CleanRun
  <1>4. \A l \in ctx.scope : /\ PriorityFailureChecks(art, spec, l) = {}
                             /\ BatchGatingChecks(art, l) = {}
                             /\ \A id \in LineChecks(art, spec, trt, l) : ~Blocking(id)
    BY CleanLine
  <1>5. spec.lines = ctx.scope /\ spec.dryRun = FALSE /\ ctx \in Contexts
    BY DEF ScenarioOf, CandidatesInv
  <1>6. ev(log).lines = LineEvidence(art, spec, trt)
    BY DEF BuildEvidenceSummary, Conclusions
  <1>7. ev(log).allowed = (TierOf(art, spec, trt, log) # "BLOCKING" /\ ~spec.dryRun)
    BY DEF BuildEvidenceSummary, Conclusions, TierOf
  <1> DEFINE evidence == ev(log)
  <1> HIDE DEF db, art, spec, trt, ev, evidence
  <1>8. ctx.scope # {} /\ ExpectedLines(spec, trt) = ctx.scope
    BY <1>3, <1>5 DEF ExpectedLines, TargetLines
  <1>9. \A c \in FailedChecks(art, spec, trt) : ~Blocking(c.id)
    BY <1>2, <1>3, <1>4, <1>8, FailedCheckOfLine DEF Reads
  <1>10. ~RunFailed(art, spec, log)
    BY <1>2, <1>3 DEF RunFailed, FailureSummary, ClassificationFailure, Reads
  <1>11. TierOf(art, spec, trt, log) # "BLOCKING"
    BY <1>9, <1>10 DEF TierOf, RiskTier
  <1>12. evidence.allowed
    BY <1>5, <1>7, <1>11 DEF evidence
  <1>13. StorageVerified(art) = TRUE
    BY <1>2, <1>3, NoneAssumption DEF StorageVerified, Determinate, Reads
  <1>14. ThroughputReasons(ctx, art) = {}
    <2>1. \A l \in TargetLines(ctx) :
            /\ l \in ctx.scope /\ ctx.minRate[l] \in Nat
            /\ art.kpis[l].rate \in Nat /\ ~(art.kpis[l].rate < ctx.minRate[l])
      BY <1>2, <1>3, <1>5, ContextAssumption, DatabaseAssumption DEF TargetLines, Reads
    <2>2. MeasuredLines(ctx, art) = TargetLines(ctx)
      BY <1>2, <1>3, <2>1, NoneAssumption DEF MeasuredLines, Reads
    <2> QED
      BY <1>3, <2>1, <2>2 DEF ThroughputReasons
  <1>15. ComplianceReasons(art, evidence) = {}
    <2>1. DOMAIN evidence.lines = ctx.scope
      BY <1>2, <1>3, <1>6, <1>8 DEF LineEvidence, Reads, evidence
    <2>2. \A l \in ctx.scope : evidence.lines[l].priority = TRUE /\ evidence.lines[l].gating = TRUE
      <3> TAKE l \in ctx.scope
      <3>1. l \in DOMAIN art.kpis
        BY <1>2, <1>3 DEF Reads
      <3>2. evidence.lines[l] = MeasuredLine(art, spec, trt, l)
        BY <1>6, <3>1 DEF LineEvidence, evidence
      <3>3. /\ evidence.lines[l].priority = (PriorityFailureChecks(art, spec, l) = {})
            /\ evidence.lines[l].gating = (BatchGatingChecks(art, l) = {})
        BY <3>2 DEF MeasuredLine
      <3>4. PriorityFailureChecks(art, spec, l) = {} /\ BatchGatingChecks(art, l) = {}
        BY <1>4
      <3> QED
        BY <3>3, <3>4
    <2>3. \A l \in ctx.scope : evidence.lines[l].priority # None
      BY <2>2, NoneAssumption
    <2> QED
      BY <1>8, <2>1, <2>2, <2>3 DEF ComplianceReasons
  <1>16. BlockingReasons(ctx, art, evidence) = {}
    <2>1. StorageVerified(art) # None /\ StorageVerified(art) # FALSE
      BY <1>13, NoneAssumption
    <2> HIDE DEF StorageVerified
    <2> QED
      BY <1>2, <1>12, <1>14, <1>15, <2>1 DEF BlockingReasons
  <1> QED
    BY <1>1, <1>16 DEF Eligible, Simulated, evidence

-------------------------------------------------------------------------------
(***************************************************************************)
(* The ranking.                                                            *)
(***************************************************************************)

\* Runs come after the generation, and a batch that is over was ranked.
RankedInv ==
  /\ phase \in {"NEW", "GENERATING", "GENERATION_FAILED"} => runs = <<>>
  /\ phase \notin {"NEW", "GENERATING", "GENERATION_FAILED", "SIMULATING"}
       => RankCandidateRuns(winner) /\ phase = FinalStatus(winner)

LEMMA InitRanked == Init => RankedInv
BY DEF Init, RankedInv

LEMMA NextRanked ==
  ASSUME RankedInv, [Next]_vars
  PROVE  RankedInv'
  <1> USE DEF RankedInv
  <1>0. ASSUME UNCHANGED <<accepted, runs, winner>>
        PROVE  /\ RankCandidateRuns(winner)' <=> RankCandidateRuns(winner)
               /\ FinalStatus(winner)' = FinalStatus(winner)
    BY <1>0 DEF RankCandidateRuns, FinalStatus, Eligible, Better
  <1>1. CASE UNCHANGED vars
    BY <1>0, <1>1 DEF vars
  <1>2. CASE StartBatch
    BY <1>2 DEF StartBatch
  <1>3. CASE \E c \in Proposals : ConsiderProposal(c)
    BY <1>3 DEF ConsiderProposal
  <1>4. CASE EndAttempt
    BY <1>4 DEF EndAttempt
  <1>5. CASE \E db \in Databases, log \in Logs : RunCandidate(db, log)
    BY <1>5 DEF RunCandidate
  <1>6. CASE CandidateError
    BY <1>6 DEF CandidateError
  <1>7. CASE SelectWinner
    <2>1. PICK w \in DOMAIN runs \cup {None} :
            /\ RankCandidateRuns(w) /\ winner' = w /\ phase' = FinalStatus(w)
            /\ UNCHANGED <<accepted, runs>>
      BY <1>7 DEF SelectWinner
    <2>2. RankCandidateRuns(winner)' /\ phase' = FinalStatus(winner)'
      BY <2>1 DEF RankCandidateRuns, FinalStatus, Eligible, Better
    <2>3. phase' \in {"SELECTED", "POST_SIMULATION_CONSTRAINT_FAILURE",
                      "SYSTEM_OR_SIMULATION_INCOMPLETE"}
      BY <2>1 DEF FinalStatus
    <2> QED
      BY <2>2, <2>3
  <1> QED
    BY <1>1, <1>2, <1>3, <1>4, <1>5, <1>6, <1>7 DEF Next

-------------------------------------------------------------------------------
(***************************************************************************)
(* The score of a run is a mean.  The library's induction theorems take an  *)
(* operator and cannot be used here; a set of natural numbers that is not   *)
(* empty has a smallest member, which serves as well.                      *)
(***************************************************************************)

LEMMA SmallestMember ==
  ASSUME NEW T, T \subseteq Nat, T # {}
  PROVE  \E n \in T : \A m \in T : n <= m
  <1>1. PICK n \in T : \A m \in T : <<m, n>> \notin OpToRel(<, Nat)
    BY WFMin, NatLessThanWellFounded
  <1>2. \A m \in T : ~(m < n)
    BY <1>1 DEF OpToRel
  <1> QED
    BY <1>2

LEMMA SumIsNatural ==
  ASSUME NEW S, IsFiniteSet(S), NEW f, \A x \in S : f[x] \in Nat
  PROVE  SumFunctionOnSet(f, S) \in Nat
  <1> DEFINE first(s) == CHOOSE x \in s : TRUE
             Sum(g, s) == IF s = {} THEN 0 ELSE f[first(s)] + g[s \ {first(s)}]
             Solves(g, n) == \A s \in SUBSET S : Cardinality(s) <= n => g[s] = Sum(g, s)
  <1>1. \A s \in SUBSET S : /\ IsFiniteSet(s) /\ Cardinality(s) \in Nat
                            /\ Cardinality(s) = 0 <=> s = {}
                            /\ Cardinality(s) <= Cardinality(S)
    BY FS_Subset, FS_CardinalityType, FS_EmptySet
  <1>2. \A s \in SUBSET S : s # {} => /\ first(s) \in S /\ s \ {first(s)} \in SUBSET S
                                      /\ Cardinality(s \ {first(s)}) = Cardinality(s) - 1
    <2> SUFFICES ASSUME NEW s \in SUBSET S, s # {}
                 PROVE  /\ first(s) \in S /\ s \ {first(s)} \in SUBSET S
                        /\ Cardinality(s \ {first(s)}) = Cardinality(s) - 1
      OBVIOUS
    <2>1. first(s) \in s
      OBVIOUS
    <2> HIDE DEF first
    <2> QED
      BY <1>1, <2>1, FS_RemoveElement
  <1> HIDE DEF first
  <1>3. \A n \in Nat : \E g \in [SUBSET S -> Nat] : Solves(g, n)
    <2> DEFINE T == {n \in Nat : ~\E g \in [SUBSET S -> Nat] : Solves(g, n)}
    <2> SUFFICES ASSUME T # {} PROVE FALSE
      OBVIOUS
    <2>1. PICK n \in T : \A m \in T : n <= m
      <3> HIDE DEF T
      <3>1. T \subseteq Nat
        BY DEF T
      <3> QED
        BY <3>1, SmallestMember
    <2>2. n # 0
      <3> DEFINE g == [s \in SUBSET S |-> 0]
      <3>1. g \in [SUBSET S -> Nat]
        OBVIOUS
      <3>2. Solves(g, 0)
        BY <1>1
      <3>3. \E k \in [SUBSET S -> Nat] : Solves(k, 0)
        <4> HIDE DEF Solves, g
        <4> QED
          BY <3>1, <3>2
      <3> QED
        BY <3>3, <2>1
    <2>3. PICK g \in [SUBSET S -> Nat] : Solves(g, n - 1)
      <3>1. n - 1 \in Nat /\ ~(n <= n - 1)
        BY <2>1, <2>2
      <3> QED
        BY <3>1, <2>1
    <2> DEFINE h == [s \in SUBSET S |-> IF Cardinality(s) = n THEN Sum(g, s) ELSE g[s]]
    <2>4. \A s \in SUBSET S : Sum(g, s) \in Nat
      <3> SUFFICES ASSUME NEW s \in SUBSET S, s # {}
                   PROVE  f[first(s)] + g[s \ {first(s)}] \in Nat
        OBVIOUS
      <3>1. f[first(s)] \in Nat /\ g[s \ {first(s)}] \in Nat
        BY <1>2, <2>3
      <3> QED
        BY <3>1
    <2>5. h \in [SUBSET S -> Nat]
      BY <2>4
    <2>6. \A s \in SUBSET S : Cardinality(s) <= n => Sum(h, s) = Sum(g, s)
      BY <1>1, <1>2
    <2>7. Solves(h, n)
      <3> SUFFICES ASSUME NEW s \in SUBSET S, Cardinality(s) <= n
                   PROVE  h[s] = Sum(g, s)
        BY <2>6
      <3>1. CASE Cardinality(s) = n
        BY <3>1
      <3>2. CASE Cardinality(s) # n
        <4>1. Cardinality(s) <= n - 1
          BY <1>1, <2>1, <3>2
        <4> QED
          BY <2>3, <3>2, <4>1
      <3> QED
        BY <3>1, <3>2
    <2> QED
      BY <2>1, <2>5, <2>7
  <1> DEFINE iter == CHOOSE g : g = [s \in SUBSET S |-> Sum(g, s)]
  <1>4. iter = [s \in SUBSET S |-> Sum(iter, s)]
    <2>1. PICK g \in [SUBSET S -> Nat] : Solves(g, Cardinality(S))
      BY <1>1, <1>3
    <2>2. g = [s \in SUBSET S |-> Sum(g, s)]
      BY <1>1, <2>1
    <2> QED
      BY <2>2
  <1> HIDE DEF iter
  <1>5. \A s \in SUBSET S : iter[s] \in Nat
    <2> DEFINE T == {Cardinality(s) : s \in {r \in SUBSET S : iter[r] \notin Nat}}
    <2> SUFFICES ASSUME T # {} PROVE FALSE
      OBVIOUS
    <2>1. PICK n \in T : \A m \in T : n <= m
      <3>1. T \subseteq Nat
        BY <1>1
      <3> HIDE DEF T
      <3> QED
        BY <3>1, SmallestMember
    <2>2. PICK s \in SUBSET S : iter[s] \notin Nat /\ n = Cardinality(s)
      BY <2>1
    <2>3. iter[s] = Sum(iter, s)
      BY <1>4
    <2>4. s # {}
      BY <2>2, <2>3
    <2>5. iter[s \ {first(s)}] \in Nat
      <3>1. ~(n <= Cardinality(s \ {first(s)}))
        BY <1>1, <1>2, <2>2, <2>4
      <3> QED
        BY <3>1, <1>2, <2>1, <2>4
    <2> QED
      BY <1>2, <2>2, <2>3, <2>4, <2>5
  <1>6. SumFunctionOnSet(f, S) = iter[S]
    BY DEF SumFunctionOnSet, FoldFunctionOnSet, MapThenFoldSet, iter, first
  <1> QED
    BY <1>5, <1>6

\* A run without a reason against it has a score.
LEMMA EligibleHasScore ==
  ASSUME CandidatesInv, RunsInv, NEW i \in DOMAIN runs, Eligible(i)
  PROVE  runs[i].attainment \in Nat
  <1> DEFINE db  == runs[i].db
             art == ReadSimulationResults(db)
  <1>1. PICK log \in Logs :
          /\ db \in Databases
          /\ BlockingReasons(ctx, art, EvidenceOf(ctx, accepted[i], db, log)) = {}
          /\ runs[i].attainment = Attainment(ctx, art)
    BY DEF RunsInv, Evaluated, Eligible
  <1>2. art.status = "COMPLETED" /\ ThroughputReasons(ctx, art) = {}
    <2> DEFINE ev == EvidenceOf(ctx, accepted[i], db, log)
    <2> HIDE DEF art, db, ev
    <2> QED
      BY <1>1, NoReasons DEF ev
  <1>3. Reads(art, db)
    BY <1>2, CompletedArtifact
  <1> HIDE DEF db, art
  <1> DEFINE S == MeasuredLines(ctx, art)
             ratio == [l \in S |-> (100 * art.kpis[l].rate) \div ctx.minRate[l]]
  <1>4. S # {}
    BY <1>2 DEF ThroughputReasons
  <1>5. ctx \in Contexts /\ S \subseteq ctx.scope /\ S \subseteq DOMAIN db.kpis
    BY <1>3 DEF CandidatesInv, MeasuredLines, TargetLines, Reads
  <1>6. IsFiniteSet(S) /\ Cardinality(S) \in Nat /\ Cardinality(S) # 0
    BY <1>4, <1>5, ContextAssumption, FS_Subset, FS_CardinalityType, FS_EmptySet
  <1>7. \A l \in S : art.kpis[l].rate \in Nat /\ ctx.minRate[l] \in Nat \ {0}
    <2> TAKE l \in S
    <2>1. art.kpis[l].rate # None /\ ctx.minRate[l] \notin {None, 0}
      BY DEF MeasuredLines, TargetLines
    <2>2. ctx.minRate[l] \in Nat \cup {None}
      BY <1>5, ContextAssumption
    <2>3. db.kpis[l].rate \in Nat \cup {None}
      BY <1>1, <1>5, DatabaseAssumption
    <2> QED
      BY <1>3, <2>1, <2>2, <2>3 DEF Reads
  <1>8. \A r \in Nat, m \in Nat \ {0} : (100 * r) \div m \in Nat
    OBVIOUS
  <1>9. \A l \in S : ratio[l] \in Nat
    BY <1>7, <1>8
  <1>10. Attainment(ctx, art) = SumFunctionOnSet(ratio, S) \div Cardinality(S)
    BY <1>4 DEF Attainment
  <1> HIDE DEF ratio, S
  <1>11. SumFunctionOnSet(ratio, S) \in Nat
    BY <1>6, <1>9, SumIsNatural
  <1>12. \A a \in Nat, b \in Nat \ {0} : a \div b \in Nat
    OBVIOUS
  <1> QED
    BY <1>1, <1>6, <1>10, <1>11, <1>12

\* Whatever the other candidates of the batch did, a clean run ends it with a
\* winner that scored no less.
THEOREM CleanRunsWin == Spec => []CleanRunWins
  <1>1. CandidatesInv /\ RunsInv /\ RankedInv => CleanRunWins
    <2> SUFFICES ASSUME CandidatesInv, RunsInv, RankedInv, NEW i \in Simulated, CleanRun(i),
                        phase \notin {"GENERATING", "SIMULATING"}
                 PROVE  phase = "SELECTED" /\ runs[winner].attainment >= runs[i].attainment
      BY DEF CleanRunWins
    <2>1. i \in DOMAIN runs
      BY DEF Simulated
    <2>2. runs # <<>>
      BY <2>1
    <2>3. RankCandidateRuns(winner) /\ phase = FinalStatus(winner)
      BY <2>2 DEF RankedInv
    <2>4. Eligible(i)
      BY CleanHasNoReasons
    <2>5. winner \in DOMAIN runs /\ Eligible(winner) /\ (winner # i => Better(winner, i))
      BY <2>1, <2>3, <2>4 DEF RankCandidateRuns
    <2>6. winner # None
      <3>1. DOMAIN runs \subseteq Nat
        BY DEF RunsInv
      <3> QED
        BY <2>5, <3>1, NoneAssumption
    <2>7. runs[winner].attainment \in Nat /\ runs[i].attainment \in Nat
      BY <2>1, <2>4, <2>5, EligibleHasScore
    <2> QED
      BY <2>3, <2>5, <2>6, <2>7 DEF FinalStatus, Better
  <1> QED
    BY <1>1, CandidatesHold, RunsHold, InitRanked, NextRanked, PTL DEF Spec
===============================================================================
