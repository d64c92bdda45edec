---------------------------- MODULE Campaign_proofs ----------------------------
(***************************************************************************)
(* Proofs about IsaacRuns and Campaign for any number of candidates, runs, *)
(* batches, tests and restarts.  RunsInv is inductive for the runs,        *)
(* ProgressInv, with the bound that RunsInv gives for the restarts, for    *)
(* the rows of the campaign, and ForeignInv for the runs put down to a     *)
(* test that did not start them.                                           *)
(***************************************************************************)
EXTENDS Campaign, SequenceTheorems, FiniteSetTheorems, TLAPS

-------------------------------------------------------------------------------
(***************************************************************************)
(* The runs.                                                               *)
(***************************************************************************)

LEMMA InitRunsInv == InitRuns => RunsInv
  <1> SUFFICES ASSUME InitRuns PROVE RunsInv
    OBVIOUS
  <1>1. RunsTypeOK
    BY RunsAssumption, EmptySeq DEF InitRuns, RunsTypeOK, RunId
  <1>2. LockHeld /\ AwaitedByThread /\ CompletedIsReal
    BY DEF InitRuns, LockHeld, AwaitedByThread, CompletedIsReal, Awaited, RunId
  <1> QED
    BY <1>1, <1>2 DEF RunsInv

\* A started run has a new id, and waits for the host if it is synchronous.
LEMMA StartedRunTyped ==
  ASSUME NEW b \in Nat, NEW sync \in BOOLEAN
  PROVE  StartedRun(b, sync) \in Run
BY DEF StartedRun, Run

\* A step of a batch thread replaces its record.
LEMMA BatchReplaced ==
  ASSUME RunsTypeOK, NEW b \in DOMAIN batch, NEW rec \in Batch, batch' = [batch EXCEPT ![b] = rec]
  PROVE  /\ batch' \in Seq(Batch) /\ DOMAIN batch' = DOMAIN batch
         /\ batch'[b] = rec /\ \A c \in DOMAIN batch \ {b} : batch'[c] = batch[c]
  <1>1. batch \in Seq(Batch) /\ b \in 1 .. Len(batch)
    BY DEF RunsTypeOK
  <1> QED
    BY <1>1, ExceptSeq

LEMMA RunsTyped ==
  ASSUME RunsTypeOK
  PROVE  /\ RunId = 1 .. Len(run) /\ Len(run) \in Nat /\ \A r \in RunId : run[r] \in Run
         /\ DOMAIN batch = 1 .. Len(batch) /\ Len(batch) \in Nat
         /\ \A b \in DOMAIN batch : /\ b \in Nat \ {0} /\ batch[b] \in Batch
                                    /\ batch[b].winner # 0 => batch[b].winner \in RunId
  <1>1. /\ RunId = 1 .. Len(run) /\ Len(run) \in Nat /\ \A r \in RunId : run[r] \in Run
        /\ DOMAIN batch = 1 .. Len(batch) /\ Len(batch) \in Nat
        /\ \A b \in DOMAIN batch : b \in Nat \ {0} /\ batch[b] \in Batch
    BY DEF RunsTypeOK, RunId
  <1> QED
    BY <1>1 DEF RunsTypeOK, Batch

LEMMA RunAppended ==
  ASSUME RunsTypeOK, NEW rec \in Run, run' = Append(run, rec)
  PROVE  /\ run' \in Seq(Run) /\ Len(run') = Len(run) + 1 /\ RunId' = 1 .. Len(run) + 1
         /\ \A r \in RunId : run'[r] = run[r]
         /\ run'[Len(run) + 1] = rec
  <1>1. run \in Seq(Run)
    BY DEF RunsTypeOK
  <1> QED
    BY <1>1, AppendProperties DEF RunId

LEMMA AcquireKeepsRuns ==
  ASSUME RunsInv, NEW b \in DOMAIN batch, Acquire(b)
  PROVE  RunsInv'
  <1> USE DEF RunsInv
  <1> DEFINE rec == [batch[b] EXCEPT !.thread = "running"]
  <1>1. rec \in Batch /\ rec.winner = batch[b].winner /\ rec.thread = "running"
    BY RunsTyped DEF Batch
  <1>2. batch' = [batch EXCEPT ![b] = rec] /\ lock = 0 /\ lock' = b /\ UNCHANGED <<run, known, faults>>
    BY DEF Acquire
  <1> HIDE DEF rec
  <1>3. /\ batch' \in Seq(Batch) /\ DOMAIN batch' = DOMAIN batch
        /\ batch'[b] = rec /\ \A c \in DOMAIN batch \ {b} : batch'[c] = batch[c]
    BY <1>1, <1>2, BatchReplaced
  <1>4. \A c \in DOMAIN batch : c \in Nat \ {0} /\ batch'[c].winner = batch[c].winner
    BY <1>1, <1>3, RunsTyped
  <1>5. RunsTypeOK'
    BY <1>2, <1>3, <1>4 DEF RunsTypeOK, RunId
  <1>6. \A c \in DOMAIN batch : batch[c].thread # "running"
    BY <1>2, <1>4 DEF LockHeld
  <1>7. LockHeld'
    BY <1>2, <1>3, <1>6 DEF LockHeld
  <1>8. AwaitedByThread'
    BY <1>2, <1>6 DEF AwaitedByThread, Awaited, RunId
  <1>9. CompletedIsReal'
    BY <1>2, <1>3, <1>4 DEF CompletedIsReal, RunId
  <1> QED
    BY <1>5, <1>7, <1>8, <1>9

LEMMA CandidateKeepsRuns ==
  ASSUME RunsInv, NEW b \in DOMAIN batch, Candidate(b)
  PROVE  RunsInv'
  <1> USE DEF RunsInv
  <1> DEFINE rec == [batch[b] EXCEPT !.left = @ - 1]
  <1>a. rec \in Batch /\ rec.winner = batch[b].winner /\ rec.thread = batch[b].thread
    BY RunsTyped, RunsAssumption DEF Batch, Candidate
  <1>b. b \in Nat \ {0}
    BY RunsTyped
  <1>c. batch' = [batch EXCEPT ![b] = rec] /\ UNCHANGED <<known, lock, faults>>
        /\ Awaited \cap RunsOf(b) = {} /\ batch[b].thread = "running"
    BY DEF Candidate
  <1> HIDE DEF rec
  <1>1. /\ batch' \in Seq(Batch) /\ DOMAIN batch' = DOMAIN batch
        /\ \A c \in DOMAIN batch : /\ batch'[c].thread = batch[c].thread
                                   /\ batch'[c].winner = batch[c].winner
    BY <1>a, <1>c, BatchReplaced
  <1>2. CASE run' = run
    <2>1. RunsTypeOK'
      BY <1>1, <1>2, <1>c DEF RunsTypeOK, RunId
    <2>2. Awaited' = Awaited /\ \A c : RunsOf(c)' = RunsOf(c)
      BY <1>2 DEF Awaited, RunsOf, RunId
    <2>3. LockHeld' /\ AwaitedByThread' /\ CompletedIsReal'
      BY <1>1, <1>2, <1>c, <2>2 DEF LockHeld, AwaitedByThread, CompletedIsReal, RunId
    <2> QED
      BY <2>1, <2>3
  <1>3. CASE Len(run) < MaxRuns /\ run' = Append(run, StartedRun(b, TRUE))
    <2>1. /\ run' \in Seq(Run) /\ Len(run') = Len(run) + 1 /\ RunId' = 1 .. Len(run) + 1
          /\ \A r \in RunId : run'[r] = run[r]
          /\ run'[Len(run) + 1] = StartedRun(b, TRUE)
      <3>1. StartedRun(b, TRUE) \in Run
        BY <1>b, StartedRunTyped
      <3> QED
        BY <1>3, <3>1, RunAppended
    <2>2. RunId = 1 .. Len(run) /\ Len(run) \in Nat
      BY RunsTyped
    <2>3. RunsTypeOK'
      <3>1. Len(run') <= MaxRuns
        BY <1>3, <2>1, <2>2, RunsAssumption
      <3>2. \A c \in DOMAIN batch' : batch'[c].winner <= Len(run')
        <4>1. \A c \in DOMAIN batch : /\ batch[c].winner \in Nat
                                     /\ batch[c].winner <= Len(run)
          BY RunsTyped, RunsAssumption DEF RunsTypeOK, Batch
        <4> QED
          BY <1>1, <2>1, <2>2, <4>1
      <3> QED
        BY <1>1, <1>c, <2>1, <2>2, <3>1, <3>2 DEF RunsTypeOK
    <2>4. LockHeld'
      BY <1>1, <1>c DEF LockHeld
    <2>5. AwaitedByThread'
      <3>1. Awaited' = Awaited \cup {Len(run) + 1}
        BY <2>1, <2>2 DEF Awaited, StartedRun
      <3>2. \A c \in Nat : RunsOf(c)' = RunsOf(c) \cup (IF c = b THEN {Len(run) + 1} ELSE {})
        BY <2>1, <2>2, <1>b DEF RunsOf, StartedRun
      <3>3. \A r \in Awaited : run[r].batch # b
        BY <1>c DEF Awaited, RunsOf
      <3>4. \A r \in RunId : run[r].batch \in Nat
        BY RunsTyped DEF Run
      <3>5. run'[Len(run) + 1].batch = b /\ batch[b].thread = "running"
        BY <1>c, <2>1 DEF StartedRun
      <3>6. Awaited' \cap RunsOf(b)' = {Len(run) + 1}
        <4>1. RunsOf(b)' = RunsOf(b) \cup {Len(run) + 1}
          BY <3>2, <1>b
        <4>2. Len(run) + 1 \notin RunId
          BY <2>2
        <4> QED
          BY <1>c, <3>1, <4>1, <4>2 DEF Awaited, RunsOf
      <3>7. \A r \in Awaited : \A c \in Nat :
              c = run[r].batch => Awaited' \cap RunsOf(c)' = Awaited \cap RunsOf(c)
        BY <3>1, <3>2, <3>3, <2>2 DEF Awaited, RunsOf
      <3> SUFFICES ASSUME NEW r \in Awaited', NEW c, c = run'[r].batch, c # 0
                   PROVE  /\ c \in DOMAIN batch' /\ batch'[c].thread = "running"
                          /\ Awaited' \cap RunsOf(c)' = {r}
        BY DEF AwaitedByThread, RunsOf
      <3>8. CASE r = Len(run) + 1
        BY <1>1, <3>5, <3>6, <3>8
      <3>9. CASE r \in Awaited
        <4>1. c = run[r].batch /\ c \in Nat
          BY <2>1, <3>4, <3>9 DEF Awaited
        <4>2. /\ c \in DOMAIN batch /\ batch[c].thread = "running"
              /\ Awaited \cap RunsOf(c) = {r}
          BY <3>9, <4>1 DEF AwaitedByThread
        <4> QED
          BY <1>1, <3>7, <3>9, <4>1, <4>2
      <3> QED
        BY <3>1, <3>8, <3>9
    <2>6. CompletedIsReal'
      <3>1. \A c \in DOMAIN batch : batch[c].winner # 0 => batch[c].winner \in RunId
        BY RunsTyped
      <3>2. run'[Len(run) + 1].answer = "waiting"
        BY <2>1 DEF StartedRun
      <3>3. \A r \in RunId' : r \in RunId \/ r = Len(run) + 1
        BY <2>1, <2>2
      <3>4. \A r \in RunId' : run'[r].answer = "COMPLETED" => run'[r].left = "complete"
        BY <2>1, <3>2, <3>3 DEF CompletedIsReal
      <3>5. \A c \in DOMAIN batch' : batch'[c].winner # 0 =>
              run'[batch'[c].winner].batch = c /\ run'[batch'[c].winner].left = "complete"
        BY <1>1, <2>1, <3>1 DEF CompletedIsReal
      <3> QED
        BY <3>4, <3>5 DEF CompletedIsReal
    <2> QED
      BY <2>3, <2>4, <2>5, <2>6
  <1> QED
    BY <1>2, <1>3 DEF Candidate

LEMMA SelectKeepsRuns ==
  ASSUME RunsInv, NEW b \in DOMAIN batch, Select(b)
  PROVE  RunsInv'
  <1> USE DEF RunsInv
  <1>1. PICK w \in {r \in RunsOf(b) : run[r].answer = "COMPLETED"} \cup {0} :
          batch' = [batch EXCEPT ![b].winner = w, ![b].thread = "done"]
    BY DEF Select
  <1>2. /\ w \in 0 .. Len(run) /\ w \in 0 .. MaxRuns
        /\ w # 0 => w \in RunsOf(b) /\ run[w].answer = "COMPLETED"
    <2>1. /\ MaxRuns \in Nat /\ Len(run) \in Nat /\ Len(run) <= MaxRuns
          /\ RunsOf(b) \subseteq 1 .. Len(run)
      BY RunsTyped, RunsAssumption DEF RunsTypeOK, RunsOf
    <2> QED
      BY <1>1, <2>1
  <1> DEFINE rec == [batch[b] EXCEPT !.winner = w, !.thread = "done"]
  <1>3. rec \in Batch /\ rec.winner = w /\ rec.thread = "done"
    BY <1>2, RunsTyped DEF Batch
  <1>a. batch' = [batch EXCEPT ![b] = rec] /\ UNCHANGED <<run, known, faults>>
        /\ lock' = (IF lock = b THEN 0 ELSE lock) /\ Awaited \cap RunsOf(b) = {}
    BY <1>1 DEF Select
  <1> HIDE DEF rec
  <1>4. /\ batch' \in Seq(Batch) /\ DOMAIN batch' = DOMAIN batch
        /\ batch'[b] = rec /\ \A c \in DOMAIN batch \ {b} : batch'[c] = batch[c]
    BY <1>3, <1>a, BatchReplaced
  <1>5. RunsTypeOK'
    <2>1. \A c \in DOMAIN batch' : batch'[c].winner <= Len(run)
      BY <1>2, <1>3, <1>4 DEF RunsTypeOK
    <2> QED
      BY <1>4, <1>a, <2>1 DEF RunsTypeOK, RunId
  <1>6. LockHeld'
    BY <1>3, <1>4, <1>a DEF LockHeld
  <1>7. AwaitedByThread'
    <2>1. \A r \in Awaited : run[r].batch # b
      BY <1>a DEF Awaited, RunsOf
    <2>2. Awaited' = Awaited /\ \A c : RunsOf(c)' = RunsOf(c)
      BY <1>a DEF Awaited, RunsOf, RunId
    <2> QED
      BY <1>4, <1>a, <2>1, <2>2 DEF AwaitedByThread
  <1>8. CompletedIsReal'
    BY <1>2, <1>3, <1>4, <1>a DEF CompletedIsReal, RunId, RunsOf
  <1> QED
    BY <1>5, <1>6, <1>7, <1>8

\* An update of one run that keeps its batch, makes nobody wait for it and tells
\* COMPLETED only of a complete one.
LEMMA AnsweredRun ==
  ASSUME RunsInv, NEW r \in RunId, NEW rec \in Run,
         run' = [run EXCEPT ![r] = rec],
         rec.batch = run[r].batch,
         rec.answer = "waiting" => run[r].answer = "waiting",
         rec.answer = "COMPLETED" => rec.left = "complete",
         run[r].left = "complete" => rec.left = "complete",
         UNCHANGED <<known, lock, batch, faults>>
  PROVE  RunsInv'
  <1> USE DEF RunsInv
  <1>1. /\ run' \in Seq(Run) /\ Len(run') = Len(run) /\ RunId' = RunId
        /\ run'[r] = rec /\ \A s \in RunId \ {r} : run'[s] = run[s]
    <2>1. run \in Seq(Run) /\ r \in 1 .. Len(run)
      BY RunsTyped DEF RunsTypeOK
    <2> QED
      BY <2>1, ExceptSeq DEF RunId
  <1>2. RunsTypeOK'
    BY <1>1 DEF RunsTypeOK
  <1>3. LockHeld'
    BY DEF LockHeld
  <1>4. AwaitedByThread'
    <2>1. Awaited' \subseteq Awaited
      BY <1>1 DEF Awaited
    <2>2. \A c : RunsOf(c)' = RunsOf(c)
      BY <1>1 DEF RunsOf
    <2>3. \A s \in RunId : run'[s].batch = run[s].batch
      BY <1>1
    <2> QED
      BY <2>1, <2>2, <2>3 DEF AwaitedByThread, Awaited
  <1>5. CompletedIsReal'
    <2>1. \A s \in RunId : /\ run'[s].batch = run[s].batch
                           /\ run[s].left = "complete" => run'[s].left = "complete"
      BY <1>1
    <2>2. \A c \in DOMAIN batch : batch[c].winner # 0 => batch[c].winner \in RunId
      BY RunsTyped
    <2> QED
      BY <1>1, <2>1, <2>2 DEF CompletedIsReal
  <1> QED
    BY <1>2, <1>3, <1>4, <1>5

\* What ends or answers one run, the poll included.
LEMMA OneRunKeepsRuns ==
  ASSUME RunsInv, NEW r \in RunId,
         SimulatorEnds(r) \/ HostAnswers(r) \/ ClientGivesUp(r) \/ Poll(r)
  PROVE  RunsInv'
  <1>0. run[r] \in Run
    BY DEF RunsInv, RunsTypeOK, RunId
  <1>s. /\ Settled(run[r]) \in Run
        /\ Settled(run[r]).batch = run[r].batch
        /\ run[r].left = "complete" => Settled(run[r]).left = "complete"
        /\ Answer(Settled(run[r])) \in {"COMPLETED", "FAILED"}
        /\ Answer(Settled(run[r])) = "COMPLETED" => Settled(run[r]).left = "complete"
    BY <1>0 DEF Settled, Answer, Run
  <1>1. CASE SimulatorEnds(r)
    <2>1. PICK left \in {"complete", "flawed"} : run' = [run EXCEPT ![r].left = left]
      BY <1>1 DEF SimulatorEnds
    <2> DEFINE rec == [run[r] EXCEPT !.left = left]
    <2>2. run' = [run EXCEPT ![r] = rec]
      BY <2>1
    <2>3. rec \in Run /\ rec.batch = run[r].batch /\ rec.answer = run[r].answer /\ rec.left = left
      BY <1>0 DEF Run
    <2>4. run[r].left = "alive" /\ run[r].answer # "COMPLETED"
      BY <1>1 DEF SimulatorEnds, Alive, RunsInv, CompletedIsReal
    <2>5. UNCHANGED <<known, lock, batch, faults>>
      BY <1>1 DEF SimulatorEnds
    <2> QED
      BY <2>2, <2>3, <2>4, <2>5, AnsweredRun
  <1>2. CASE HostAnswers(r)
    <2> DEFINE rec == [Settled(run[r]) EXCEPT !.answer = Answer(Settled(run[r]))]
    <2>1. run' = [run EXCEPT ![r] = rec] /\ UNCHANGED <<known, lock, batch, faults>>
      BY <1>2 DEF HostAnswers
    <2>2. /\ rec \in Run /\ rec.batch = run[r].batch /\ rec.answer = Answer(Settled(run[r]))
          /\ rec.left = Settled(run[r]).left
      BY <1>s DEF Run
    <2>3. rec.answer # "waiting"
      BY <2>2, <1>s
    <2> QED
      BY <2>1, <2>2, <2>3, <1>s, AnsweredRun
  <1>3. CASE ClientGivesUp(r)
    <2> DEFINE rec == [run[r] EXCEPT !.answer = "FAILED"]
    <2>1. run' = [run EXCEPT ![r] = rec] /\ UNCHANGED <<known, lock, batch, faults>>
      BY <1>3 DEF ClientGivesUp
    <2>2. rec \in Run /\ rec.batch = run[r].batch /\ rec.answer = "FAILED" /\ rec.left = run[r].left
      BY <1>0 DEF Run
    <2> QED
      BY <2>1, <2>2, AnsweredRun
  <1>4. CASE Poll(r)
    <2>0. UNCHANGED <<known, lock, batch, faults>>
      BY <1>4 DEF Poll
    <2>1. CASE run' = [run EXCEPT ![r].answer = "FAILED"]
      <3> DEFINE rec == [run[r] EXCEPT !.answer = "FAILED"]
      <3>1. run' = [run EXCEPT ![r] = rec]
        BY <2>1
      <3>2. /\ rec \in Run /\ rec.batch = run[r].batch /\ rec.answer = "FAILED"
            /\ rec.left = run[r].left
        BY <1>0 DEF Run
      <3> QED
        BY <2>0, <3>1, <3>2, AnsweredRun
    <2>2. CASE run' = [run EXCEPT ![r].answer = "RUNNING"]
      <3> DEFINE rec == [run[r] EXCEPT !.answer = "RUNNING"]
      <3>1. run' = [run EXCEPT ![r] = rec]
        BY <2>2
      <3>2. /\ rec \in Run /\ rec.batch = run[r].batch /\ rec.answer = "RUNNING"
            /\ rec.left = run[r].left
        BY <1>0 DEF Run
      <3> QED
        BY <2>0, <3>1, <3>2, AnsweredRun
    <2>3. CASE run' = [run EXCEPT ![r] =
                        [Settled(run[r]) EXCEPT !.answer = Answer(Settled(run[r]))]]
      <3> DEFINE rec == [Settled(run[r]) EXCEPT !.answer = Answer(Settled(run[r]))]
      <3>1. run' = [run EXCEPT ![r] = rec]
        BY <2>3
      <3>2. /\ rec \in Run /\ rec.batch = run[r].batch /\ rec.answer = Answer(Settled(run[r]))
            /\ rec.left = Settled(run[r]).left
        BY <1>s DEF Run
      <3>3. rec.answer # "waiting"
        BY <3>2, <1>s
      <3> QED
        BY <2>0, <3>1, <3>2, <3>3, <1>s, AnsweredRun
    <2> QED
      BY <1>4, <2>1, <2>2, <2>3 DEF Poll
  <1> QED
    BY <1>1, <1>2, <1>3, <1>4

LEMMA DirectKeepsRuns ==
  ASSUME RunsInv, NEW sync \in BOOLEAN, Direct(sync)
  PROVE  RunsInv'
  <1> USE DEF RunsInv
  <1>1. PICK rec \in Run : /\ run' = Append(run, rec) /\ rec.batch = 0
                           /\ rec.answer # "COMPLETED"
    <2>1. /\ StartedRun(0, sync) \in Run /\ StartedRun(0, sync).batch = 0
          /\ StartedRun(0, sync).answer # "COMPLETED"
      BY DEF StartedRun, Run
    <2>2. LET rec == [StartedRun(0, FALSE) EXCEPT !.answer = "FAILED"]
          IN rec \in Run /\ rec.batch = 0 /\ rec.answer # "COMPLETED"
      BY DEF StartedRun, Run
    <2> QED
      BY <2>1, <2>2 DEF Direct
  <1>2. /\ run' \in Seq(Run) /\ Len(run') = Len(run) + 1 /\ RunId' = 1 .. Len(run) + 1
        /\ \A r \in RunId : run'[r] = run[r]
        /\ run'[Len(run) + 1] = rec
    BY <1>1, RunAppended
  <1>3. RunId = 1 .. Len(run) /\ Len(run) \in Nat
    BY RunsTyped
  <1>4. UNCHANGED <<lock, batch, faults>> /\ known' \subseteq known \cup {Len(run) + 1}
        /\ Len(run) < MaxRuns
    BY DEF Direct
  <1>5. RunsTypeOK'
    <2>1. Len(run') <= MaxRuns
      BY <1>2, <1>3, <1>4, RunsAssumption
    <2>2. \A c \in DOMAIN batch : batch[c].winner <= Len(run')
      BY <1>2, <1>3, RunsTyped DEF RunsTypeOK, Batch
    <2> QED
      BY <1>2, <1>3, <1>4, <2>1, <2>2 DEF RunsTypeOK
  <1>6. LockHeld'
    BY <1>4 DEF LockHeld
  <1>7. AwaitedByThread'
    <2>1. \A r \in Awaited' : run'[r].batch # 0 => r \in Awaited
      BY <1>1, <1>2, <1>3 DEF Awaited
    <2>2. \A c : c # 0 => RunsOf(c)' = RunsOf(c)
      BY <1>1, <1>2, <1>3 DEF RunsOf
    <2>3. \A c : c # 0 => Awaited' \cap RunsOf(c) = Awaited \cap RunsOf(c)
      BY <1>2, <1>3 DEF Awaited, RunsOf
    <2>4. \A r \in Awaited : run'[r] = run[r]
      BY <1>2 DEF Awaited
    <2> QED
      BY <1>4, <2>1, <2>2, <2>3, <2>4 DEF AwaitedByThread
  <1>8. CompletedIsReal'
    <2>1. \A c \in DOMAIN batch : batch[c].winner # 0 => batch[c].winner \in RunId
      BY RunsTyped
    <2>2. \A r \in RunId' : r \in RunId \/ r = Len(run) + 1
      BY <1>2, <1>3
    <2> QED
      BY <1>1, <1>2, <1>4, <2>1, <2>2 DEF CompletedIsReal
  <1> QED
    BY <1>5, <1>6, <1>7, <1>8

\* Both restarts answer what was waiting with FAILED and leave the simulators.
LEMMA RestartKeepsRuns ==
  ASSUME RunsInv, HostRestart \/ ApiRestart
  PROVE  RunsInv'
  <1> USE DEF RunsInv
  <1>1. /\ run' \in Seq(Run) /\ Len(run') = Len(run) /\ RunId' = RunId
        /\ \A r \in RunId : /\ run'[r].batch = run[r].batch /\ run'[r].left = run[r].left
                            /\ run'[r].answer # "waiting"
                            /\ run'[r].answer = "COMPLETED" => run[r].answer = "COMPLETED"
    <2>1. (\A r \in RunId : run[r] \in Run) /\ RunId = 1 .. Len(run) /\ Len(run) \in Nat
      BY RunsTyped
    <2>2. CASE HostRestart
      <3> DEFINE after(r) == [run[r] EXCEPT !.hosted = FALSE,
                                            !.answer = IF @ = "waiting" THEN "FAILED" ELSE @]
      <3>1. \A r \in RunId : /\ after(r) \in Run /\ after(r).batch = run[r].batch
                             /\ after(r).left = run[r].left /\ after(r).answer # "waiting"
                             /\ after(r).answer = "COMPLETED" => run[r].answer = "COMPLETED"
        BY <2>1 DEF Run
      <3>2. run' = [r \in RunId |-> after(r)]
        BY <2>2 DEF HostRestart
      <3> HIDE DEF after
      <3>3. run' \in Seq(Run) /\ Len(run') = Len(run) /\ RunId' = RunId
        <4>1. run' \in Seq(Run)
          BY <3>1, <3>2, <2>1, IsASeq
        <4>2. DOMAIN run' = RunId
          BY <3>2
        <4> QED
          BY <4>1, <4>2, <2>1, LenProperties DEF RunId
      <3> QED
        BY <3>1, <3>2, <3>3
    <2>3. CASE ApiRestart
      <3> DEFINE after(r) == [run[r] EXCEPT !.answer = IF @ = "waiting" THEN "FAILED" ELSE @]
      <3>1. \A r \in RunId : /\ after(r) \in Run /\ after(r).batch = run[r].batch
                             /\ after(r).left = run[r].left /\ after(r).answer # "waiting"
                             /\ after(r).answer = "COMPLETED" => run[r].answer = "COMPLETED"
        BY <2>1 DEF Run
      <3>2. run' = [r \in RunId |-> after(r)]
        BY <2>3 DEF ApiRestart
      <3> HIDE DEF after
      <3>3. run' \in Seq(Run) /\ Len(run') = Len(run) /\ RunId' = RunId
        <4>1. run' \in Seq(Run)
          BY <3>1, <3>2, <2>1, IsASeq
        <4>2. DOMAIN run' = RunId
          BY <3>2
        <4> QED
          BY <4>1, <4>2, <2>1, LenProperties DEF RunId
      <3> QED
        BY <3>1, <3>2, <3>3
    <2> QED
      BY <2>2, <2>3
  <1>2. /\ batch' \in Seq(Batch) /\ DOMAIN batch' = DOMAIN batch
        /\ \A b \in DOMAIN batch : batch'[b].winner = batch[b].winner
    <2>1. CASE HostRestart
      BY <2>1 DEF HostRestart, RunsTypeOK
    <2>2. CASE ApiRestart
      <3> DEFINE after(b) == IF batch[b].thread = "done" THEN batch[b]
                             ELSE [batch[b] EXCEPT !.thread = "gone"]
      <3>1. \A b \in DOMAIN batch : batch[b] \in Batch
        BY RunsTyped
      <3>2. \A b \in DOMAIN batch : after(b) \in Batch /\ after(b).winner = batch[b].winner
        BY <3>1 DEF Batch
      <3>3. batch' = [b \in DOMAIN batch |-> after(b)]
        BY <2>2 DEF ApiRestart
      <3>4. DOMAIN batch = 1 .. Len(batch) /\ Len(batch) \in Nat
        BY RunsTyped
      <3> HIDE DEF after
      <3>5. batch' \in Seq(Batch)
        BY <3>2, <3>3, <3>4, IsASeq
      <3> QED
        BY <3>2, <3>3, <3>5
    <2> QED
      BY <2>1, <2>2
  <1>3. LockHeld'
    <2>1. CASE HostRestart
      BY <2>1 DEF HostRestart, LockHeld
    <2>2. CASE ApiRestart
      <3>1. \A b \in DOMAIN batch : batch[b] \in Batch
        BY RunsTyped
      <3>2. \A b \in DOMAIN batch : batch'[b].thread # "running"
        BY <2>2, <3>1 DEF ApiRestart, Batch
      <3> QED
        BY <1>2, <3>2 DEF LockHeld
    <2> QED
      BY <2>1, <2>2
  <1>4. known' \subseteq known /\ lock' \in Nat /\ faults' \in 0 .. MaxFaults
    <2>1. MaxFaults \in Nat /\ faults \in 0 .. MaxFaults /\ lock \in Nat
      BY RunsAssumption DEF RunsTypeOK
    <2>2. faults < MaxFaults /\ faults' = faults + 1
      BY DEF HostRestart, ApiRestart
    <2>3. known' \subseteq known /\ lock' \in {0, lock}
      BY DEF HostRestart, ApiRestart
    <2> QED
      BY <2>1, <2>2, <2>3
  <1>5. RunsTypeOK'
    BY <1>1, <1>2, <1>4 DEF RunsTypeOK
  <1>6. AwaitedByThread'
    BY <1>1 DEF AwaitedByThread, Awaited
  <1>7. CompletedIsReal'
    <2>1. \A c \in DOMAIN batch : batch[c].winner # 0 => batch[c].winner \in RunId
      BY RunsTyped
    <2> QED
      BY <1>1, <1>2, <2>1 DEF CompletedIsReal
  <1> QED
    BY <1>3, <1>5, <1>6, <1>7

LEMMA RunsNextKeepsRuns ==
  ASSUME RunsInv, RunsNext
  PROVE  RunsInv'
  <1>1. CASE \E b \in DOMAIN batch : BatchStep(b)
    BY <1>1, AcquireKeepsRuns, CandidateKeepsRuns, SelectKeepsRuns DEF BatchStep
  <1>2. CASE \E sync \in BOOLEAN : Direct(sync)
    BY <1>2, DirectKeepsRuns
  <1>3. CASE \E r \in RunId : SimulatorEnds(r) \/ HostAnswers(r) \/ ClientGivesUp(r) \/ Poll(r)
    BY <1>3, OneRunKeepsRuns
  <1>4. CASE HostRestart \/ ApiRestart
    BY <1>4, RestartKeepsRuns
  <1> QED
    BY <1>1, <1>2, <1>3, <1>4 DEF RunsNext

-------------------------------------------------------------------------------
(***************************************************************************)
(* The rows.                                                               *)
(***************************************************************************)

\* The rows are of tests, and sets of tests are finite.
LEMMA RowsTyped ==
  ASSUME ProgressInv
  PROVE  /\ Recorded \subseteq Tests /\ Ingested \subseteq Tests
         /\ IsFiniteSet(Recorded) /\ IsFiniteSet(Ingested) /\ IsFiniteSet(Interrupted)
         /\ Cardinality(Recorded) \in Nat /\ Cardinality(Ingested) \in Nat
         /\ Cardinality(Interrupted) \in Nat
         /\ Len(progress) \in Nat /\ Len(ingested) \in Nat
  <1>1. Recorded \subseteq Tests /\ Ingested \subseteq Tests
    BY DEF ProgressInv, Recorded, Ingested
  <1>2. Interrupted \subseteq Tests
    BY <1>1 DEF Interrupted
  <1>3. IsFiniteSet(Tests)
    BY TestsAssumption
  <1>4. IsFiniteSet(Recorded) /\ IsFiniteSet(Ingested) /\ IsFiniteSet(Interrupted)
    BY <1>1, <1>2, <1>3, FS_Subset
  <1>5. Len(progress) \in Nat /\ Len(ingested) \in Nat
    BY DEF ProgressInv
  <1> QED
    BY <1>1, <1>4, <1>5, FS_CardinalityType

LEMMA InitProgressInv == Init => ProgressInv
  <1> SUFFICES ASSUME Init PROVE ProgressInv
    OBVIOUS
  <1>1. Recorded = {} /\ Ingested = {} /\ Interrupted = {}
    BY DEF Init, Recorded, Ingested, Interrupted
  <1>2. progress \in Seq(Tests) /\ ingested \in Seq(Tests) /\ Len(progress) = 0 /\ Len(ingested) = 0
    BY EmptySeq DEF Init
  <1>3. Cardinality({}) = 0
    BY FS_EmptySet
  <1>4. faults = 0 /\ pc = "down" /\ at = NoTest /\ at.test = 0
    BY DEF Init, InitRuns, NoTest
  <1> QED
    BY <1>1, <1>2, <1>3, <1>4 DEF ProgressInv, Testing

\* A step that writes no row and interrupts no test.
LEMMA QuietKeepsProgress ==
  ASSUME ProgressInv, UNCHANGED <<progress, ingested>>,
         faults \in Nat, faults' \in Nat, faults' >= faults,
         pc' \in Testing \cup {"down", "next", "append", "end"},
         DOMAIN at' = DOMAIN at, at'.test \in Nat,
         pc' # "down" => done' = Recorded,
         pc' \in Testing \cup {"append"} => at'.test \in Tests \ Recorded,
         pc = "append" => pc' = "append" /\ at'.test = at.test
  PROVE  ProgressInv'
  <1>1. Recorded' = Recorded /\ Ingested' = Ingested
    BY DEF Recorded, Ingested
  <1>2. Interrupted' \subseteq Interrupted
    BY <1>1 DEF Interrupted
  <1>3. Cardinality(Interrupted') <= Cardinality(Interrupted) /\ Cardinality(Interrupted') \in Nat
    BY <1>2, RowsTyped, FS_Subset, FS_CardinalityType
  <1>4. Len(ingested) + Cardinality(Interrupted') <= Cardinality(Ingested) + faults'
    BY <1>3, RowsTyped DEF ProgressInv
  <1> QED
    BY <1>1, <1>4 DEF ProgressInv, Testing

\* A row of a test, in either file.
LEMMA RowAdded ==
  ASSUME NEW rows \in Seq(Tests), NEW t \in Tests
  PROVE  /\ Append(rows, t) \in Seq(Tests) /\ Len(Append(rows, t)) = Len(rows) + 1
         /\ {Append(rows, t)[i] : i \in DOMAIN Append(rows, t)}
              = {rows[i] : i \in DOMAIN rows} \cup {t}
  <1>1. /\ Append(rows, t) \in Seq(Tests) /\ Len(Append(rows, t)) = Len(rows) + 1
        /\ \A i \in 1 .. Len(rows) : Append(rows, t)[i] = rows[i]
        /\ Append(rows, t)[Len(rows) + 1] = t
    BY AppendProperties
  <1>2. /\ DOMAIN rows = 1 .. Len(rows) /\ Len(rows) \in Nat
        /\ DOMAIN Append(rows, t) = 1 .. Len(rows) + 1
    BY <1>1
  <1> QED
    BY <1>1, <1>2

LEMMA AppendRowKeepsProgress ==
  ASSUME ProgressInv, faults \in Nat, AppendRow
  PROVE  ProgressInv'
  <1> DEFINE t == at.test
  <1>1. t \in Tests \ Recorded /\ pc = "append" /\ done = Recorded
    BY DEF ProgressInv, AppendRow, Testing
  <1>2. /\ progress' = Append(progress, t) /\ done' = done \cup {t} /\ pc' = "next" /\ at' = NoTest
        /\ UNCHANGED <<run, faults, ingested>>
    BY DEF AppendRow, runVars
  <1> HIDE DEF t
  <1>3. /\ progress' \in Seq(Tests) /\ Len(progress') = Len(progress) + 1
        /\ Recorded' = Recorded \cup {t} /\ Ingested' = Ingested
    BY <1>1, <1>2, RowAdded DEF ProgressInv, Recorded, Ingested
  <1>4. Cardinality(Recorded') = Cardinality(Recorded) + 1
    BY <1>1, <1>3, RowsTyped, FS_AddElement
  <1>5. Interrupted' = Interrupted
    BY <1>1, <1>2, <1>3 DEF Interrupted, t
  <1>6. DOMAIN at' = DOMAIN NoTest /\ at'.test \in Nat
    BY <1>2 DEF NoTest
  <1> QED
    BY <1>1, <1>2, <1>3, <1>4, <1>5, <1>6 DEF ProgressInv, Testing

LEMMA AttributeKeepsProgress ==
  ASSUME ProgressInv, faults \in Nat, Attribute
  PROVE  ProgressInv'
  <1> DEFINE t == at.test
  <1>1. t \in Tests \ Recorded /\ pc = "attribute" /\ done = Recorded /\ t \in Nat
    BY DEF ProgressInv, Attribute, Testing
  <1>2. /\ ingested' = Append(ingested, t) /\ pc' = "append"
        /\ UNCHANGED <<faults, done, progress>>
    BY DEF Attribute, runVars
  <1>3. at'.test = t /\ DOMAIN at' = DOMAIN at
    <2>1. PICK found : at' = [at EXCEPT !.run = found.run, !.seen = found.seen]
      BY DEF Attribute
    <2>2. "test" \in DOMAIN at
      BY DEF ProgressInv, NoTest
    <2> QED
      BY <2>1, <2>2
  <1> HIDE DEF t
  <1>4. /\ ingested' \in Seq(Tests) /\ Len(ingested') = Len(ingested) + 1
        /\ Ingested' = Ingested \cup {t} /\ Recorded' = Recorded
    <2>1. t \in Tests /\ ingested \in Seq(Tests)
      BY <1>1 DEF ProgressInv
    <2>2. Recorded' = Recorded
      BY <1>2 DEF Recorded
    <2> QED
      BY <1>2, <2>1, <2>2, RowAdded DEF Ingested
  <1>5. Interrupted' = Interrupted \ {t}
    BY <1>1, <1>2, <1>3, <1>4 DEF Interrupted
  <1>6. Cardinality(Interrupted') + 1 <= Cardinality(Interrupted) + (Cardinality(Ingested') - Cardinality(Ingested))
        /\ Cardinality(Ingested') \in Nat /\ Cardinality(Interrupted') \in Nat
    <2>1. CASE t \in Ingested
      <3>1. t \in Interrupted /\ Ingested' = Ingested
        BY <1>1, <1>4, <2>1 DEF Interrupted
      <3>2. Cardinality(Interrupted') = Cardinality(Interrupted) - 1
        BY <1>5, <3>1, RowsTyped, FS_RemoveElement
      <3>3. IsFiniteSet(Interrupted')
        BY <1>5, RowsTyped, FS_RemoveElement
      <3> QED
        BY <3>1, <3>2, <3>3, RowsTyped, FS_CardinalityType
    <2>2. CASE t \notin Ingested
      <3>1. Interrupted' = Interrupted
        BY <1>5, <2>2 DEF Interrupted
      <3>2. Cardinality(Ingested') = Cardinality(Ingested) + 1
        BY <1>4, <2>2, RowsTyped, FS_AddElement
      <3> QED
        BY <3>1, <3>2, RowsTyped
    <2> QED
      BY <2>1, <2>2
  <1>7. Len(ingested') + Cardinality(Interrupted') <= Cardinality(Ingested') + faults
    BY <1>4, <1>6, RowsTyped DEF ProgressInv
  <1> QED
    BY <1>1, <1>2, <1>3, <1>4, <1>7 DEF ProgressInv, Testing

\* A crash may leave the ingested test without its row: it counts as a restart.
LEMMA CrashKeepsProgress ==
  ASSUME ProgressInv, faults \in Nat, Crash
  PROVE  ProgressInv'
  <1>0. /\ faults' = faults + 1 /\ pc' = "down" /\ at' = NoTest /\ ingested' = ingested
        /\ DOMAIN at' = DOMAIN NoTest /\ at'.test \in Nat
    BY DEF Crash, NoTest
  <1>1. CASE progress' = progress
    <2>1. Recorded' = Recorded /\ Ingested' = Ingested
      BY <1>0, <1>1 DEF Recorded, Ingested
    <2>2. Interrupted' \subseteq Interrupted \cup {at.test}
      BY <1>0, <2>1 DEF Interrupted
    <2>3. Cardinality(Interrupted') <= Cardinality(Interrupted) + 1 /\ Cardinality(Interrupted') \in Nat
      <3>1. /\ IsFiniteSet(Interrupted \cup {at.test})
            /\ Cardinality(Interrupted \cup {at.test}) \in
                 {Cardinality(Interrupted), Cardinality(Interrupted) + 1}
        BY RowsTyped, FS_AddElement
      <3> QED
        BY <2>2, <3>1, RowsTyped, FS_Subset, FS_CardinalityType
    <2>4. Len(ingested) + Cardinality(Interrupted') <= Cardinality(Ingested) + faults'
      BY <1>0, <2>3, RowsTyped DEF ProgressInv
    <2> QED
      BY <1>0, <1>1, <2>1, <2>4 DEF ProgressInv, Testing
  <1>2. CASE pc = "append" /\ progress' = Append(progress, at.test)
    <2> DEFINE t == at.test
    <2>1. t \in Tests \ Recorded
      BY <1>2 DEF ProgressInv
    <2>2. /\ progress' \in Seq(Tests) /\ Len(progress') = Len(progress) + 1
          /\ Recorded' = Recorded \cup {t} /\ Ingested' = Ingested
      BY <1>0, <1>2, <2>1, RowAdded DEF ProgressInv, Recorded, Ingested
    <2>3. Cardinality(Recorded') = Cardinality(Recorded) + 1
      BY <2>1, <2>2, RowsTyped, FS_AddElement
    <2>4. Interrupted' = Interrupted
      BY <1>0, <1>2, <2>2 DEF Interrupted
    <2>5. Len(ingested) + Cardinality(Interrupted') <= Cardinality(Ingested) + faults'
      BY <1>0, <2>4, RowsTyped DEF ProgressInv
    <2> QED
      BY <1>0, <2>2, <2>3, <2>5 DEF ProgressInv, Testing
  <1> QED
    BY <1>1, <1>2 DEF Crash

-------------------------------------------------------------------------------
(***************************************************************************)
(* Both together.                                                          *)
(***************************************************************************)

\* n8n adds a batch.
LEMMA StartBatchKeepsRuns ==
  ASSUME RunsInv, UNCHANGED <<run, known, lock, faults>>, batch' = Append(batch, NewBatch)
  PROVE  RunsInv'
  <1> USE DEF RunsInv
  <1>1. NewBatch \in Batch /\ NewBatch.winner = 0 /\ NewBatch.thread = "queued"
    BY RunsAssumption DEF NewBatch, Batch
  <1>2. batch \in Seq(Batch)
    BY DEF RunsTypeOK
  <1> HIDE DEF NewBatch
  <1>3. /\ batch' \in Seq(Batch) /\ DOMAIN batch' = 1 .. Len(batch) + 1
        /\ \A b \in 1 .. Len(batch) : batch'[b] = batch[b]
        /\ batch'[Len(batch) + 1] = NewBatch
    <2>1. /\ batch' \in Seq(Batch) /\ Len(batch') = Len(batch) + 1
          /\ \A b \in 1 .. Len(batch) : batch'[b] = batch[b]
          /\ batch'[Len(batch) + 1] = NewBatch
      BY <1>1, <1>2, AppendProperties
    <2> QED
      BY <2>1
  <1>4. /\ \A b \in DOMAIN batch : b \in DOMAIN batch' /\ batch'[b] = batch[b]
        /\ \A b \in DOMAIN batch' : b \in DOMAIN batch \/ batch'[b] = NewBatch
    BY <1>3, RunsTyped
  <1>5. RunsTypeOK'
    BY <1>1, <1>3, <1>4, RunsTyped DEF RunsTypeOK, RunId
  <1>6. LockHeld'
    BY <1>1, <1>4 DEF LockHeld
  <1>7. AwaitedByThread'
    <2>1. Awaited' = Awaited /\ \A c : RunsOf(c)' = RunsOf(c)
      BY DEF Awaited, RunsOf, RunId
    <2>2. \A r \in Awaited : run'[r] = run[r]
      BY DEF Awaited
    <2> SUFFICES ASSUME NEW r \in Awaited, NEW c, c = run[r].batch, c # 0
                 PROVE  /\ c \in DOMAIN batch' /\ batch'[c].thread = "running"
                        /\ Awaited' \cap RunsOf(c)' = {r}
      BY <2>1, <2>2 DEF AwaitedByThread, RunsOf
    <2> QED
      BY <1>4, <2>1 DEF AwaitedByThread
  <1>8. CompletedIsReal'
    BY <1>1, <1>4 DEF CompletedIsReal, RunId
  <1> QED
    BY <1>5, <1>6, <1>7, <1>8

LEMMA UnchangedRuns ==
  ASSUME RunsInv, UNCHANGED <<run, known, lock, batch>>, faults' \in 0 .. MaxFaults
  PROVE  RunsInv'
  <1>1. Awaited' = Awaited /\ RunId' = RunId /\ \A c : RunsOf(c)' = RunsOf(c)
    BY DEF Awaited, RunsOf, RunId
  <1> QED
    BY <1>1 DEF RunsInv, RunsTypeOK, LockHeld, AwaitedByThread, CompletedIsReal

LEMMA FaultsTyped ==
  ASSUME RunsInv
  PROVE  faults \in Nat /\ faults \in 0 .. MaxFaults /\ MaxFaults \in Nat
BY RunsAssumption DEF RunsInv, RunsTypeOK

LEMMA RunnerExceptionKeepsInv ==
  ASSUME CampaignInv, pc \in {"isaac", "prompt", "approval"}, RunnerException
  PROVE  CampaignInv'
  <1>1. UNCHANGED <<run, known, lock, batch, faults, progress, ingested, done>>
        /\ pc' = "append" /\ at'.test = at.test /\ DOMAIN at' = DOMAIN NoTest
    BY DEF RunnerException, runVars, files, NoTest
  <1>2. RunsInv'
    BY <1>1, FaultsTyped, UnchangedRuns DEF CampaignInv
  <1>3. ProgressInv /\ at.test \in Tests \ Recorded /\ done = Recorded /\ at.test \in Nat
        /\ DOMAIN at = DOMAIN NoTest
    BY DEF CampaignInv, ProgressInv, Testing
  <1>4. ProgressInv'
    BY <1>1, <1>3, FaultsTyped, QuietKeepsProgress DEF CampaignInv
  <1> QED
    BY <1>2, <1>4 DEF CampaignInv

LEMMA StepKeepsInv ==
  ASSUME CampaignInv, [Next]_vars
  PROVE  CampaignInv'
  <1>0. RunsInv /\ ProgressInv /\ faults \in Nat /\ faults \in 0 .. MaxFaults /\ MaxFaults \in Nat
    BY FaultsTyped DEF CampaignInv
  <1>1. CASE Elsewhere
    <2>1. RunsInv'
      BY <1>0, <1>1, RunsNextKeepsRuns DEF Elsewhere
    <2>2. faults' >= faults /\ faults' \in Nat
      <3>1. faults' \in {faults, faults + 1}
        BY <1>1 DEF Elsewhere, RunsNext, BatchStep, Acquire, Candidate, Select, Direct,
                    SimulatorEnds, HostAnswers, ClientGivesUp, Poll, HostRestart, ApiRestart
      <3> QED
        BY <1>0, <3>1
    <2>3. UNCHANGED <<progress, ingested, pc, at, done>>
      BY <1>1 DEF Elsewhere, files
    <2>4. ProgressInv'
      BY <1>0, <2>2, <2>3, QuietKeepsProgress DEF ProgressInv
    <2> QED
      BY <2>1, <2>4 DEF CampaignInv
  <1>2. CASE Start
    <2>1. UNCHANGED <<run, known, lock, batch, faults, progress, ingested, at>>
          /\ pc = "down" /\ pc' = "next" /\ done' = Recorded
      BY <1>2 DEF Start, runVars
    <2>2. RunsInv'
      BY <1>0, <2>1, UnchangedRuns
    <2>3. ProgressInv'
      BY <1>0, <2>1, QuietKeepsProgress DEF ProgressInv, Testing
    <2> QED
      BY <2>2, <2>3 DEF CampaignInv
  <1>3. CASE NextTest
    <2>1. UNCHANGED <<run, known, lock, batch, faults, progress, ingested, done>>
          /\ pc = "next" /\ pc' = "isaac"
      BY <1>3 DEF NextTest, runVars, files
    <2>2. done = Recorded
      BY <1>0, <2>1 DEF ProgressInv
    <2>3. at'.test \in Tests \ Recorded
      BY <1>3, <2>2 DEF NextTest, NoTest
    <2>4. at'.test \in Nat
      BY <2>3, TestsAssumption, FS_CardinalityType
    <2>7. DOMAIN at' = DOMAIN at
      BY <1>0, <1>3 DEF NextTest, NoTest, ProgressInv
    <2>5. RunsInv'
      BY <1>0, <2>1, UnchangedRuns
    <2>6. ProgressInv'
      BY <1>0, <2>1, <2>2, <2>3, <2>4, <2>7, QuietKeepsProgress DEF Testing
    <2> QED
      BY <2>5, <2>6 DEF CampaignInv
  <1>4. CASE End
    <2>1. UNCHANGED <<run, known, lock, batch, faults, progress, ingested, done, at>>
          /\ pc = "next" /\ pc' = "end"
      BY <1>4 DEF End, runVars, files
    <2>2. RunsInv'
      BY <1>0, <2>1, UnchangedRuns
    <2>3. ProgressInv'
      BY <1>0, <2>1, QuietKeepsProgress DEF ProgressInv, Testing
    <2> QED
      BY <2>2, <2>3 DEF CampaignInv
  <1>5. CASE AppendRow
    <2>1. UNCHANGED <<run, known, lock, batch, faults>>
      BY <1>5 DEF AppendRow, runVars
    <2> QED
      BY <1>0, <1>5, <2>1, UnchangedRuns, AppendRowKeepsProgress DEF CampaignInv
  <1>6. CASE WaitForNoIsaac
    <2>1. CASE pc' = "prompt" /\ UNCHANGED <<runVars, at, files>>
      <3>1. UNCHANGED <<run, known, lock, batch, faults, progress, ingested, done, at>>
            /\ pc = "isaac" /\ pc' = "prompt"
        BY <1>6, <2>1 DEF WaitForNoIsaac, runVars, files
      <3>2. RunsInv'
        BY <1>0, <3>1, UnchangedRuns
      <3>3. ProgressInv'
        BY <1>0, <3>1, QuietKeepsProgress DEF ProgressInv, Testing
      <3> QED
        BY <3>2, <3>3 DEF CampaignInv
    <2>2. CASE RunnerException
      BY <1>6, <2>2, RunnerExceptionKeepsInv DEF WaitForNoIsaac
    <2> QED
      BY <1>6, <2>1, <2>2 DEF WaitForNoIsaac
  <1>7. CASE Converse
    <2>1. CASE pc' = "approval" /\ UNCHANGED <<runVars, files>>
      <3>0. DOMAIN at = DOMAIN NoTest /\ "test" \in DOMAIN at
        BY <1>0 DEF ProgressInv, NoTest
      <3>1. /\ at'.test = at.test /\ DOMAIN at' = DOMAIN at
            /\ UNCHANGED <<run, known, lock, batch, faults, progress, ingested, done>>
        <4>1. at' = [at EXCEPT !.approved = TRUE, !.asked = TRUE]
          BY <1>7, <2>1 DEF Converse, RunnerException
        <4> QED
          BY <2>1, <3>0, <4>1 DEF runVars, files
      <3>2. RunsInv'
        BY <1>0, <3>1, UnchangedRuns
      <3>3. ProgressInv'
        BY <1>0, <1>7, <2>1, <3>1, QuietKeepsProgress DEF Converse, ProgressInv, Testing
      <3> QED
        BY <3>2, <3>3 DEF CampaignInv
    <2>2. CASE pc' = "attribute" /\ UNCHANGED <<runVars, at, files>>
      <3>1. UNCHANGED <<run, known, lock, batch, faults, progress, ingested, done, at>>
            /\ pc = "prompt" /\ pc' = "attribute"
        BY <1>7, <2>2 DEF Converse, runVars, files
      <3>2. RunsInv'
        BY <1>0, <3>1, UnchangedRuns
      <3>3. ProgressInv'
        BY <1>0, <3>1, QuietKeepsProgress DEF ProgressInv, Testing
      <3> QED
        BY <3>2, <3>3 DEF CampaignInv
    <2>3. CASE RunnerException
      BY <1>7, <2>3, RunnerExceptionKeepsInv DEF Converse
    <2> QED
      BY <1>7, <2>1, <2>2, <2>3 DEF Converse
  <1>8. CASE TurnEnds
    <2>1. CASE pc' = "attribute" /\ UNCHANGED <<runVars, at, files>>
      <3>1. UNCHANGED <<run, known, lock, batch, faults, progress, ingested, done, at>>
            /\ pc = "approval" /\ pc' = "attribute"
        BY <1>8, <2>1 DEF TurnEnds, runVars, files
      <3>2. RunsInv'
        BY <1>0, <3>1, UnchangedRuns
      <3>3. ProgressInv'
        BY <1>0, <3>1, QuietKeepsProgress DEF ProgressInv, Testing
      <3> QED
        BY <3>2, <3>3 DEF CampaignInv
    <2>2. CASE RunnerException
      BY <1>8, <2>2, RunnerExceptionKeepsInv DEF TurnEnds
    <2> QED
      BY <1>8, <2>1, <2>2 DEF TurnEnds
  <1>9. CASE Attribute
    <2>1. UNCHANGED <<run, known, lock, batch, faults>>
      BY <1>9 DEF Attribute, runVars
    <2> QED
      BY <1>0, <1>9, <2>1, UnchangedRuns, AttributeKeepsProgress DEF CampaignInv
  <1>10. CASE Crash
    <2>1. UNCHANGED <<run, known, lock, batch>> /\ faults' \in 0 .. MaxFaults
      BY <1>0, <1>10 DEF Crash
    <2> QED
      BY <1>0, <1>10, <2>1, UnchangedRuns, CrashKeepsProgress DEF CampaignInv
  <1>11. CASE UNCHANGED vars
    <2>1. UNCHANGED <<run, known, lock, batch, faults, progress, ingested, done, at, pc>>
      BY <1>11 DEF vars, runVars, files
    <2> QED
      BY <1>0, <2>1, UnchangedRuns, QuietKeepsProgress DEF CampaignInv, ProgressInv
  <1>12. CASE StartBatch
    <2>1. /\ UNCHANGED <<run, known, lock, faults, progress, ingested, done, pc>>
          /\ batch' = Append(batch, NewBatch)
      BY <1>12 DEF StartBatch, files
    <2>2. at'.test = at.test /\ DOMAIN at' = DOMAIN at
      <3>1. DOMAIN at = DOMAIN NoTest /\ "test" \in DOMAIN at
        BY <1>0 DEF ProgressInv, NoTest
      <3>2. at' = at \/ at' = [at EXCEPT !.asked = FALSE, !.batch = Len(batch) + 1]
        BY <1>12 DEF StartBatch
      <3> QED
        BY <3>1, <3>2
    <2>3. RunsInv'
      BY <1>0, <2>1, StartBatchKeepsRuns
    <2>4. ProgressInv'
      BY <1>0, <2>1, <2>2, QuietKeepsProgress DEF ProgressInv
    <2> QED
      BY <2>3, <2>4 DEF CampaignInv
  <1> QED
    BY <1>1, <1>2, <1>3, <1>4, <1>5, <1>6, <1>7, <1>8, <1>9, <1>10, <1>11, <1>12 DEF Next, CampaignStep

\* The runs and the rows keep their invariant, for every number of candidates,
\* runs, direct calls, restarts and tests.
THEOREM InvariantHolds == Spec => []CampaignInv
  <1>1. Init => CampaignInv
    BY InitRunsInv, InitProgressInv DEF Init, CampaignInv
  <1>2. CampaignInv /\ [Next]_vars => CampaignInv'
    BY StepKeepsInv
  <1> QED
    BY <1>1, <1>2, PTL DEF Spec

\* STRATEGY_SIMULATION_LOCK: no two simulators of batches are awaited together,
\* and two that are alive together are never both awaited.
THEOREM OneSimulator == Spec => []OneSimulatorUnlessAbandoned
  <1>1. RunsInv => OneSimulatorUnlessAbandoned
    <2> SUFFICES ASSUME RunsInv, NEW r \in Awaited, NEW s \in Awaited,
                        run[r].batch # 0, run[s].batch # 0
                 PROVE  r = s
      BY DEF OneSimulatorUnlessAbandoned
    <2>1. /\ lock = run[r].batch /\ lock = run[s].batch
          /\ Awaited \cap RunsOf(run[r].batch) = {r}
      BY DEF RunsInv, AwaitedByThread, LockHeld
    <2>2. s \in RunsOf(run[r].batch)
      BY <2>1 DEF RunsOf, Awaited
    <2> QED
      BY <2>1, <2>2
  <1> QED
    BY <1>1, InvariantHolds, PTL DEF CampaignInv

\* COMPLETED is never said of a run that still goes on, failed or left out
\* lines, and no other run wins a batch.
THEOREM CompletedRunsAreReal == Spec => []CompletedIsReal
BY InvariantHolds, PTL DEF CampaignInv, RunsInv

\* progress.jsonl never repeats a test, and manual_results.jsonl at most once
\* per restart.
THEOREM RowsAreWrittenOnce == Spec => []RowsOnce
  <1>1. CampaignInv => RowsOnce
    <2> SUFFICES ASSUME CampaignInv PROVE RowsOnce
      OBVIOUS
    <2>1. ProgressInv /\ faults \in Nat
      BY FaultsTyped DEF CampaignInv
    <2> QED
      BY <2>1, RowsTyped DEF ProgressInv, RowsOnce
  <1> QED
    BY <1>1, InvariantHolds, PTL

-------------------------------------------------------------------------------
(***************************************************************************)
(* The run that a row names.                                               *)
(***************************************************************************)

\* What a step of the API, the host or a simulator leaves alone: a thread that
\* is done, the batch of a run, and the answer of a run whose batch is done.
Done(r) == run[r].batch # 0 /\ batch[run[r].batch].thread = "done"

RunsEffect ==
  /\ DOMAIN batch' = DOMAIN batch
  /\ \A b \in DOMAIN batch : batch[b].thread = "done" => batch'[b].thread = "done"
  /\ RunId \subseteq RunId'
  /\ \A r \in RunId : run'[r].batch = run[r].batch
  /\ \A r \in RunId' \ RunId :
       run'[r].batch = 0 \/ (run'[r].batch \in DOMAIN batch /\ batch[run'[r].batch].thread # "done")
  /\ \A r \in RunId : Done(r) =>
       /\ run'[r].answer = run[r].answer
       /\ run'[r].left # run[r].left => run[r].answer # "COMPLETED"
  /\ BatchRuns'

LEMMA BatchStepEffect ==
  ASSUME RunsInv, BatchRuns, NEW b \in DOMAIN batch, BatchStep(b)
  PROVE  RunsEffect
  <1>0. /\ RunId = 1 .. Len(run) /\ Len(run) \in Nat /\ b \in Nat \ {0}
        /\ batch \in Seq(Batch) /\ run \in Seq(Run) /\ known \subseteq RunId
    BY RunsTyped DEF RunsInv, RunsTypeOK
  <1>1. DOMAIN batch' = DOMAIN batch /\ \A c \in DOMAIN batch \ {b} : batch'[c] = batch[c]
    BY <1>0 DEF BatchStep, Acquire, Candidate, Select
  <1>2. /\ batch[b].thread # "done"
        /\ batch'[b].thread = "done" => Awaited \cap RunsOf(b) = {} /\ run' = run
    <2>0. batch[b] \in Batch
      BY RunsTyped DEF RunsInv
    <2>1. CASE Acquire(b)
      BY <1>0, <2>0, <2>1 DEF Acquire, Batch
    <2>2. CASE Candidate(b)
      BY <1>0, <2>0, <2>2 DEF Candidate, Batch
    <2>3. CASE Select(b)
      BY <1>0, <2>0, <2>3 DEF Select, Batch
    <2> QED
      BY <2>1, <2>2, <2>3 DEF BatchStep
  <1>3. CASE run' = run
    <2>1. known' = known
      BY DEF BatchStep, Acquire, Candidate, Select
    <2>2. \A r \in RunId : run[r].batch = b /\ batch'[b].thread = "done" => run[r].answer # "waiting"
      BY <1>2 DEF Awaited, RunsOf
    <2>3. BatchRuns'
      BY <1>1, <1>3, <2>1, <2>2 DEF BatchRuns, RunId
    <2> QED
      BY <1>1, <1>2, <1>3, <2>3 DEF RunsEffect, RunId
  <1>4. CASE run' # run
    <2>1. Candidate(b)
      BY <1>4 DEF BatchStep, Acquire, Select
    <2>a. run' = Append(run, StartedRun(b, TRUE)) /\ known' = known
      BY <1>4, <2>1 DEF Candidate
    <2>b. batch'[b].thread # "done"
      BY <1>2, <1>4
    <2>2. /\ RunId' = RunId \cup {Len(run) + 1} /\ Len(run) + 1 \notin RunId
          /\ \A r \in RunId : run'[r] = run[r]
          /\ run'[Len(run) + 1].batch = b
      <3>1. StartedRun(b, TRUE) \in Run /\ StartedRun(b, TRUE).batch = b
        BY <1>0, StartedRunTyped DEF StartedRun
      <3>2. /\ RunId' = 1 .. Len(run) + 1 /\ \A r \in RunId : run'[r] = run[r]
            /\ run'[Len(run) + 1] = StartedRun(b, TRUE)
        BY <2>a, <3>1, RunAppended DEF RunsInv
      <3>3. 1 .. Len(run) + 1 = (1 .. Len(run)) \cup {Len(run) + 1} /\ Len(run) + 1 \notin 1 .. Len(run)
        BY <1>0
      <3> QED
        BY <1>0, <3>1, <3>2, <3>3
    <2>3. BatchRuns'
      <3>1. Len(run) + 1 \notin known
        BY <1>0, <2>2
      <3>2. \A r \in RunId : run[r].batch # 0 /\ run[r].batch # b =>
              /\ run[r].batch \in DOMAIN batch
              /\ batch'[run[r].batch] = batch[run[r].batch]
        BY <1>1 DEF BatchRuns
      <3> SUFFICES ASSUME NEW r \in RunId', run'[r].batch # 0
                   PROVE  /\ r \notin known' /\ run'[r].batch \in DOMAIN batch'
                          /\ batch'[run'[r].batch].thread = "done" => run'[r].answer # "waiting"
        BY DEF BatchRuns
      <3>3. CASE r = Len(run) + 1
        BY <1>1, <2>a, <2>b, <2>2, <3>1, <3>3
      <3>4. CASE r # Len(run) + 1
        <4>1. r \in RunId /\ run'[r] = run[r]
          BY <2>2, <3>4
        <4> QED
          BY <1>1, <2>a, <2>b, <3>2, <4>1 DEF BatchRuns
      <3> QED
        BY <3>3, <3>4
    <2> QED
      BY <1>1, <1>2, <2>2, <2>3 DEF RunsEffect
  <1> QED
    BY <1>3, <1>4

LEMMA DirectEffect ==
  ASSUME RunsInv, BatchRuns, NEW sync \in BOOLEAN, Direct(sync)
  PROVE  RunsEffect
  <1>0. RunId = 1 .. Len(run) /\ Len(run) \in Nat /\ known \subseteq RunId
    BY RunsTyped DEF RunsInv, RunsTypeOK
  <1>1. PICK rec \in Run : rec.batch = 0 /\ run' = Append(run, rec)
    <2>1. StartedRun(0, sync) \in Run /\ [StartedRun(0, FALSE) EXCEPT !.answer = "FAILED"] \in Run
      BY DEF StartedRun, Run
    <2>2. /\ StartedRun(0, sync).batch = 0
          /\ [StartedRun(0, FALSE) EXCEPT !.answer = "FAILED"].batch = 0
      BY DEF StartedRun
    <2> QED
      BY <2>1, <2>2 DEF Direct
  <1>2. /\ RunId' = RunId \cup {Len(run) + 1} /\ Len(run) + 1 \notin RunId
        /\ \A r \in RunId : run'[r] = run[r]
        /\ run'[Len(run) + 1].batch = 0
    BY <1>0, <1>1, RunAppended DEF RunsInv
  <1>3. batch' = batch /\ known' \subseteq known \cup {Len(run) + 1}
    BY DEF Direct
  <1>4. BatchRuns'
    BY <1>0, <1>2, <1>3 DEF BatchRuns
  <1> QED
    BY <1>2, <1>3, <1>4 DEF RunsEffect

LEMMA AnsweredEffect ==
  ASSUME RunsInv, BatchRuns, NEW r \in RunId, NEW rec,
         run' = [run EXCEPT ![r] = rec],
         rec.batch = run[r].batch,
         Done(r) => rec.answer = run[r].answer /\ run[r].answer # "COMPLETED",
         UNCHANGED <<known, batch>>
  PROVE  RunsEffect
  <1>1. /\ RunId' = RunId /\ run'[r] = rec
        /\ \A s \in RunId \ {r} : run'[s] = run[s]
    BY DEF RunsInv, RunsTypeOK, RunId
  <1>2. BatchRuns'
    BY <1>1 DEF BatchRuns, Done
  <1> QED
    BY <1>1, <1>2 DEF RunsEffect, Done

LEMMA OneRunEffect ==
  ASSUME RunsInv, BatchRuns, NEW r \in RunId,
         SimulatorEnds(r) \/ HostAnswers(r) \/ ClientGivesUp(r) \/ Poll(r)
  PROVE  RunsEffect
  <1>0. run[r] \in Run
    BY DEF RunsInv, RunsTypeOK, RunId
  <1>1. UNCHANGED <<known, batch>>
    BY DEF SimulatorEnds, HostAnswers, ClientGivesUp, Poll
  <1>2. CASE SimulatorEnds(r)
    <2>1. PICK left \in {"complete", "flawed"} : run' = [run EXCEPT ![r].left = left]
      BY <1>2 DEF SimulatorEnds
    <2> DEFINE rec == [run[r] EXCEPT !.left = left]
    <2>2. run' = [run EXCEPT ![r] = rec] /\ rec.batch = run[r].batch /\ rec.answer = run[r].answer
      BY <1>0, <2>1 DEF Run
    <2>3. run[r].answer # "COMPLETED"
      BY <1>2 DEF SimulatorEnds, Alive, RunsInv, CompletedIsReal
    <2> QED
      BY <1>1, <2>2, <2>3, AnsweredEffect
  <1>3. CASE ~SimulatorEnds(r)
    <2>1. ~Done(r)
      BY <1>3 DEF HostAnswers, ClientGivesUp, Poll, BatchRuns, Done
    <2>2. PICK rec : run' = [run EXCEPT ![r] = rec] /\ rec.batch = run[r].batch
      <3> DEFINE settled == Settled(run[r])
      <3>1. /\ [settled EXCEPT !.answer = Answer(settled)].batch = run[r].batch
            /\ [run[r] EXCEPT !.answer = "FAILED"].batch = run[r].batch
            /\ [run[r] EXCEPT !.answer = "RUNNING"].batch = run[r].batch
        BY <1>0 DEF Settled, Run
      <3>2. \/ run' = [run EXCEPT ![r] = [settled EXCEPT !.answer = Answer(settled)]]
            \/ run' = [run EXCEPT ![r] = [run[r] EXCEPT !.answer = "FAILED"]]
            \/ run' = [run EXCEPT ![r] = [run[r] EXCEPT !.answer = "RUNNING"]]
        BY <1>3 DEF HostAnswers, ClientGivesUp, Poll
      <3> QED
        BY <3>1, <3>2
    <2> QED
      BY <1>1, <2>1, <2>2, AnsweredEffect
  <1> QED
    BY <1>2, <1>3

LEMMA RestartEffect ==
  ASSUME RunsInv, BatchRuns, HostRestart \/ ApiRestart
  PROVE  RunsEffect
  <1>0. \A r \in RunId : run[r] \in Run /\ \A b \in DOMAIN batch : batch[b] \in Batch
    BY RunsTyped DEF RunsInv
  <1>1. /\ RunId' = RunId
        /\ \A r \in RunId : /\ run'[r].batch = run[r].batch /\ run'[r].left = run[r].left
                            /\ run'[r].answer = IF run[r].answer = "waiting" THEN "FAILED" ELSE run[r].answer
    BY <1>0 DEF HostRestart, ApiRestart, RunId, Run
  <1>2. /\ DOMAIN batch' = DOMAIN batch /\ known' \subseteq known
        /\ \A b \in DOMAIN batch : batch[b].thread = "done" <=> batch'[b].thread = "done"
    <2>1. CASE HostRestart
      BY <2>1 DEF HostRestart
    <2>2. CASE ApiRestart
      <3>1. ASSUME NEW b \in DOMAIN batch
            PROVE  batch[b].thread = "done" <=> batch'[b].thread = "done"
        <4>1. batch[b] \in Batch
          BY RunsTyped DEF RunsInv
        <4>2. batch'[b] = IF batch[b].thread = "done" THEN batch[b]
                                                      ELSE [batch[b] EXCEPT !.thread = "gone"]
          BY <2>2 DEF ApiRestart
        <4> QED
          BY <4>1, <4>2 DEF Batch
      <3> QED
        BY <2>2, <3>1 DEF ApiRestart
    <2> QED
      BY <2>1, <2>2
  <1>3. BatchRuns'
    BY <1>1, <1>2 DEF BatchRuns
  <1> QED
    BY <1>1, <1>2, <1>3 DEF RunsEffect, Done, BatchRuns

LEMMA RunsNextEffect ==
  ASSUME RunsInv, BatchRuns, RunsNext
  PROVE  RunsEffect
BY BatchStepEffect, DirectEffect, OneRunEffect, RestartEffect DEF RunsNext

\* The explanation of a run of another test stands.
LEMMA ExplainedStep ==
  ASSUME CampaignInv, ForeignInv, Elsewhere, NEW r \in RunId,
         run[r].batch = at.batch \/ Explained(r)
  PROVE  run'[r].batch = at'.batch \/ Explained(r)'
  <1>1. RunsEffect /\ UNCHANGED <<pc, at, outlived>>
    BY RunsNextEffect DEF Elsewhere, n8n, CampaignInv, ForeignInv
  <1>2. CASE run[r].batch \in outlived \cup {0, at.batch}
    BY <1>1, <1>2 DEF RunsEffect, Explained
  <1>3. CASE run[r].batch \notin outlived \cup {0, at.batch}
    <2>1. Done(r) /\ run[r].answer # "COMPLETED"
      BY <1>3 DEF ForeignInv, LateBatches, BatchRuns, Done, Explained
    <2> QED
      BY <1>1, <2>1 DEF RunsEffect, Explained
  <1> QED
    BY <1>2, <1>3

\* A run that changes during a test is the test's own, or explained.
LEMMA TouchedIsExplained ==
  ASSUME CampaignInv, ForeignInv, Elsewhere, NEW r \in RunId',
         r \notin RunId \/ run'[r].left # run[r].left
  PROVE  run'[r].batch = at'.batch \/ Explained(r)'
  <1>1. RunsEffect /\ UNCHANGED <<pc, at, outlived>>
    BY RunsNextEffect DEF Elsewhere, n8n, CampaignInv, ForeignInv
  <1>2. CASE run'[r].batch \in outlived \cup {0, at.batch}
    BY <1>1, <1>2 DEF Explained
  <1>3. CASE run'[r].batch \notin outlived \cup {0, at.batch}
    <2>1. r \in RunId
      BY <1>1, <1>3 DEF RunsEffect, ForeignInv, LateBatches
    <2>2. Done(r)
      BY <1>1, <1>3, <2>1 DEF RunsEffect, ForeignInv, LateBatches, BatchRuns, Done
    <2> QED
      BY <1>1, <2>1, <2>2 DEF RunsEffect, Explained
  <1> QED
    BY <1>2, <1>3

LEMMA ElsewhereKeepsForeign ==
  ASSUME CampaignInv, ForeignInv, Elsewhere
  PROVE  ForeignInv'
  <1>1. RunsEffect /\ UNCHANGED <<pc, at, outlived>>
    BY RunsNextEffect DEF Elsewhere, n8n, CampaignInv, ForeignInv
  <1>2. LateBatches' /\ OwnBatch' /\ BatchRuns'
    BY <1>1 DEF RunsEffect, ForeignInv, LateBatches, OwnBatch
  <1>3. RowsExplained'
    <2>1. /\ pc \notin Testing => sinceTest' = {}
          /\ \A r \in sinceTest' : \/ r \in sinceTest
                                   \/ r \in RunId' /\ (r \notin RunId \/ run'[r].left # run[r].left)
      BY DEF Elsewhere, RunId
    <2> DEFINE named == IF at.seen THEN {at.run} ELSE {}
    <2>2. ASSUME NEW r \in sinceTest' \cup named
          PROVE  r \in RunId' /\ (run'[r].batch = at'.batch \/ Explained(r)')
      <3>1. CASE r \in sinceTest \cup named
        BY <1>1, <3>1, ExplainedStep DEF ForeignInv, RowsExplained, RunsEffect
      <3>2. CASE r \notin sinceTest \cup named
        BY <1>1, <2>1, <2>2, <3>2, TouchedIsExplained
      <3> QED
        BY <3>1, <3>2
    <2> QED
      BY <1>1, <2>1, <2>2 DEF ForeignInv, RowsExplained
  <1> QED
    BY <1>2, <1>3 DEF ForeignInv

\* A step of the campaign that leaves the runs alone and names none.
LEMMA QuietKeepsForeign ==
  ASSUME CampaignInv, ForeignInv, UNCHANGED <<run, known, batch, sinceTest, outlived>>,
         ~at'.seen, at'.batch = 0, at.batch = 0, pc' # "approval" => ~at'.asked,
         pc' \notin Testing => sinceTest = {}
  PROVE  ForeignInv'
  <1>1. BatchRuns' /\ OwnBatch'
    BY DEF ForeignInv, BatchRuns, OwnBatch, RunId
  <1>2. LateBatches'
    BY RunsTyped DEF CampaignInv, RunsInv, ForeignInv, LateBatches
  <1>3. RowsExplained'
    BY DEF ForeignInv, RowsExplained, Explained, RunId
  <1> QED
    BY <1>1, <1>2, <1>3 DEF ForeignInv

\* The end of a test, whatever ended it: its unfinished batch outlives it.
LEMMA EndKeepsForeign ==
  ASSUME CampaignInv, ForeignInv, UNCHANGED <<run, known, batch>>, Left,
         ~at'.seen, at'.batch = 0, ~at'.asked, pc' \notin Testing, sinceTest' = {}
  PROVE  ForeignInv'
  <1>1. BatchRuns' /\ OwnBatch'
    BY DEF ForeignInv, BatchRuns, OwnBatch, RunId
  <1>2. LateBatches'
    BY DEF ForeignInv, LateBatches, Left, Unfinished
  <1>3. RowsExplained'
    BY DEF ForeignInv, RowsExplained
  <1> QED
    BY <1>1, <1>2, <1>3 DEF ForeignInv

LEMMA ConverseKeepsForeign ==
  ASSUME CampaignInv, ForeignInv, Converse
  PROVE  ForeignInv'
  <1>1. /\ DOMAIN at = DOMAIN NoTest /\ pc = "prompt" /\ at.batch = 0 /\ ~at.asked /\ ~at.seen
    BY DEF Converse, CampaignInv, ProgressInv, ForeignInv, OwnBatch, RowsExplained
  <1>2. CASE ~RunnerException
    <2>1. /\ UNCHANGED <<run, known, batch, sinceTest, outlived>> /\ pc' \in {"approval", "attribute"}
          /\ ~at'.seen /\ at'.batch = 0
          /\ pc' # "approval" => ~at'.asked
      BY <1>1, <1>2 DEF Converse, runVars, n8n, NoTest
    <2> QED
      BY <1>1, <2>1, QuietKeepsForeign DEF Testing
  <1>3. CASE RunnerException
    BY <1>3, EndKeepsForeign DEF RunnerException, NoTest, Testing, runVars
  <1> QED
    BY <1>2, <1>3

\* A batch that n8n starts is the one of the test, or it outlives its turn at once.
LEMMA StartBatchKeepsForeign ==
  ASSUME CampaignInv, ForeignInv, StartBatch
  PROVE  ForeignInv'
  <1> DEFINE b == Len(batch) + 1
  <1>0. DOMAIN at = DOMAIN NoTest /\ batch \in Seq(Batch)
    BY DEF CampaignInv, ProgressInv, RunsInv, RunsTypeOK
  <1>1. /\ UNCHANGED <<run, known, pc, sinceTest>> /\ at'.run = at.run /\ at'.seen = at.seen
        /\ outlived \subseteq outlived'
        /\ \/ /\ at.asked /\ ~at'.asked /\ at'.batch = b
              /\ pc # "approval" => b \in outlived'
           \/ ~at.asked /\ ~at'.asked /\ at'.batch = at.batch /\ b \in outlived'
    BY <1>0 DEF StartBatch, NoTest
  <1>2. /\ DOMAIN batch' = DOMAIN batch \cup {b} /\ b \notin DOMAIN batch
        /\ \A c \in DOMAIN batch : batch'[c] = batch[c] /\ c # 0
    <2>1. NewBatch \in Batch
      BY RunsAssumption DEF NewBatch, Batch
    <2>2. Len(batch) \in Nat /\ DOMAIN batch = 1 .. Len(batch)
      BY <1>0
    <2>3. /\ DOMAIN batch' = 1 .. Len(batch) + 1
          /\ \A c \in 1 .. Len(batch) : batch'[c] = batch[c]
      BY <1>0, <2>1, AppendProperties DEF StartBatch
    <2> QED
      BY <2>2, <2>3
  <1>3. at.asked => at.batch = 0 /\ pc \in {"approval", "attribute", "append"}
    BY DEF ForeignInv, OwnBatch
  <1> HIDE DEF b
  <1>4. OwnBatch'
    BY <1>1, <1>2, <1>3 DEF ForeignInv, OwnBatch
  <1>5. LateBatches'
    BY <1>1, <1>2, <1>3 DEF ForeignInv, LateBatches
  <1>6. BatchRuns'
    BY <1>1, <1>2 DEF ForeignInv, BatchRuns, RunId
  <1>7. RowsExplained'
    BY <1>1, <1>3 DEF ForeignInv, RowsExplained, Explained, RunId
  <1> QED
    BY <1>4, <1>5, <1>6, <1>7 DEF ForeignInv

LEMMA TurnEndsKeepsForeign ==
  ASSUME CampaignInv, ForeignInv, TurnEnds
  PROVE  ForeignInv'
  <1>1. CASE RunnerException
    BY <1>1, EndKeepsForeign DEF RunnerException, NoTest, Testing, runVars
  <1>2. CASE ~RunnerException
    <2>1. /\ UNCHANGED <<run, known, batch, at, sinceTest>> /\ pc = "approval" /\ pc' = "attribute"
          /\ outlived' = outlived \cup Unfinished
      BY <1>2 DEF TurnEnds, runVars
    <2>2. BatchRuns' /\ OwnBatch'
      BY <2>1 DEF ForeignInv, BatchRuns, OwnBatch, RunId
    <2>3. LateBatches'
      BY <2>1 DEF ForeignInv, LateBatches, Unfinished
    <2>4. RowsExplained'
      BY <2>1 DEF ForeignInv, RowsExplained, Explained, RunId, Testing
    <2> QED
      BY <2>2, <2>3, <2>4 DEF ForeignInv
  <1> QED
    BY <1>1, <1>2

\* The selection and a database written during the test are of a run of the test, or
\* of one that may still be going.
LEMMA AttributedIsExplained ==
  ASSUME CampaignInv, ForeignInv, NEW fetched \in BOOLEAN, NEW found \in Attributed(fetched),
         found.seen
  PROVE  found.run \in RunId /\ (run[found.run].batch = at.batch \/ Explained(found.run))
  <1>1. at.batch # 0 /\ batch[at.batch].winner # 0 =>
          /\ batch[at.batch].winner \in RunId
          /\ run[batch[at.batch].winner].batch = at.batch
    BY RunsTyped DEF CampaignInv, RunsInv, CompletedIsReal, ForeignInv, OwnBatch
  <1>2. \A s \in sinceTest : s \in RunId /\ (run[s].batch = at.batch \/ Explained(s))
    BY DEF ForeignInv, RowsExplained
  <1>3. \A s \in RunId : Alive(s) => Explained(s)
    BY DEF CampaignInv, RunsInv, CompletedIsReal, Alive, Explained
  <1>4. CASE fetched /\ at.batch # 0 /\ batch[at.batch].winner # 0
    <2>1. found.run = batch[at.batch].winner
      BY <1>4 DEF Attributed
    <2> QED
      BY <1>1, <1>4, <2>1
  <1>5. CASE ~(fetched /\ at.batch # 0 /\ batch[at.batch].winner # 0)
    <2> DEFINE written == sinceTest \cup {r \in RunId : Alive(r)}
    <2>1. found \in [run: RunId \cup {0}, seen: {FALSE}]
                      \cup [run: IF at.approved THEN written ELSE {}, seen: {TRUE}]
      BY <1>5 DEF Attributed
    <2>2. found.run \in written
      BY <2>1
    <2> QED
      BY <1>2, <1>3, <2>2
  <1> QED
    BY <1>4, <1>5

LEMMA AttributeKeepsForeign ==
  ASSUME CampaignInv, ForeignInv, Attribute
  PROVE  ForeignInv'
  <1>0. /\ DOMAIN at = DOMAIN NoTest /\ pc = "attribute" /\ pc' = "append" /\ sinceTest' = {}
        /\ UNCHANGED <<run, known, batch, outlived>>
    BY DEF Attribute, CampaignInv, ProgressInv, runVars, n8n
  <1>1. PICK fetched \in BOOLEAN : \E found \in Attributed(fetched) :
          at' = [at EXCEPT !.run = found.run, !.seen = found.seen]
    BY DEF Attribute
  <1>2. PICK found \in Attributed(fetched) :
          at' = [at EXCEPT !.run = found.run, !.seen = found.seen]
    BY <1>1
  <1>3. at'.run = found.run /\ at'.seen = found.seen /\ at'.batch = at.batch /\ at'.asked = at.asked
    BY <1>0, <1>2 DEF NoTest
  <1>4. BatchRuns' /\ OwnBatch'
    BY <1>0, <1>3 DEF ForeignInv, BatchRuns, OwnBatch, RunId
  <1>5. LateBatches'
    BY <1>0 DEF ForeignInv, LateBatches
  <1>6. found.seen =>
          found.run \in RunId /\ (run[found.run].batch = at.batch \/ Explained(found.run))
    BY AttributedIsExplained
  <1>7. RowsExplained'
    BY <1>0, <1>3, <1>6 DEF RowsExplained, Explained, RunId
  <1> QED
    BY <1>4, <1>5, <1>7 DEF ForeignInv

LEMMA StepKeepsForeign ==
  ASSUME CampaignInv, ForeignInv, [Next]_vars
  PROVE  ForeignInv'
  <1>1. CASE Elsewhere
    BY <1>1, ElsewhereKeepsForeign
  <1>2. CASE Start \/ End
    <2>1. at.batch = 0 /\ ~at.seen /\ ~at.asked /\ sinceTest = {}
      BY <1>2 DEF Start, End, ForeignInv, OwnBatch, RowsExplained, Testing
    <2> QED
      BY <1>2, <2>1, QuietKeepsForeign DEF Start, End, runVars, n8n
  <1>3. CASE NextTest
    <2>1. at.batch = 0 /\ at'.batch = 0 /\ ~at'.seen /\ ~at'.asked /\ pc' = "isaac"
      BY <1>3 DEF NextTest, NoTest, ForeignInv, OwnBatch
    <2> QED
      BY <1>3, <2>1, QuietKeepsForeign DEF NextTest, runVars, n8n, Testing
  <1>4. CASE AppendRow
    <2>1. sinceTest = {}
      BY <1>4 DEF AppendRow, ForeignInv, RowsExplained, Testing
    <2> QED
      BY <1>4, <2>1, EndKeepsForeign DEF AppendRow, NoTest, Testing, runVars
  <1>5. CASE WaitForNoIsaac
    <2>1. CASE RunnerException
      BY <2>1, EndKeepsForeign DEF RunnerException, NoTest, Testing, runVars
    <2>2. CASE ~RunnerException
      BY <1>5, <2>2, QuietKeepsForeign
         DEF WaitForNoIsaac, ForeignInv, OwnBatch, RowsExplained, Testing, runVars, n8n
    <2> QED
      BY <2>1, <2>2
  <1>6. CASE Crash
    BY <1>6, EndKeepsForeign DEF Crash, NoTest, Testing
  <1>7. CASE UNCHANGED vars
    BY <1>7 DEF ForeignInv, LateBatches, BatchRuns, OwnBatch, RowsExplained, Explained, RunId, vars,
                runVars, n8n
  <1> QED
    BY <1>1, <1>2, <1>3, <1>4, <1>5, <1>6, <1>7, StartBatchKeepsForeign, ConverseKeepsForeign,
       TurnEndsKeepsForeign, AttributeKeepsForeign
       DEF Next, CampaignStep

\* The selection, or a database written during the test, puts a row down to a run of
\* another test only if that run may still be going or nobody was told COMPLETED.
THEOREM RowsNameTheirRuns == Spec => []ForeignRunExplained
  <1>1. Init => ForeignInv
    BY
       DEF Init, InitRuns, ForeignInv, LateBatches, BatchRuns, OwnBatch, RowsExplained, RunId,
           NoTest
  <1>2. CampaignInv /\ ForeignInv /\ [Next]_vars => ForeignInv'
    BY StepKeepsForeign
  <1>3. ForeignInv => ForeignRunExplained
    BY DEF ForeignInv, RowsExplained, ForeignRunExplained
  <1> QED
    BY <1>1, <1>2, <1>3, InvariantHolds, PTL DEF Spec
===============================================================================
