------------------------------- MODULE IsaacRuns -------------------------------
(***************************************************************************)
(* The simulation runs as trt-api sees them: POST /simulation/run(s), its  *)
(* polls and the candidate loop of a batch thread (trt_core/api.py), the   *)
(* HTTP client of the host runner, and the host, which HostRunner models   *)
(* in detail.  A synchronous call waits for the host with a timeout of its *)
(* own, a restart of either side forgets what the other still believes,    *)
(* and the simulator goes on whatever its callers do.                      *)
(***************************************************************************)
EXTENDS Naturals, Sequences, FiniteSets

CONSTANTS
  Candidates,   \* candidates of a batch
  MaxRuns,      \* bound: simulators ever started
  MaxDirect,    \* bound: those started by POST /simulation/run directly
  MaxFaults     \* bound: restarts, of trt-api, the host runner or the campaign

ASSUME RunsAssumption == Candidates \in Nat \ {0} /\ {MaxRuns, MaxDirect, MaxFaults} \subseteq Nat

VARIABLES
  run,     \* the runs, by run id (uuid4: a new one each)
  known,   \* SIMULATION_RUNS: asynchronous runs that may be polled
  lock,    \* the batch whose thread holds STRATEGY_SIMULATION_LOCK, 0 if none
  batch,   \* the strategy batches, in the order of their approval
  faults   \* restarts so far

runVars == <<run, known, lock, batch, faults>>

\* A run: its batch (0: a direct call); what the simulator leaves ("alive" while it
\* runs; "flawed": it failed, was killed, or left out results or lines of the
\* scope); whether the host has it in RUNS; and what the caller was told, last.
Run == [batch: Nat, left: {"alive", "complete", "flawed"}, hosted: BOOLEAN,
        answer: {"waiting", "RUNNING", "COMPLETED", "FAILED"}]

\* A batch: its thread, the candidates left, the run that won.
Batch == [thread: {"queued", "running", "done", "gone"}, left: 0 .. Candidates,
          winner: 0 .. MaxRuns]

RunId == DOMAIN run
Alive(r) == run[r].left = "alive"
RunsOf(b) == {r \in RunId : run[r].batch = b}
Awaited == {r \in RunId : run[r].answer = "waiting"}

InitRuns ==
  /\ run = <<>>
  /\ known = {}
  /\ lock = 0
  /\ batch = <<>>
  /\ faults = 0

\* build_isaac_command has found no error and the host has started the process.
StartedRun(b, sync) ==
  [batch |-> b, left |-> "alive", hosted |-> TRUE,
   answer |-> IF sync THEN "waiting" ELSE "RUNNING"]

NewBatch == [thread |-> "queued", left |-> Candidates, winner |-> 0]

-------------------------------------------------------------------------------
(***************************************************************************)
(* The batch thread.                                                       *)
(***************************************************************************)

Acquire_NoLock_Fault(b) ==
  /\ batch[b].thread = "queued"
  /\ lock' = b
  /\ batch' = [batch EXCEPT ![b].thread = "running"]
  /\ UNCHANGED <<run, known, faults>>

Acquire(b) ==
  /\ lock = 0
  /\ batch[b].thread = "queued"
  /\ lock' = b
  /\ batch' = [batch EXCEPT ![b].thread = "running"]
  /\ UNCHANGED <<run, known, faults>>

\* The next candidate: its ScenarioSpec is not generated, its command is not
\* valid or the host refuses it, and it fails; or a simulator is started.
Candidate(b) ==
  /\ batch[b].thread = "running" /\ batch[b].left > 0
  /\ Awaited \cap RunsOf(b) = {}
  /\ batch' = [batch EXCEPT ![b].left = @ - 1]
  /\ \/ UNCHANGED run
     \/ /\ Len(run) < MaxRuns
        /\ run' = Append(run, StartedRun(b, TRUE))
  /\ UNCHANGED <<known, lock, faults>>

\* rank_candidate_runs: one of the completed runs wins, or none is eligible.
Select(b) ==
  /\ batch[b].thread = "running" /\ batch[b].left = 0
  /\ Awaited \cap RunsOf(b) = {}
  /\ \E w \in {r \in RunsOf(b) : run[r].answer = "COMPLETED"} \cup {0} :
       batch' = [batch EXCEPT ![b].winner = w, ![b].thread = "done"]
  /\ lock' = IF lock = b THEN 0 ELSE lock
  /\ UNCHANGED <<run, known, faults>>

-------------------------------------------------------------------------------
(***************************************************************************)
(* POST /simulation/run and the host.                                      *)
(***************************************************************************)

\* A direct call takes no lock.  An asynchronous one whose start times out (10
\* seconds) is told FAILED and not registered, though the simulator runs.
Direct(sync) ==
  /\ Len(run) < MaxRuns /\ Cardinality(RunsOf(0)) < MaxDirect
  /\ \/ /\ run' = Append(run, StartedRun(0, sync))
        /\ known' = IF sync THEN known ELSE known \cup {Len(run) + 1}
     \/ /\ ~sync
        /\ run' = Append(run, [StartedRun(0, FALSE) EXCEPT !.answer = "FAILED"])
        /\ UNCHANGED known
  /\ UNCHANGED <<lock, batch, faults>>

SimulatorEnds(r) ==
  /\ Alive(r)
  /\ \E left \in {"complete", "flawed"} : run' = [run EXCEPT ![r].left = left]
  /\ UNCHANGED <<known, lock, batch, faults>>

\* What the host makes of a run it knows (_refresh_isaac_run), in its own loop or
\* for a poll: an ended process settles it, one whose timeout has passed is killed.
Settled(rec) == IF rec.left = "alive" THEN [rec EXCEPT !.left = "flawed"] ELSE rec

\* COMPLETED: the host says so, the results are readable and cover the scope.
Answer_Unread_Fault(rec) == IF rec.hosted THEN "COMPLETED" ELSE "FAILED"

Answer(rec) == IF rec.hosted /\ rec.left = "complete" THEN "COMPLETED" ELSE "FAILED"

\* The answer of the host, when the process has ended or has been killed.
HostAnswers(r) ==
  /\ run[r].answer = "waiting"
  /\ LET rec == Settled(run[r]) IN run' = [run EXCEPT ![r] = [rec EXCEPT !.answer = Answer(rec)]]
  /\ UNCHANGED <<known, lock, batch, faults>>

\* urlopen fails, at the latest timeout_seconds + 5 after the start: the host may
\* take up to 30 seconds to end the process.  The host goes on without its client.
ClientGivesUp(r) ==
  /\ run[r].answer = "waiting"
  /\ run' = [run EXCEPT ![r].answer = "FAILED"]
  /\ UNCHANGED <<known, lock, batch, faults>>

\* GET /simulation/run/{id}: an answer of that moment; a host that does not
\* answer within 10 seconds, or has forgotten the run, is a FAILED too.
Poll(r) ==
  /\ r \in known
  /\ \/ run' = [run EXCEPT ![r].answer = "FAILED"]
     \/ /\ Alive(r) /\ run[r].hosted
        /\ run' = [run EXCEPT ![r].answer = "RUNNING"]
     \/ /\ run[r].hosted
        /\ LET rec == Settled(run[r]) IN
             run' = [run EXCEPT ![r] = [rec EXCEPT !.answer = Answer(rec)]]
  /\ UNCHANGED <<known, lock, batch, faults>>

\* RUNS and PROCESSES are gone, the simulators are not; open requests break.
HostRestart ==
  /\ faults < MaxFaults
  /\ faults' = faults + 1
  /\ run' = [r \in RunId |->
       [run[r] EXCEPT !.hosted = FALSE, !.answer = IF @ = "waiting" THEN "FAILED" ELSE @]]
  /\ UNCHANGED <<known, lock, batch>>

\* SIMULATION_RUNS, the lock and the batch threads are gone: nobody hears an answer.
ApiRestart ==
  /\ faults < MaxFaults
  /\ faults' = faults + 1
  /\ known' = {}
  /\ lock' = 0
  /\ batch' = [b \in DOMAIN batch |->
       IF batch[b].thread = "done" THEN batch[b] ELSE [batch[b] EXCEPT !.thread = "gone"]]
  /\ run' = [r \in RunId |-> [run[r] EXCEPT !.answer = IF @ = "waiting" THEN "FAILED" ELSE @]]

BatchStep(b) == Acquire(b) \/ Candidate(b) \/ Select(b)

RunsNext ==
  \/ \E b \in DOMAIN batch : BatchStep(b)
  \/ \E sync \in BOOLEAN : Direct(sync)
  \/ \E r \in RunId : SimulatorEnds(r) \/ HostAnswers(r) \/ ClientGivesUp(r) \/ Poll(r)
  \/ HostRestart \/ ApiRestart

-------------------------------------------------------------------------------
(***************************************************************************)
(* Properties.                                                             *)
(***************************************************************************)

\* "Each candidate [...] is compiled into its own ScenarioSpec and run through
\* Isaac Sim sequentially": two simulators of batches are alive at a time only
\* if one of them was abandoned, by a client that gave up or by a restart.
OneSimulatorUnlessAbandoned ==
  \A r, s \in RunId :
    r # s /\ Alive(r) /\ Alive(s) /\ run[r].batch # 0 /\ run[s].batch # 0
      => ~({r, s} \subseteq Awaited)

\* Nobody is ever told COMPLETED of a run whose simulator still runs, failed or
\* left out lines, and only such a run can win a batch, whichever side restarts
\* and however often the run is polled.
CompletedIsReal ==
  /\ \A r \in RunId : run[r].answer = "COMPLETED" => run[r].left = "complete"
  /\ \A b \in DOMAIN batch :
       batch[b].winner # 0 => /\ run[batch[b].winner].batch = b
                              /\ run[batch[b].winner].left = "complete"

-------------------------------------------------------------------------------
(***************************************************************************)
(* The inductive invariant behind both properties.                         *)
(***************************************************************************)

RunsTypeOK ==
  /\ run \in Seq(Run) /\ Len(run) <= MaxRuns
  /\ batch \in Seq(Batch) /\ \A b \in DOMAIN batch : batch[b].winner <= Len(run)
  /\ known \subseteq RunId
  /\ lock \in Nat
  /\ faults \in 0 .. MaxFaults

\* A batch thread waits for a run only while it holds the lock, and for one at a time.
LockHeld == \A b \in DOMAIN batch : batch[b].thread = "running" => lock = b

AwaitedByThread ==
  \A r \in Awaited :
    run[r].batch # 0 => /\ run[r].batch \in DOMAIN batch
                        /\ batch[run[r].batch].thread = "running"
                        /\ Awaited \cap RunsOf(run[r].batch) = {r}

RunsInv == RunsTypeOK /\ LockHeld /\ AwaitedByThread /\ CompletedIsReal
===============================================================================
