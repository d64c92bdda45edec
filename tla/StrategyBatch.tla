----------------------------- MODULE StrategyBatch -----------------------------
(***************************************************************************)
(* Execution of candidate-strategy batches (trt_core/api.py): POST         *)
(* /strategy/batches/{id}/run starts a daemon thread that simulates the    *)
(* candidates of the batch one by one under a process-wide lock, GET       *)
(* /strategy/batches/{id} is polled for the result.                        *)
(*                                                                         *)
(* The batch file is the only thing that survives a restart; the registry  *)
(* of threads and the lock are memory of the API process.  Clients are     *)
(* request threads, workers the batch threads.  A request reads the batch  *)
(* file, then looks at the registry, then writes the file: three steps,    *)
(* between which workers and other requests run.  _atomic_write_json takes *)
(* two steps and its temporary file is shared, as in TRTRelease.           *)
(***************************************************************************)
EXTENDS Integers, Sequences, FiniteSets

CONSTANTS
  Batches,      \* ids of candidate batches (uuid4)
  Clients,      \* requests the thread pool serves at the same time
  Candidates,   \* candidates of a batch
  MaxRuns,      \* bound: worker threads ever created
  MaxRestarts,  \* bound: restarts of the API process
  None

Worker == 1 .. MaxRuns
Position == 1 .. Candidates

\* The statuses of a batch file.
Active    == {"QUEUED", "RUNNING"}
Completed == {"SELECTED", "NO_ELIGIBLE_STRATEGY"}
BatchStatus == {"GENERATED", "GENERATION_FAILED", "SYSTEM_ERROR"} \cup Active \cup Completed

\* A candidate run names the thread that made it: it stands for its run_id.
\* FAILED stands for SYSTEM_ERROR too: no code tells the two apart.
RunRecord == [status: {"GENERATING_SCENARIO", "SIMULATING", "FAILED", "EVALUATED"},
              eligible: BOOLEAN, by: Worker]
Finished == {"FAILED", "EVALUATED"}

Selection == [status: Completed, winner: 0 .. Candidates, by: 0 .. MaxRuns,
              operatorRefinement: BOOLEAN]

RunList == UNION {[1 .. n -> RunRecord] : n \in 0 .. Candidates}
BatchDocument == [status: BatchStatus, runs: RunList, selection: Selection \cup {None}]

\* The selection of a failed generation names no candidate: it counts as none.
NewBatch(status) == [status |-> status, runs |-> <<>>, selection |-> None]

ASSUME BoundAssumption ==
  /\ Candidates \in Nat \ {0}
  /\ MaxRuns \in Nat
  /\ MaxRestarts \in Nat

\* The thread pool that serves the requests is finite.
ASSUME PoolAssumption == IsFiniteSet(Clients)

ASSUME AbsentAssumption ==
  /\ None \notin BatchDocument
  /\ None \notin Selection
  /\ None \notin Batches

VARIABLES
  batchFile,   \* data/strategy_batches/<id>.json
  batchTmp,    \* data/strategy_batches/.<id>.json.tmp
  registered,  \* STRATEGY_BATCH_WORKERS: the thread of a batch, 0 for none
  lock,        \* holder of STRATEGY_SIMULATION_LOCK, 0 when it is free
  worker,      \* the worker threads
  client,      \* the requests
  created,     \* worker threads created so far
  restarts     \* restarts so far

disk   == <<batchFile, batchTmp>>
counts == <<created, restarts>>
vars   == <<disk, registered, lock, worker, client, counts>>

WorkerLabel == {"unborn", "new", "queued", "load", "candidate", "scenario", "simulate",
                "exit", "stage", "publish", "dead"}

\* then: where a save comes back to; position: the candidate being run.
WorkerState == [pc: WorkerLabel, batch: Batches \cup {None}, doc: BatchDocument \cup {None},
                position: 0 .. Candidates, then: WorkerLabel]

ClientLabel == {"idle", "runCheck", "runStage", "runPublish", "runRegister", "runStart",
                "getCheck", "getStage", "getPublish"}
ClientState == [pc: ClientLabel, batch: Batches \cup {None}, doc: BatchDocument \cup {None},
                thread: 0 .. MaxRuns]

Thread(label) == [pc |-> label, batch |-> None, doc |-> None, position |-> 0, then |-> label]
NoRequest == [pc |-> "idle", batch |-> None, doc |-> None, thread |-> 0]

TypeOK ==
  /\ batchFile \in [Batches -> BatchDocument \cup {None}]
  /\ batchTmp \in [Batches -> BatchDocument \cup {None}]
  /\ registered \in [Batches -> 0 .. MaxRuns]
  /\ lock \in 0 .. MaxRuns
  /\ worker \in [Worker -> WorkerState]
  /\ client \in [Clients -> ClientState]
  /\ created \in 0 .. MaxRuns
  /\ restarts \in 0 .. MaxRestarts

Init ==
  /\ batchFile = [b \in Batches |-> None]
  /\ batchTmp = [b \in Batches |-> None]
  /\ registered = [b \in Batches |-> 0]
  /\ lock = 0
  /\ worker = [w \in Worker |-> Thread("unborn")]
  /\ client = [c \in Clients |-> NoRequest]
  /\ created = 0
  /\ restarts = 0

-------------------------------------------------------------------------------
(***************************************************************************)
(* Helpers.  An operator whose name ends in _Fault is a plausible mistake  *)
(* in the definition that follows it; no action uses it.                   *)
(***************************************************************************)

\* threading.Thread.is_alive: between start() and the end of the target.
Alive(w) == w # 0 /\ worker[w].pc \notin {"unborn", "new", "dead"}

\* Both halves of _atomic_write_json, for the document of batch b.
Stage(b, doc) ==
  /\ batchTmp' = [batchTmp EXCEPT ![b] = doc]
  /\ UNCHANGED batchFile

CanReplace(b) == batchTmp[b] # None

Replace(b) ==
  /\ batchFile' = [batchFile EXCEPT ![b] = batchTmp[b]]
  /\ batchTmp' = [batchTmp EXCEPT ![b] = None]

\* A worker at candidate p saves a document and goes on at label.
SaveAt(w, doc, p, label) ==
  worker' = [worker EXCEPT ![w] = [pc |-> "stage", batch |-> worker[w].batch, doc |-> doc,
                                   position |-> p, then |-> label]]

SaveAs(w, doc, label) == SaveAt(w, doc, worker[w].position, label)

\* The worker's target returns or raises: the with statement frees the lock.
Die_KeepsLock_Fault(w) ==
  /\ worker' = [worker EXCEPT ![w] = Thread("dead")]
  /\ UNCHANGED lock

Die(w) ==
  /\ worker' = [worker EXCEPT ![w] = Thread("dead")]
  /\ lock' = 0

-------------------------------------------------------------------------------
(***************************************************************************)
(* Requests.                                                               *)
(***************************************************************************)

\* POST /strategy/candidates/generate writes the file of a fresh id.
Generate(b) ==
  /\ batchFile[b] = None
  /\ \E status \in {"GENERATED", "GENERATION_FAILED"} :
       batchFile' = [batchFile EXCEPT ![b] = NewBatch(status)]
  /\ UNCHANGED <<batchTmp, registered, lock, worker, client, counts>>

\* Bound: no more run requests than there are threads left to create.
ThreadLeft ==
  created + Cardinality({c \in Clients : client[c].pc = "runCheck"}) < MaxRuns

\* POST /strategy/batches/{id}/run: the batch file is read ...
RunLoad(c, b) ==
  /\ client[c].pc = "idle"
  /\ batchFile[b] # None
  /\ ThreadLeft
  /\ client' = [client EXCEPT ![c] =
                  [pc |-> "runCheck", batch |-> b, doc |-> batchFile[b], thread |-> 0]]
  /\ UNCHANGED <<disk, registered, lock, worker, counts>>

\* ... a running or finished batch is answered at once, for any other a
\* thread is created ...
RunCheck(c) ==
  LET b == client[c].batch
      doc == client[c].doc
      w == created + 1 IN
  /\ client[c].pc = "runCheck"
  /\ \/ /\ Alive(registered[b]) \/ doc.status \in Completed \cup {"GENERATION_FAILED"}
        /\ client' = [client EXCEPT ![c] = NoRequest]
        /\ UNCHANGED <<worker, created>>
     \/ /\ ~Alive(registered[b])
        /\ doc.status \notin Completed \cup {"GENERATION_FAILED"}
        /\ created' = w
        /\ worker' = [worker EXCEPT ![w].pc = "new", ![w].batch = b]
        /\ client' = [client EXCEPT ![c] =
                        [pc |-> "runStage", batch |-> b, thread |-> w,
                         doc |-> [doc EXCEPT !.status = "QUEUED"]]]
  /\ UNCHANGED <<disk, registered, lock, restarts>>

\* ... the batch is saved as QUEUED ...
RunStage(c) ==
  /\ client[c].pc = "runStage"
  /\ Stage(client[c].batch, client[c].doc)
  /\ client' = [client EXCEPT ![c].pc = "runPublish"]
  /\ UNCHANGED <<registered, lock, worker, counts>>

\* A request whose temporary file is gone fails; its thread never starts.
RunPublish(c) ==
  LET b == client[c].batch IN
  /\ client[c].pc = "runPublish"
  /\ \/ /\ CanReplace(b)
        /\ Replace(b)
        /\ client' = [client EXCEPT ![c].pc = "runRegister"]
     \/ /\ ~CanReplace(b)
        /\ client' = [client EXCEPT ![c] = NoRequest]
        /\ UNCHANGED disk
  /\ UNCHANGED <<registered, lock, worker, counts>>

\* ... and only then the thread is registered and started.
RunRegister(c) ==
  /\ client[c].pc = "runRegister"
  /\ registered' = [registered EXCEPT ![client[c].batch] = client[c].thread]
  /\ client' = [client EXCEPT ![c].pc = "runStart"]
  /\ UNCHANGED <<disk, lock, worker, counts>>

RunStart(c) ==
  /\ client[c].pc = "runStart"
  /\ worker' = [worker EXCEPT ![client[c].thread].pc = "queued"]
  /\ client' = [client EXCEPT ![c] = NoRequest]
  /\ UNCHANGED <<disk, registered, lock, counts>>

\* GET /strategy/batches/{id}: the batch is returned as it was read unless it
\* is active.
GetLoad(c, b) ==
  /\ client[c].pc = "idle"
  /\ batchFile[b] # None
  /\ IF batchFile[b].status \in Active
     THEN client' = [client EXCEPT ![c] =
                       [pc |-> "getCheck", batch |-> b, doc |-> batchFile[b], thread |-> 0]]
     ELSE UNCHANGED client
  /\ UNCHANGED <<disk, registered, lock, worker, counts>>

\* Without a live thread the batch it has read is turned into a SYSTEM_ERROR.
GetCheck_Registered_Fault(c) ==
  LET b == client[c].batch
      w == registered[b] IN
  /\ client[c].pc = "getCheck"
  /\ \/ /\ w = 0 \/ Alive(w)
        /\ client' = [client EXCEPT ![c] = NoRequest]
     \/ /\ w # 0 /\ ~Alive(w)
        /\ client' = [client EXCEPT ![c] =
                        [pc |-> "getStage", batch |-> b, thread |-> 0,
                         doc |-> [client[c].doc EXCEPT !.status = "SYSTEM_ERROR"]]]
  /\ UNCHANGED <<disk, registered, lock, worker, counts>>

GetCheck(c) ==
  LET b == client[c].batch
      w == registered[b] IN
  /\ client[c].pc = "getCheck"
  /\ \/ /\ Alive(w)
        /\ client' = [client EXCEPT ![c] = NoRequest]
     \/ /\ ~Alive(w)
        /\ client' = [client EXCEPT ![c] =
                        [pc |-> "getStage", batch |-> b, thread |-> 0,
                         doc |-> [client[c].doc EXCEPT !.status = "SYSTEM_ERROR"]]]
  /\ UNCHANGED <<disk, registered, lock, worker, counts>>

GetStage(c) ==
  /\ client[c].pc = "getStage"
  /\ Stage(client[c].batch, client[c].doc)
  /\ client' = [client EXCEPT ![c].pc = "getPublish"]
  /\ UNCHANGED <<registered, lock, worker, counts>>

GetPublish(c) ==
  /\ client[c].pc = "getPublish"
  /\ IF CanReplace(client[c].batch) THEN Replace(client[c].batch) ELSE UNCHANGED disk
  /\ client' = [client EXCEPT ![c] = NoRequest]
  /\ UNCHANGED <<registered, lock, worker, counts>>

-------------------------------------------------------------------------------
(***************************************************************************)
(* _run_strategy_batch_worker.                                             *)
(***************************************************************************)

Acquire_NoLock_Fault(w) ==
  /\ worker[w].pc = "queued"
  /\ lock' = w
  /\ worker' = [worker EXCEPT ![w].pc = "load"]
  /\ UNCHANGED <<disk, registered, client, counts>>

Acquire(w) ==
  /\ worker[w].pc = "queued"
  /\ lock = 0
  /\ lock' = w
  /\ worker' = [worker EXCEPT ![w].pc = "load"]
  /\ UNCHANGED <<disk, registered, client, counts>>

\* The batch is read again and saved as RUNNING, with the runs and the
\* selection of an earlier run if it has any.
Load(w) ==
  /\ worker[w].pc = "load"
  /\ SaveAs(w, [batchFile[worker[w].batch] EXCEPT !.status = "RUNNING"], "candidate")
  /\ UNCHANGED <<disk, registered, lock, client, counts>>

\* The next candidate: its record is added to the runs of this thread.
Candidate_KeepsRuns_Fault(w) ==
  LET p == worker[w].position + 1
      doc == worker[w].doc IN
  /\ worker[w].pc = "candidate"
  /\ worker[w].position < Candidates
  /\ SaveAt(w, [doc EXCEPT !.runs = IF p <= Len(doc.runs) THEN doc.runs
                                    ELSE Append(doc.runs, [status |-> "GENERATING_SCENARIO",
                                                           eligible |-> FALSE, by |-> w])],
            p, IF p <= Len(doc.runs) /\ doc.runs[p].status \in Finished
               THEN "candidate" ELSE "scenario")
  /\ UNCHANGED <<disk, registered, lock, client, counts>>

\* A document with the runs so far and the new record of thread w.
WithCandidate(doc, runs, w) ==
  [doc EXCEPT !.runs = Append(runs, [status |-> "GENERATING_SCENARIO",
                                     eligible |-> FALSE, by |-> w])]

Candidate(w) ==
  LET p == worker[w].position + 1
      mine == IF p = 1 THEN <<>> ELSE worker[w].doc.runs IN
  /\ worker[w].pc = "candidate"
  /\ worker[w].position < Candidates
  /\ SaveAt(w, WithCandidate(worker[w].doc, mine, w), p, "scenario")
  /\ UNCHANGED <<disk, registered, lock, client, counts>>

\* The record of candidate p takes a status.
WithOutcome(doc, p, status, eligible) ==
  [doc EXCEPT !.runs[p] = [doc.runs[p] EXCEPT !.status = status, !.eligible = eligible]]

Record(w, status, eligible, label) ==
  SaveAs(w, WithOutcome(worker[w].doc, worker[w].position, status, eligible), label)

\* post_scenario_generate returns a specification, or it fails and raises.
Scenario(w) ==
  /\ worker[w].pc = "scenario"
  /\ \/ Record(w, "SIMULATING", FALSE, "simulate")
     \/ Record(w, "FAILED", FALSE, "candidate")
  /\ UNCHANGED <<disk, registered, lock, client, counts>>

\* post_simulation_run, and after a completed run the evidence summary and
\* the measurements, which decide whether the candidate is eligible.
Simulate(w) ==
  /\ worker[w].pc = "simulate"
  /\ \/ Record(w, "FAILED", FALSE, "candidate")
     \/ \E eligible \in BOOLEAN : Record(w, "EVALUATED", eligible, "candidate")
  /\ UNCHANGED <<disk, registered, lock, client, counts>>

\* rank_candidate_runs: the winner has the best objective score among the
\* eligible candidates; which one that is depends on the measurements.
Eligible(runs) == {i \in 1 .. Len(runs) : runs[i].eligible}

Ranked_BlamesOperator_Fault(runs) ==
  IF Eligible(runs) # {}
  THEN {[status |-> "SELECTED", winner |-> i, by |-> runs[i].by,
         operatorRefinement |-> FALSE] : i \in Eligible(runs)}
  ELSE {[status |-> "NO_ELIGIBLE_STRATEGY", winner |-> 0, by |-> 0,
         operatorRefinement |-> \E i \in 1 .. Len(runs) : runs[i].status = "EVALUATED"]}

Ranked(runs) ==
  IF Eligible(runs) # {}
  THEN {[status |-> "SELECTED", winner |-> i, by |-> runs[i].by,
         operatorRefinement |-> FALSE] : i \in Eligible(runs)}
  ELSE {[status |-> "NO_ELIGIBLE_STRATEGY", winner |-> 0, by |-> 0,
         operatorRefinement |-> \A i \in 1 .. Len(runs) : runs[i].status = "EVALUATED"]}

Rank(w) ==
  /\ worker[w].pc = "candidate"
  /\ worker[w].position = Candidates
  /\ \E selection \in Ranked(worker[w].doc.runs) :
       SaveAs(w, [worker[w].doc EXCEPT !.selection = selection, !.status = selection.status],
              "exit")
  /\ UNCHANGED <<disk, registered, lock, client, counts>>

WorkerStage(w) ==
  /\ worker[w].pc = "stage"
  /\ Stage(worker[w].batch, worker[w].doc)
  /\ worker' = [worker EXCEPT ![w].pc = "publish"]
  /\ UNCHANGED <<registered, lock, client, counts>>

WorkerPublish(w) ==
  /\ worker[w].pc = "publish"
  /\ CanReplace(worker[w].batch)
  /\ Replace(worker[w].batch)
  /\ worker' = [worker EXCEPT ![w].pc = worker[w].then]
  /\ UNCHANGED <<registered, lock, client, counts>>

\* os.replace raises.  The first save is outside every try and the last one
\* in the outer finally: the thread ends.  The save before a simulation is in
\* the inner try: the candidate fails.  The others are in the outer try: the
\* batch fails.
WorkerSaveFails(w) ==
  LET first == worker[w].then = "candidate" /\ worker[w].position = 0 IN
  /\ worker[w].pc = "publish"
  /\ ~CanReplace(worker[w].batch)
  /\ \/ /\ first \/ worker[w].then = "exit"
        /\ Die(w)
     \/ /\ worker[w].then = "simulate"
        /\ Record(w, "FAILED", FALSE, "candidate")
        /\ UNCHANGED lock
     \/ /\ ~first /\ worker[w].then \in {"candidate", "scenario"}
        /\ SaveAs(w, [worker[w].doc EXCEPT !.status = "SYSTEM_ERROR"], "exit")
        /\ UNCHANGED lock
  /\ UNCHANGED <<disk, registered, client, counts>>

Exit(w) ==
  /\ worker[w].pc = "exit"
  /\ Die(w)
  /\ UNCHANGED <<disk, registered, client, counts>>

-------------------------------------------------------------------------------

\* The API process restarts: threads, registry and lock are gone.
Restart ==
  /\ restarts < MaxRestarts
  /\ restarts' = restarts + 1
  /\ registered' = [b \in Batches |-> 0]
  /\ lock' = 0
  /\ worker' = [w \in Worker |-> IF w <= created THEN Thread("dead") ELSE Thread("unborn")]
  /\ client' = [c \in Clients |-> NoRequest]
  /\ UNCHANGED <<disk, created>>

Request(c) ==
  \/ \E b \in Batches : RunLoad(c, b) \/ GetLoad(c, b)

ClientStep(c) ==
  \/ RunCheck(c) \/ RunStage(c) \/ RunPublish(c) \/ RunRegister(c) \/ RunStart(c)
  \/ GetCheck(c) \/ GetStage(c) \/ GetPublish(c)

WorkerStep(w) ==
  \/ Acquire(w) \/ Load(w) \/ Candidate(w) \/ Scenario(w) \/ Simulate(w) \/ Rank(w)
  \/ WorkerStage(w) \/ WorkerPublish(w) \/ WorkerSaveFails(w) \/ Exit(w)

Next ==
  \/ \E b \in Batches : Generate(b)
  \/ \E c \in Clients : Request(c) \/ ClientStep(c)
  \/ \E w \in Worker : WorkerStep(w)
  \/ Restart

Spec == Init /\ [][Next]_vars

\* A started request and a started thread go on (a simulation ends or times
\* out); nothing is assumed about clients and restarts.  The lock is not fair,
\* but only the threads that wait for it compete.
FairSpec ==
  /\ Spec
  /\ \A c \in Clients : WF_vars(ClientStep(c))
  /\ \A w \in Worker : WF_vars(WorkerStep(w))

-------------------------------------------------------------------------------
(***************************************************************************)
(* Properties that hold for any number of clients and restarts.            *)
(***************************************************************************)

\* The threads that have entered the worker's critical section.
Inside == {w \in Worker : worker[w].pc \notin {"unborn", "new", "queued", "dead"}}

\* "A process-wide lock prevents concurrent Isaac runs": of all the batches
\* only one is being executed, and by the thread that holds the lock.
OneBatchAtATime == \A w \in Inside : lock = w

\* A batch file lists the runs of one thread, in candidate order, and only
\* the last of them may be unfinished, whatever was saved over it: a run after
\* a restart starts again with the first candidate ("rerun all candidates").
RunsOfOneThread ==
  \A b \in Batches : batchFile[b] # None =>
    LET runs == batchFile[b].runs IN
    \A i \in 1 .. Len(runs) :
      /\ runs[i].by = runs[1].by
      /\ i < Len(runs) => runs[i].status \in Finished

\* A document that says its batch is finished tells how every candidate ended.
SelectionMatches(doc) ==
  doc.status \in Completed =>
    LET sel == doc.selection IN
    /\ sel # None
    /\ sel.status = doc.status
    /\ Len(doc.runs) = Candidates
    /\ \A i \in Position : doc.runs[i].status \in Finished
    /\ doc.status = "SELECTED" =>
         /\ doc.runs[sel.winner].status = "EVALUATED"
         /\ doc.runs[sel.winner].eligible
         /\ doc.runs[sel.winner].by = sel.by
    /\ sel.operatorRefinement <=>
         \A i \in Position : doc.runs[i].status = "EVALUATED" /\ ~doc.runs[i].eligible

\* A finished batch has run all its candidates; its winner is an evaluated and
\* eligible one of these runs; the operator is asked to refine the intent only
\* if every candidate has conclusive evidence and none is eligible ("instead
\* of blaming the operator input").
SelectionSound ==
  \A b \in Batches : batchFile[b] # None => SelectionMatches(batchFile[b])

-------------------------------------------------------------------------------
(***************************************************************************)
(* The inductive invariant: every copy of a batch document, in a file, a    *)
(* request or a worker, is sound; a worker's copy is as far as the worker   *)
(* is; a request that created a thread is the only one to start it.         *)
(***************************************************************************)
Sound(doc) ==
  /\ \A i \in 1 .. Len(doc.runs) :
       /\ doc.runs[i].by = doc.runs[1].by
       /\ i < Len(doc.runs) => doc.runs[i].status \in Finished
       /\ doc.runs[i].eligible => doc.runs[i].status = "EVALUATED"
  /\ SelectionMatches(doc)

FileOK(b) ==
  /\ batchFile[b] # None => Sound(batchFile[b])
  /\ batchTmp[b] # None => Sound(batchTmp[b])

Starting(c) == client[c].pc \in {"runStage", "runPublish", "runRegister", "runStart"}

ClientOK(c) ==
  /\ client[c].pc # "idle" =>
       /\ client[c].batch \in Batches
       /\ batchFile[client[c].batch] # None
       /\ client[c].doc # None
       /\ Sound(client[c].doc)
  /\ Starting(c) =>
       /\ client[c].thread \in 1 .. created
       /\ worker[client[c].thread].pc = "new"
       /\ worker[client[c].thread].batch = client[c].batch

StartersApart ==
  \A c, d \in Clients :
    Starting(c) /\ Starting(d) /\ client[c].thread = client[d].thread => c = d

\* What a worker is doing, through the saves on the way.
Goal(w) == IF worker[w].pc \in {"stage", "publish"} THEN worker[w].then ELSE worker[w].pc

\* The document of worker w after p candidates, on the way to goal.
Reached(w, doc, goal, p) ==
  /\ doc.status = "RUNNING"
  /\ goal # "candidate" => p > 0
  /\ p > 0 => /\ Len(doc.runs) = p
              /\ \A i \in 1 .. p : doc.runs[i].by = w
              /\ goal = "candidate" => \A i \in 1 .. p : doc.runs[i].status \in Finished

WorkerOK(w) ==
  /\ w > created => worker[w] = Thread("unborn")
  /\ worker[w].pc \notin {"unborn", "dead"} =>
       worker[w].batch \in Batches /\ batchFile[worker[w].batch] # None
  /\ worker[w].pc \in {"stage", "publish"} =>
       worker[w].then \in {"candidate", "scenario", "simulate", "exit"}
  /\ worker[w].pc \in {"new", "queued", "load"} => worker[w].position = 0
  /\ Goal(w) \in {"candidate", "scenario", "simulate", "exit"} =>
       worker[w].doc # None /\ Sound(worker[w].doc)
  /\ Goal(w) \in {"candidate", "scenario", "simulate"} =>
       Reached(w, worker[w].doc, Goal(w), worker[w].position)

Checking == {c \in Clients : client[c].pc = "runCheck"}

IInv ==
  /\ TypeOK
  /\ created + Cardinality(Checking) <= MaxRuns
  /\ \A b \in Batches : FileOK(b)
  /\ \A c \in Clients : ClientOK(c)
  /\ StartersApart
  /\ \A w \in Worker : WorkerOK(w)
  /\ OneBatchAtATime

-------------------------------------------------------------------------------
(***************************************************************************)
(* Liveness.                                                               *)
(***************************************************************************)

ActiveBatch(b) == batchFile[b] # None /\ batchFile[b].status \in Active
Polled(b) == \E c \in Clients : client[c].pc = "getCheck" /\ client[c].batch = b

\* A batch that keeps being polled does not stay queued or running for ever:
\* it finishes, or its poll finds that its thread is gone.
PolledBatchSettles == \A b \in Batches : []<>Polled(b) => []<>~ActiveBatch(b)

\* Every thread that is started ends, so that the lock goes round.
ThreadsEnd == \A w \in Worker : worker[w].pc = "queued" ~> worker[w].pc = "dead"

===============================================================================
