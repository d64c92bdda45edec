------------------------------- MODULE HostRunner -------------------------------
(***************************************************************************)
(* The host Isaac runner (host_isaac_runner_service.py): a FastAPI service *)
(* on the machine with the simulator.  It starts one process per run,      *)
(* keeps RUNS and PROCESSES in memory under RUN_LOCK, and looks at the     *)
(* process only when somebody asks: the loop of a synchronous run or a     *)
(* poll.  Several of them may be refreshing the same run, and the lock is  *)
(* held for the accesses to RUNS and PROCESSES only, not for a refresh.    *)
(*                                                                         *)
(* The threads that tail the logs change nothing but the timing of a run,  *)
(* under the lock, and are left out.  The simulator is external: it ends   *)
(* with a return code and leaves the result database in some state.        *)
(***************************************************************************)
EXTENDS Naturals, FiniteSets

CONSTANTS
  Runs,         \* run ids (sim_<uuid4>, drawn by trt-api)
  Threads,      \* requests the service serves at the same time
  MaxRestarts,  \* bound: restarts of the service
  None

ASSUME RestartAssumption == MaxRestarts \in Nat

Final == {"COMPLETED", "COMPLETED_NO_RESULT_DB", "FAILED", "FAILED_TIMEOUT"}

\* errors: the list of errors is not empty.
RunRecord == [status: Final \cup {"RUNNING"}, errors: BOOLEAN]

\* The process that Popen started ("refused": none was).  Where it is the
\* shell of python.bat, what that shell starts is its own affair.
ProcessState == {"none", "refused", "running", "exited0", "exited1"}

\* The row of simulation_runs ("noFile": there is no database file) and how
\* many times every line has its row of line_kpis.
Row == {"noFile", "missing", "RUNNING", "COMPLETED", "FAILED"}
Database == [row: Row, kpis: Nat]

ASSUME NoneAssumption == None \notin RunRecord /\ None \notin Runs /\ None \notin Database

VARIABLES
  runs,        \* RUNS
  registered,  \* the runs with an entry in PROCESSES
  process,     \* the processes of the host
  database,    \* the result databases
  overdue,     \* the runs whose timeout has elapsed
  thread,      \* the requests being served
  restarts     \* restarts so far

memory == <<runs, registered>>
host   == <<process, database, overdue>>
vars   == <<memory, host, thread, restarts>>

Label == {"idle", "register", "refresh", "check", "kill", "reread", "finalize", "write", "store"}

\* sync: the request is POST /isaac/run with run_mode SYNC.  record: the local
\* variable run of _refresh_isaac_run.  seen: what the finalization has read.
ThreadState == [pc: Label, run: Runs \cup {None}, sync: BOOLEAN,
                record: RunRecord \cup {None}, seen: Database \cup {None}]

NoRequest == [pc |-> "idle", run |-> None, sync |-> FALSE, record |-> None, seen |-> None]

TypeOK ==
  /\ runs \in [Runs -> RunRecord \cup {None}]
  /\ registered \subseteq Runs
  /\ process \in [Runs -> ProcessState]
  /\ database \in [Runs -> Database]
  /\ overdue \subseteq Runs
  /\ thread \in [Threads -> ThreadState]
  /\ restarts \in 0 .. MaxRestarts

Init ==
  /\ runs = [r \in Runs |-> None]
  /\ registered = {}
  /\ process = [r \in Runs |-> "none"]
  /\ database = [r \in Runs |-> [row |-> "noFile", kpis |-> 0]]
  /\ overdue = {}
  /\ thread = [t \in Threads |-> NoRequest]
  /\ restarts = 0

-------------------------------------------------------------------------------
(***************************************************************************)
(* Control flow of a request.  An operator whose name ends in _Fault is a  *)
(* plausible mistake in the definition that follows it.                    *)
(***************************************************************************)

IsRunning(r) == runs[r] # None /\ runs[r].status = "RUNNING"

At(t, label) == thread[t].pc = label
RunOf(t) == thread[t].run
Goto(t, label) == thread' = [thread EXCEPT ![t].pc = label]
Respond(t) == thread' = [thread EXCEPT ![t] = NoRequest]

\* The result of a refresh: a synchronous request loops while it is RUNNING.
StillRunning(t) == IF thread[t].sync THEN Goto(t, "refresh") ELSE Respond(t)

\* _refresh_isaac_run goes on to store a result.
Result(t, status, errors) ==
  thread' = [thread EXCEPT ![t].record = [status |-> status, errors |-> errors],
                           ![t].pc = "store"]

-------------------------------------------------------------------------------
(***************************************************************************)
(* POST /isaac/run and /isaac/runs: _start_isaac_async.                    *)
(***************************************************************************)

\* An invalid request, or a process that cannot be created (directly or with
\* COMSPEC): the run is recorded as FAILED.
Refuse(t, r) ==
  /\ At(t, "idle")
  /\ process[r] = "none"
  /\ process' = [process EXCEPT ![r] = "refused"]
  /\ runs' = [runs EXCEPT ![r] = [status |-> "FAILED", errors |-> TRUE]]
  /\ UNCHANGED <<registered, database, overdue, thread, restarts>>

\* The process is created first ...
Launch(t, r, sync) ==
  /\ At(t, "idle")
  /\ process[r] = "none"
  /\ process' = [process EXCEPT ![r] = "running"]
  /\ thread' = [thread EXCEPT ![t] = [NoRequest EXCEPT !.pc = "register", !.run = r,
                                                       !.sync = sync]]
  /\ UNCHANGED <<memory, database, overdue, restarts>>

\* ... and then RUNS and PROCESSES take it in one critical section.
Register(t) ==
  /\ At(t, "register")
  /\ runs' = [runs EXCEPT ![RunOf(t)] = [status |-> "RUNNING", errors |-> FALSE]]
  /\ registered' = registered \cup {RunOf(t)}
  /\ StillRunning(t)
  /\ UNCHANGED <<host, restarts>>

-------------------------------------------------------------------------------
(***************************************************************************)
(* _refresh_isaac_run.                                                     *)
(***************************************************************************)

\* GET /isaac/runs/{id} (GET /isaac/runs polls one run after the other).
Poll(t, r) ==
  /\ At(t, "idle")
  /\ thread' = [thread EXCEPT ![t] = [NoRequest EXCEPT !.pc = "refresh", !.run = r]]
  /\ UNCHANGED <<memory, host, restarts>>

\* RUNS and PROCESSES are read in one critical section.
Refresh(t) ==
  LET r == RunOf(t) IN
  /\ At(t, "refresh")
  /\ CASE ~IsRunning(r)                     -> Respond(t)
       [] IsRunning(r) /\ r \in registered   -> Goto(t, "check")
       [] IsRunning(r) /\ r \notin registered -> Result(t, "FAILED", TRUE)
  /\ UNCHANGED <<memory, host, restarts>>

\* The elapsed time and Popen.poll decide.
Check_NoTimeout_Fault(t) ==
  LET r == RunOf(t) IN
  /\ At(t, "check")
  /\ IF process[r] = "running" THEN StillRunning(t) ELSE Goto(t, "reread")
  /\ UNCHANGED <<memory, host, restarts>>

Check(t) ==
  LET r == RunOf(t) IN
  /\ At(t, "check")
  /\ \/ /\ process[r] = "running" /\ r \in overdue
        /\ Goto(t, "kill")
     \/ /\ process[r] = "running" /\ r \notin overdue
        /\ StillRunning(t)
     \/ /\ process[r] # "running"
        /\ Goto(t, "reread")
  /\ UNCHANGED <<memory, host, restarts>>

\* terminate, kill and wait; the process may have ended by itself since the
\* check.  A process that survives both raises TimeoutExpired: the request
\* fails and the run stays RUNNING.
Kill_NoWait_Fault(t) ==
  /\ At(t, "kill")
  /\ Result(t, "FAILED_TIMEOUT", TRUE)
  /\ UNCHANGED <<memory, host, restarts>>

Kill(t) ==
  LET r == RunOf(t) IN
  /\ At(t, "kill")
  /\ \/ /\ process' = [process EXCEPT ![r] = IF @ = "running" THEN "exited1" ELSE @]
        /\ Result(t, "FAILED_TIMEOUT", TRUE)
     \/ /\ process[r] = "running"
        /\ Respond(t)
        /\ UNCHANGED process
  /\ UNCHANGED <<memory, database, overdue, restarts>>

\* A finished process: its run is read again, with what the log threads and
\* other refreshes have made of it, and the return code gives the status.
Reread_IgnoresCode_Fault(t) ==
  LET r == RunOf(t) IN
  /\ At(t, "reread")
  /\ IF database[r].row # "noFile" THEN Goto(t, "finalize")
     ELSE Result(t, "COMPLETED_NO_RESULT_DB", TRUE)
  /\ UNCHANGED <<memory, host, restarts>>

Reread(t) ==
  LET r == RunOf(t) IN
  /\ At(t, "reread")
  /\ \/ /\ process[r] = "exited0" /\ database[r].row # "noFile"
        /\ Goto(t, "finalize")
     \/ /\ process[r] = "exited0" /\ database[r].row = "noFile"
        /\ Result(t, "COMPLETED_NO_RESULT_DB", TRUE)
     \/ /\ process[r] = "exited1"
        /\ Result(t, "FAILED", TRUE)
  /\ UNCHANGED <<memory, host, restarts>>

\* finalize_successful_result_db: what it finds ...
Finalize(t) ==
  /\ At(t, "finalize")
  /\ thread' = [thread EXCEPT ![t].seen = database[RunOf(t)], ![t].pc = "write"]
  /\ UNCHANGED <<memory, host, restarts>>

\* ... decides what it writes, in one transaction: a missing run is inserted,
\* a running one is completed, and lines get a row unless there was one.  sqlite
\* opens the transaction at the first write, so that only the rows of a run
\* just inserted are counted inside it.
Completed(d, seen) ==
  [row  |-> IF seen.row \in {"missing", "RUNNING"} THEN "COMPLETED" ELSE d.row,
   kpis |-> IF seen.row = "FAILED" \/ seen.kpis > 0 THEN d.kpis ELSE d.kpis + 1]

WriteResult_NoKpis_Fault(t) ==
  LET r == RunOf(t)
      seen == thread[t].seen IN
  /\ At(t, "write")
  /\ database' = [database EXCEPT ![r].row = IF seen.row \in {"missing", "RUNNING"}
                                             THEN "COMPLETED" ELSE @]
  /\ Result(t, "COMPLETED", FALSE)
  /\ UNCHANGED <<memory, process, overdue, restarts>>

\* An error of sqlite, which a run that another refresh has inserted by now
\* is, rolls everything back and is reported with the result.
WriteResult(t) ==
  LET r == RunOf(t)
      d == database[r]
      seen == thread[t].seen IN
  /\ At(t, "write")
  /\ \/ /\ Result(t, "COMPLETED", TRUE)
        /\ UNCHANGED database
     \/ /\ seen.row = "missing" => d.row = "missing"
        /\ database' = [database EXCEPT ![r] = Completed(d, seen)]
        /\ Result(t, "COMPLETED", FALSE)
  /\ UNCHANGED <<memory, process, overdue, restarts>>

\* The result replaces the run and its process is forgotten, in one critical
\* section and whatever another refresh has stored since.
Store(t) ==
  LET r == RunOf(t) IN
  /\ At(t, "store")
  /\ runs' = [runs EXCEPT ![r] = thread[t].record]
  /\ registered' = registered \ {r}
  /\ Respond(t)
  /\ UNCHANGED <<host, restarts>>

-------------------------------------------------------------------------------
(***************************************************************************)
(* The host.                                                               *)
(***************************************************************************)

\* The simulator ends.  It creates its database with a RUNNING row and writes
\* the rows of the lines and the final status at the end, if it gets there.
IsaacExits(r) ==
  /\ process[r] = "running"
  /\ \E code \in {"exited0", "exited1"}, row \in Row, kpis \in {0, 1} :
       /\ row \in {"noFile", "missing"} => kpis = 0
       /\ process' = [process EXCEPT ![r] = code]
       /\ database' = [database EXCEPT ![r] = [row |-> row, kpis |-> kpis]]
  /\ UNCHANGED <<memory, overdue, thread, restarts>>

\* timeout_seconds have passed since the start of the process.
TimeoutElapses(r) ==
  /\ process[r] = "running"
  /\ r \notin overdue
  /\ overdue' = overdue \cup {r}
  /\ UNCHANGED <<memory, process, database, thread, restarts>>

\* The service restarts: its memory and its requests are gone, the processes go on.
Restart ==
  /\ restarts < MaxRestarts
  /\ restarts' = restarts + 1
  /\ runs' = [r \in Runs |-> None]
  /\ registered' = {}
  /\ thread' = [t \in Threads |-> NoRequest]
  /\ UNCHANGED host

Request(t) ==
  \E r \in Runs :
    \/ Refuse(t, r)
    \/ \E sync \in BOOLEAN : Launch(t, r, sync)
    \/ Poll(t, r)

Step(t) ==
  \/ Register(t) \/ Refresh(t) \/ Check(t) \/ Kill(t) \/ Reread(t)
  \/ Finalize(t) \/ WriteResult(t) \/ Store(t)

Next ==
  \/ \E t \in Threads : Request(t) \/ Step(t)
  \/ \E r \in Runs : IsaacExits(r) \/ TimeoutElapses(r)
  \/ Restart

Spec == Init /\ [][Next]_vars

\* Threads go on and time passes; the simulator need never end by itself.
FairSpec ==
  /\ Spec
  /\ \A t \in Threads : WF_vars(Step(t))
  /\ \A r \in Runs : WF_vars(TimeoutElapses(r))

-------------------------------------------------------------------------------
(***************************************************************************)
(* Properties.                                                             *)
(***************************************************************************)

\* A run is RUNNING exactly as long as its process is known, so that
\* "Process metadata is missing" is never the answer.
ProcessKnown == \A r \in Runs : r \in registered <=> IsRunning(r)

\* A run with a final status has no live process, whoever found it to be final
\* and however the refreshes of the run overtook each other.
FinalRunEnded ==
  \A r \in Runs : runs[r] # None /\ runs[r].status \in Final => process[r] # "running"

\* The status agrees with the return code, whatever refreshes overtake each
\* other; only a timeout does not tell what the process returned.
StatusOfReturnCode ==
  \A r \in Runs : runs[r] # None =>
    /\ runs[r].status \in {"COMPLETED", "COMPLETED_NO_RESULT_DB"} => process[r] = "exited0"
    /\ runs[r].status = "FAILED" => process[r] \in {"refused", "exited1"}

\* "This host-side guard keeps the API contract stable": a run completed
\* without errors has a final row in its database, and unless the simulator
\* failed it has a row for every line.
CompletedIsReadable ==
  \A r \in Runs : runs[r] # None /\ runs[r].status = "COMPLETED" /\ ~runs[r].errors =>
    /\ database[r].row \in {"COMPLETED", "FAILED"}
    /\ database[r].row = "COMPLETED" => database[r].kpis > 0

\* Every request is answered: after the timeout a synchronous run ends, or it
\* fails because its process cannot be killed.
RequestsAnswered == \A t \in Threads : ~At(t, "idle") ~> At(t, "idle")

-------------------------------------------------------------------------------
(***************************************************************************)
(* The inductive invariant behind the safety properties, for any number of *)
(* runs and requests.                                                      *)
(***************************************************************************)

Refreshing == {"check", "kill", "reread", "finalize", "write", "store"}
Ended == {"exited0", "exited1"}

\* What a complete result looks like, and how far a database can be from what
\* a finalization has seen of it.
Readable(d) == d.row = "FAILED" \/ (d.row = "COMPLETED" /\ d.kpis > 0)
Follows(d, seen) ==
  /\ d.kpis >= seen.kpis
  /\ \/ d.row = seen.row
     \/ seen.row \in {"missing", "RUNNING"} /\ d.row = "COMPLETED"
  /\ seen.row # "COMPLETED" /\ d.row = "COMPLETED" => d.kpis > 0

\* A status that process and database bear out.
Justified(r, rec) ==
  /\ rec.status \in Final
  /\ process[r] \notin {"none", "running"}
  /\ rec.status \in {"COMPLETED", "COMPLETED_NO_RESULT_DB"} => process[r] = "exited0"
  /\ rec.status = "FAILED" => process[r] \in {"refused", "exited1"}
  /\ rec.status = "COMPLETED" /\ ~rec.errors => Readable(database[r])

RunOK(r) ==
  /\ r \in registered <=> IsRunning(r)
  /\ runs[r] # None /\ ~IsRunning(r) => Justified(r, runs[r])
  /\ IsRunning(r) => process[r] \in {"running"} \cup Ended

ThreadOK(t) ==
  LET r == RunOf(t)
      label == thread[t].pc IN
  /\ label # "idle" => r \in Runs
  /\ label = "register" =>
       /\ runs[r] = None
       /\ process[r] \in {"running"} \cup Ended
       /\ \A u \in Threads \ {t} : RunOf(u) = r => thread[u].pc \notin Refreshing \cup {"register"}
  /\ label \in Refreshing => runs[r] # None /\ process[r] \in {"running"} \cup Ended
  /\ label = "reread" => process[r] \in Ended
  /\ label \in {"finalize", "write"} => process[r] = "exited0" /\ database[r].row # "noFile"
  /\ label = "write" =>
       /\ thread[t].seen \in Database
       /\ thread[t].seen.row # "noFile"
       /\ Follows(database[r], thread[t].seen)
  /\ label = "store" => thread[t].record \in RunRecord /\ Justified(r, thread[t].record)

IInv ==
  /\ TypeOK
  /\ \A r \in Runs : RunOK(r)
  /\ \A t \in Threads : ThreadOK(t)

===============================================================================
