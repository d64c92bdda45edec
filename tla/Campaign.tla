------------------------------- MODULE Campaign -------------------------------
(***************************************************************************)
(* The automated Milestone 12 campaign (tools/m12_run_full_n8n_tests.py):  *)
(* it plays the operator of one test after the other against n8n, which    *)
(* has trt-api simulate the candidates of each approved test, waits for a  *)
(* message, finds out which run the test was about and writes a row.  The  *)
(* batches of IsaacRuns go on when it gives up waiting, when it crashes    *)
(* and while it is resumed.  n8n is external: it starts the batch of an    *)
(* approved test and answers, each sooner or later, or never.              *)
(***************************************************************************)
EXTENDS IsaacRuns

CONSTANTS
  Tests,        \* the rows of the packet, 1 .. n
  MaxBatches    \* bound: batches ever started

ASSUME TestsAssumption ==
  IsFiniteSet(Tests) /\ Tests = 1 .. Cardinality(Tests) /\ MaxBatches \in Nat

VARIABLES
  pc,            \* where the program is
  at,            \* test: the test; batch: its batch, 0 if none; approved; asked: n8n
                 \* has not acted on the approval; run: the run it is put down to, 0
                 \* if none; seen: by the selection or a database of this test
  done,          \* the tests this session skips or has done
  progress,      \* progress.jsonl: the tests, in order
  tail,          \* its last row: "ended", "open" (without the newline), or "bad": some
                 \* line is not the JSON of one row
  ingested,      \* manual_results.jsonl: the tests, in order
  sinceTest,     \* the runs that were started or ended since the test started
  outlived,      \* batches that were unsettled when their turn ended, or started later
  late           \* approvals of ended tests that n8n may still act on

files == <<done, progress, tail, ingested>>
n8n == <<outlived, late>>
vars == <<runVars, pc, at, files, n8n, sinceTest>>

NoTest ==
  [test |-> 0, batch |-> 0, approved |-> FALSE, asked |-> FALSE, run |-> 0, seen |-> FALSE]

Init ==
  /\ InitRuns
  /\ pc = "down"
  /\ at = NoTest
  /\ done = {}
  /\ progress = <<>>
  /\ tail = "ended"
  /\ ingested = <<>>
  /\ sinceTest = {}
  /\ outlived = {} /\ late = 0

Testing == {"isaac", "prompt", "approval", "attribute"}

\* The batch of the test, while it has not come to its end.
Unfinished == {b \in DOMAIN batch : b = at.batch /\ batch[b].thread # "done"}
Recorded == {progress[i] : i \in DOMAIN progress}
Ingested == {ingested[i] : i \in DOMAIN ingested}

\* A step of the API, of the host or of a simulator: the database of a run that
\* is started or ends is written.
Elsewhere ==
  /\ RunsNext
  /\ LET touched == {r \in DOMAIN run' : r \notin RunId \/ run'[r].left # run[r].left} IN
       sinceTest' = IF pc \in Testing THEN sinceTest \cup touched ELSE {}
  /\ UNCHANGED <<pc, at, files, n8n>>

\* n8n has trt-api start the batch of an approved test, while the program waits for
\* its message or at any time after.
StartBatch ==
  /\ at.asked \/ late > 0
  /\ Len(batch) < MaxBatches
  /\ batch' = Append(batch, NewBatch)
  /\ IF at.asked
     THEN /\ at' = [at EXCEPT !.asked = FALSE, !.batch = Len(batch) + 1]
          /\ outlived' = outlived \cup (IF pc = "approval" THEN {} ELSE {Len(batch) + 1})
          /\ UNCHANGED late
     ELSE /\ late' = late - 1
          /\ outlived' = outlived \cup {Len(batch) + 1}
          /\ UNCHANGED at
  /\ UNCHANGED <<run, known, lock, faults, pc, files, sinceTest>>

-------------------------------------------------------------------------------
(***************************************************************************)
(* main                                                                    *)
(***************************************************************************)

\* After a crash it is started with --resume, which reads progress.jsonl; a line
\* that is not one row raises JSONDecodeError.
Start_Afresh_Fault ==
  /\ pc = "down"
  /\ tail # "bad"
  /\ done' = {}
  /\ pc' = "next"
  /\ UNCHANGED <<runVars, at, progress, tail, ingested, n8n, sinceTest>>

Start ==
  /\ pc = "down"
  /\ tail # "bad"
  /\ done' = Recorded
  /\ pc' = "next"
  /\ UNCHANGED <<runVars, at, progress, tail, ingested, n8n, sinceTest>>

\* run_one notes the time before it waits for the simulators to end.
NextTest ==
  /\ pc = "next" /\ Tests \ done # {}
  /\ \E t \in Tests \ done :
       /\ \A u \in Tests \ done : t <= u
       /\ at' = [NoTest EXCEPT !.test = t]
  /\ pc' = "isaac"
  /\ UNCHANGED <<runVars, files, n8n, sinceTest>>

End ==
  /\ pc = "next" /\ Tests \ done = {}
  /\ pc' = "end"
  /\ UNCHANGED <<runVars, at, files, n8n, sinceTest>>

\* What a test leaves to n8n when it ends: its batch, or its approval.
Left ==
  /\ outlived' = outlived \cup Unfinished
  /\ late' = IF at.asked THEN late + 1 ELSE late

\* The row is appended to progress.jsonl, last; behind a row without its newline
\* it makes one line of both.
AppendRow ==
  /\ pc = "append"
  /\ progress' = Append(progress, at.test)
  /\ tail' = IF tail = "open" THEN "bad" ELSE tail
  /\ done' = done \cup {at.test}
  /\ pc' = "next"
  /\ at' = NoTest
  /\ Left
  /\ UNCHANGED <<runVars, ingested, sinceTest>>

-------------------------------------------------------------------------------
(***************************************************************************)
(* run_one                                                                 *)
(***************************************************************************)

\* An exception ends the test; main makes a FAIL row that names no run, and
\* nothing is ingested.
RunnerException ==
  /\ pc' = "append"
  /\ at' = [NoTest EXCEPT !.test = at.test]
  /\ Left
  /\ sinceTest' = {}
  /\ UNCHANGED <<runVars, files>>

\* wait_for_no_isaac looks at processes, not at batches, and a look that fails
\* counts as none: the wait may end at any time.  Past its deadline a simulator
\* that is still seen raises ISAAC_BUSY_BEFORE_TEST.
WaitForNoIsaac_NoDeadline_Fault ==
  /\ pc = "isaac"
  /\ \A r \in RunId : ~Alive(r)
  /\ pc' = "prompt"
  /\ UNCHANGED <<runVars, at, files, n8n, sinceTest>>

WaitForNoIsaac ==
  /\ pc = "isaac"
  /\ \/ /\ pc' = "prompt"
        /\ UNCHANGED <<runVars, at, files, n8n, sinceTest>>
     \/ /\ \E r \in RunId : Alive(r)
        /\ RunnerException

\* The prompt and the details: a candidate is approved; or the test ends without an
\* approval, or with an exception.  Tests that inject a fault into the back end, or
\* launch no simulator, go this last way.
Converse ==
  /\ pc = "prompt"
  /\ \/ /\ at' = [at EXCEPT !.approved = TRUE, !.asked = TRUE]
        /\ pc' = "approval"
        /\ UNCHANGED <<runVars, files, n8n, sinceTest>>
     \/ /\ pc' = "attribute"
        /\ UNCHANGED <<runVars, at, files, n8n, sinceTest>>
     \/ RunnerException

\* A message of n8n or the end of max_wait (180 seconds for TC2 and TC4), with
\* the batch as far as it got; a websocket that is closed is an exception.
TurnEnds ==
  /\ pc = "approval"
  /\ \/ /\ pc' = "attribute"
        /\ outlived' = outlived \cup Unfinished
        /\ UNCHANGED <<runVars, at, files, late, sinceTest>>
     \/ RunnerException

\* The run of the test.  If the execution data of n8n could be fetched, the
\* selection of its batch comes first.  Otherwise it is the first run id in those
\* data or in the text of the turns, whatever it is said there for (a state record
\* names the run deployed last), with an approval or without; or, if the test was
\* approved, the newest database: this program puts it into the text itself while it
\* waits, or looks at the end.  That is one written since the test started (a
\* simulator that is alive goes on writing), or only in the two seconds before,
\* which may be of any run and counts with the texts here.
Attributed_AnyDatabase_Fault(fetched) ==
  IF fetched /\ at.batch # 0 /\ batch[at.batch].winner # 0
  THEN {[run |-> batch[at.batch].winner, seen |-> TRUE]}
  ELSE [run: RunId \cup {0}, seen: {FALSE}]
       \cup [run: IF at.approved THEN RunId ELSE {}, seen: {TRUE}]

Attributed(fetched) ==
  IF fetched /\ at.batch # 0 /\ batch[at.batch].winner # 0
  THEN {[run |-> batch[at.batch].winner, seen |-> TRUE]}
  ELSE [run: RunId \cup {0}, seen: {FALSE}]
       \cup [run: IF at.approved THEN sinceTest \cup {r \in RunId : Alive(r)} ELSE {},
             seen: {TRUE}]

\* record_result ingests the test before main appends its row.
Attribute ==
  /\ pc = "attribute"
  /\ \E fetched \in BOOLEAN : \E found \in Attributed(fetched) :
       at' = [at EXCEPT !.run = found.run, !.seen = found.seen]
  /\ ingested' = Append(ingested, at.test)
  /\ pc' = "append"
  /\ sinceTest' = {}
  /\ UNCHANGED <<runVars, done, progress, tail, n8n>>

\* The program dies; in AppendRow it may leave half a line, or a row without its
\* newline (as good as a row for --resume).
Crash ==
  /\ pc \notin {"down", "end"} /\ faults < MaxFaults
  /\ faults' = faults + 1
  /\ pc' = "down"
  /\ at' = NoTest
  /\ Left
  /\ sinceTest' = {}
  /\ \/ UNCHANGED <<progress, tail>>
     \/ pc = "append" /\ tail' = "bad" /\ UNCHANGED progress
     \/ /\ pc = "append"
        /\ progress' = Append(progress, at.test)
        /\ tail' = IF tail = "open" THEN "bad" ELSE "open"
  /\ UNCHANGED <<run, known, lock, batch, done, ingested>>

CampaignStep ==
  \/ Start \/ NextTest \/ End \/ AppendRow
  \/ WaitForNoIsaac \/ Converse \/ TurnEnds \/ Attribute

Next == Elsewhere \/ StartBatch \/ CampaignStep \/ Crash

Spec == Init /\ [][Next]_vars

\* Nothing is assumed of n8n, of the API or of the simulators: every wait for
\* them has a deadline.
FairSpec == Spec /\ WF_vars(CampaignStep)

-------------------------------------------------------------------------------
(***************************************************************************)
(* Properties.                                                             *)
(***************************************************************************)

\* A row that got its run from the selection, or from a database written since the
\* test started, names a run of another test, or of nobody, only if that run could
\* still be going: its batch outlived the turn that approved it, its caller was told
\* something else than COMPLETED, or it was started directly.
Explained(r) ==
  \/ run[r].batch \in outlived \cup {0}
  \/ run[r].answer # "COMPLETED"

ForeignRunExplained ==
  pc = "append" /\ at.seen /\ run[at.run].batch # at.batch => Explained(at.run)

\* progress.jsonl has each test once, across crashes and resumed sessions, and
\* manual_results.jsonl repeats a test only for a session that crashed in between.
RowsOnce ==
  /\ Len(progress) = Cardinality(Recorded)
  /\ Len(ingested) <= Cardinality(Ingested) + faults

\* However the simulators, the API and n8n behave, a session ends: with every
\* test recorded, or because it crashed.
SessionEnds == []<>(pc \in {"down", "end"})

-------------------------------------------------------------------------------
(***************************************************************************)
(* The inductive invariant behind RowsOnce: every test that a session was  *)
(* interrupted in after its ingestion stands for a restart.                *)
(***************************************************************************)

Interrupted == {t \in Ingested \ Recorded : pc = "append" => t # at.test}

ProgressInv ==
  /\ progress \in Seq(Tests) /\ ingested \in Seq(Tests)
  /\ pc \in Testing \cup {"down", "next", "append", "end"}
  /\ DOMAIN at = DOMAIN NoTest /\ at.test \in Nat
  /\ pc # "down" => done = Recorded
  /\ pc \in Testing \cup {"append"} => at.test \in Tests \ Recorded
  /\ Len(progress) = Cardinality(Recorded)
  /\ Len(ingested) + Cardinality(Interrupted) <= Cardinality(Ingested) + faults

CampaignInv == RunsInv /\ ProgressInv

(***************************************************************************)
(* What is added for ForeignRunExplained: the batches that can still start *)
(* or complete a run are the one of the test and those that outlived their *)
(* own turn, so a run of another batch that is seen to change has failed.  *)
(***************************************************************************)

LateBatches ==
  \A b \in DOMAIN batch :
    batch[b].thread # "done" /\ ~(pc = "approval" /\ b = at.batch) => b \in outlived

\* A run of a batch is never polled, and its answer is final when the batch is done.
BatchRuns ==
  \A r \in RunId :
    run[r].batch # 0 =>
      /\ r \notin known
      /\ run[r].batch \in DOMAIN batch
      /\ batch[run[r].batch].thread = "done" => run[r].answer # "waiting"

OwnBatch ==
  /\ at.batch \in DOMAIN batch \cup {0}
  /\ at.asked => at.batch = 0
  /\ pc \notin {"approval", "attribute", "append"} => at.batch = 0 /\ ~at.asked

RowsExplained ==
  /\ pc \notin Testing => sinceTest = {}
  /\ pc # "append" => ~at.seen
  /\ \A r \in sinceTest \cup (IF at.seen THEN {at.run} ELSE {}) :
       r \in RunId /\ (run[r].batch = at.batch \/ Explained(r))

ForeignInv == LateBatches /\ BatchRuns /\ OwnBatch /\ RowsExplained
===============================================================================
