# TRT intent-patch system: TLA+ models, model checking and proofs

This directory specifies the parts of the system whose correctness depends on order or on long chains
of decisions: requests that overlap, files written one after the other, threads, processes, timeouts,
restarts, answers of a language model, evidence computed from what a simulator left. The
specifications are checked with TLC on small instances; the invariants and action properties the
runs check are proved with TLAPS for every value of the constants, and so is the refinement of the
abstract ledger. Liveness is model-checked only.

Contents: 1 Inventory · 2 Hard behaviours · 3 Modules and how they map to the code ·
4 Runs · 5 Bounds · 6 Fairness · 7 Proofs · 8 Findings and observations ·
9 What is not modelled · 10 What is left to do

## 1. Inventory

The system turns an operator's natural-language request into a JSON patch on a versioned Task
Requirement Table (TRT), releases the patch after a decision of the operator, aligns the line
states with it, has candidate strategies simulated in Isaac Sim and records the chosen one as
deployed. It is two Python services. `trt-api` (`src/trt_core`, FastAPI under uvicorn, one process)
keeps every document in a JSON file below `data/`. The host runner
(`src/host_isaac_runner_service.py`, FastAPI on the machine with the simulator) keeps its runs in
memory. n8n workflows are the clients: they call `trt-api`, which calls the host runner. A campaign
program (`src/tools/m12_run_full_n8n_tests.py`) plays the operator against n8n, test after test.

Endpoints are plain `def` functions, so FastAPI runs each request in a thread of its pool: requests
overlap. `trt-api` takes one lock in all, `STRATEGY_SIMULATION_LOCK`, around the execution of a batch.

| component | state it keeps | operations | interacts with | correct when |
|---|---|---|---|---|
| TRT repository (`repository.py`) | version files `trt_versions/*_v<n>.json`, the pointer `trt/current_trt.json`, release records, audit bundles, state records, plans, batches | list, load, save with `.tmp` + `os.replace`, repair of the pointer while reading | called by everything below | the pointer follows the versions, nothing approved is lost |
| Release gate (`release.py`, `patch_apply.py`, `validator.py`, `audit.py`) | none of its own | `prepare_release`, `record_release_decision`, `apply_intent_patch` | repository | every decision is audited, stands once, and is applied to the base it was made for |
| TRT endpoints (`api.py` 566-627, 2223-2300, 2686-2729) | none | read, apply, prepare, decide, debug repair and reset | release gate, repository | what is read is the latest TRT |
| Intent normalization (`intent_normalizer.py`, `api.py` 2410-2684) | none; reads TRT and recorded times | normalize an extracted request, ask the model again, build the patch | language model, release gate, Time-Arrival state | values, lines and exclusions are those the operator asked for |
| Chat sessions and dialogue (`chat_sessions.py`, dialogue endpoints) | one file per session | dialogue decision, clarification merge, save, clear | n8n, language model, evidence | what waits for approval is complete and fresh; turns are remembered |
| Supervisor (`supervisor.py`, `reconciliation.py`, `state_records.py`, `line_registry.py`) | state records, plans | align the released TRT with line states: a decision per line | repository | no line in error or with an excluded tool at work is changed |
| Scenario generation (`src/scenario_generation`) | exported ScenarioSpecs | gates, build, validate, export | the supervisor's plan, TRT | only a plan that allows it is exported |
| Candidate generation and ranking (`strategy_selection.py`) | none | bounded generation with deterministic validation, measurements, gates, ranking | language model, evidence | operator locks survive; the winner passes every gate |
| Candidate batches (`api.py` 105-110, 3595-3983) | batch files, registry of threads, the lock | generate, run, poll; the worker thread | scenario generation, simulation client, ranking | one batch at a time, a result belongs to one thread, polls settle |
| Simulation client (`api.py` 3069-3526, `digital_twin_adapter/`) | run files, `SIMULATION_RUNS`, result databases it reads | run SYNC or ASYNC, wait, poll, read results | host runner (HTTP) | COMPLETED means a simulator that ended with its results |
| Host Isaac runner | `RUNS`, `PROCESSES` under `RUN_LOCK`; result database (sqlite) | launch, refresh, time out, finalize the database | simulator process, simulation client | the status agrees with process and database |
| Evidence extraction (`evidence_extractor/`) | evidence summaries | summarize a run, recommend | result database | deployment is recommended only on evidence |
| Simulated deployment (`simulated_deployment.py`) | state records, `current_state.json`, simulation defaults, deployment records | deploy the selected run | batch selection, Time-Arrival state | only the selected run; the files agree |
| Time-Arrival state (`time_arrival_state.py`) | one record with a version counter | load, save | deployment, prompts | the record is what was deployed or entered last |
| Test campaign (`tools/m12_run_full_n8n_tests.py`) | `progress.jsonl`, `manual_results.jsonl` | wait for simulators, converse, attribute a run, record, resume | n8n, result databases | a row per test, put down to its own run; sessions end |
| ENT demo and errors, Milestone 12 harness, tools, n8n exports | reports, fixtures | — | — | see section 9 |

## 2. Hard behaviours

* **Requests that overlap on files.** A handler reads the current TRT, compares the base version,
  lists the versions again for the next number, checks that no file has that name, writes a
  temporary file, renames it, rewrites the pointer, writes an audit bundle and then the record:
  more than ten accesses without a lock. The temporary file `.<name>.tmp` belongs to the path,
  not to the writer; some files (`current_state.json`, the defaults) are written in place.
* **Restarts.** A restart between any two of these leaves some of the files written. Nothing
  is logged ahead; recovery is what later reads repair (`get_current_trt`).
* **Readers that write.** Reading the TRT may repair the pointer from an old listing; polling a
  batch may save it; reading the Time-Arrival state may create it.
* **Two views of one thread.** The batch file says QUEUED or RUNNING, the registry of threads says
  what is alive; a request reads one and then the other.
* **Two refreshes of one run.** The synchronous waiter and every poll compute a result each and
  the last one stored stays; both may finalize the result database.
* **Timeouts.** The host terminates and kills a run that is overdue, which may end by itself in
  between or survive; the client gives up after a timeout of its own, and what it abandoned goes on.
* **State read before a model call and used after it.** A dialogue or a regeneration waits minutes
  while releases, deployments and other messages go through.
* **Partial failure.** A candidate can fail in three places and the batch must go on; a deployment
  writes four files with no way back.
* **Chains of small decisions.** A request passes text patterns, coercions, composite merges, repairs
  and a demotion; a run passes five checks, a tier and an acknowledgement. Each step has unit tests,
  what the chain lets through has not.

`PROJECT.json` lists each of these at its line under `hazards`, with the properties about it.

## 3. Modules and how they map to the code

`PROJECT.json` `map` names the lines of every definition. Definitions whose name ends in `_Fault`
are plausible mistakes in the definition that follows them. No action uses them; each is there to
show that a property notices it.

| component module | runs through | proofs | uses |
|---|---|---|---|
| `TRTRelease` (with `TRTLedger`) | `MCTRTRelease` | `TRTRelease_proofs` | — |
| `StrategyBatch` | `MCStrategyBatch` | `StrategyBatch_proofs` | — |
| `HostRunner` | `MCHostRunner` | `HostRunner_proofs` | — |
| `StrategySelection` | `MCStrategySelection` | `StrategySelection_proofs` | `Evidence` |
| `Deployment` | `MCDeployment` | `Deployment_proofs` | `IsaacCommand`, `Supervisor`, `Evidence` |
| `Dialogue` | `MCDialogue` | `Dialogue_proofs` | — |
| `Intent` | `MCIntent` | `Intent_proofs` | — |
| `Campaign` | `MCCampaign` | `Campaign_proofs` | `IsaacRuns` |

An MC module adds the sets that need model values and the symmetry sets; the configurations give all
constants their values and replace no definition. Symmetry is used for safety only.

### TRTRelease — repository, release gate and TRT endpoints

State: `versionFile`, `pointer`, `record`, `audit` are the JSON files; `versionTmp`, `pointerTmp`,
`recordTmp` the temporary files of `_atomic_write_json`; `pc` and `local` the handlers (where each
stands, and its local variables); `handle` where the file is that a handler has open; `requests` and
`crashes` count towards bounds.

A handler takes one step per file access. `return` in `local` is where `get_current_trt` and
`save_current_trt_snapshot` come back to, so that these two are modelled once. Below, StageX, FillX and
PublishX are `_atomic_write_json`: opening the temporary file, which empties it; writing; renaming.

| code | steps |
|---|---|
| `get_current_trt` | `ListVersions`, `ReadPointer`, then `TakePointer` or `LoadLatest` and, for the repair, Stage-, Fill-, `PublishPointer` |
| `prepare_release` | read, `PrepareAgain` (it reads twice), `SaveRelease`, read once more |
| `apply_intent_patch` | read, `Firewall`, `NumberVersion` (the listing), `StampVersion`, `CheckVersion`, Stage-, Fill-, `PublishVersion`, pointer, `OpenAudit`, `WriteAudit` |
| `record_release_decision` | `StartDecision` (loads the record and checks that it is pending), then `apply_intent_patch` or `Revalidate` and the bundle, then Stage-, Fill-, `PublishRecord` |
| debug repair, debug reset | `ListVersions` and the repair; read, `ResetState`, Stage-, Fill-, `PublishVersion` |
| end of the process | `Restart` |

The temporary file belongs to the path. One handler may empty it while another renames it, so that a file
comes out `Empty`; one may write through its handle what another has renamed already; two may mix their
documents (`Torn`). A request that has to parse such a file ends there (`json.loads` raises), and nothing
repairs it. `Written` and `Moved` say which file a write and a rename reach.

A document keeps what the properties tell apart: its number, the number it was made from, the
release and audit ids stamped on it, the set of patches its content includes, and whether line_2
has the state of the demo reset. A patch is named by the release it is the candidate of, whichever
decision applies it, or by the audit id of a direct application (`Edits`). The checks of schema,
whitelist and semantics are one nondeterministic verdict (ACCEPTED, INVALID); the check of the base
version is kept. `save_audit_bundle` has no temporary file: it refuses a path that exists, opens and
writes. Each release id, drawn as a uuid4, is used once; the request counter is the audit id.

### TRTLedger — what the release gate promises

An abstract specification without files, handlers and restarts: `contents` (for each version the edits
it contains) and `verdict` (per release). `Propose`, `Release` and `Decide` are its steps: a version
has exactly one edit more than the newest one, a verdict is given once, RELEASED is given only with the
release's own edit in the newest version. `TRTRelease` implements it with `contents[n]` the patches of
version file n and `verdict` the status of the published record (`ImplementsLedger`, checked with
one handler, all endpoints and two restarts anywhere): all other steps stutter. With two handlers
the refinement fails, which is finding 1.

### StrategyBatch — execution of candidate batches

State: `batchFile`, `batchTmp` (files), `registered` (STRATEGY_BATCH_WORKERS), `lock`
(STRATEGY_SIMULATION_LOCK), `worker` (batch threads), `client` (request threads).

POST run is `RunLoad`, `RunCheck`, `RunStage`, `RunPublish`, `RunRegister`, `RunStart`; GET is
`GetLoad`, `GetCheck`, `GetStage`, `GetPublish`; the thread is `Acquire`, `Load`, then `Candidate`,
`Scenario`, `Simulate` per candidate, `Rank`, `Exit`, each save being `WorkerStage` and
`WorkerPublish` or `WorkerSaveFails`, which follows the `try` and `finally` blocks: where a save that
raises fails the candidate, the batch, or ends the thread. A candidate run names the thread that
made it; a simulation ends failed, eligible or not eligible. `rank_candidate_runs` is `Ranked`: any
eligible candidate may have the best score (`StrategySelection` says which).

### HostRunner — the service beside the simulator

State: `runs` and `registered` (RUNS and PROCESSES), `process` and `database` (the host: Popen's
process, the result database with its `simulation_runs` row and the number of times the lines are
reported), `overdue` (timeout elapsed), `thread` (requests). `Refuse`, `Launch`, `Register` are
`_start_isaac_async`; `Refresh`, `Check`, `Kill`, `Reread`, `Finalize`, `WriteResult`, `Store` are
`_refresh_isaac_run` with `finalize_successful_result_db`, one step per critical section of RUN_LOCK,
per look at the process and per database transaction. The simulator (`IsaacExits`) is external: it
ends with any return code and leaves the database in any state it writes; it need not end at all.

### Evidence and StrategySelection — from proposals to a winner

`Evidence` is `evidence_extractor/` as operators on a result database, a ScenarioSpec and a TRT: reading
(`ReadSimulationResults`), timing, picking order and gating (`Timing`, `PriorityFailureChecks`, `BatchGatingChecks`), the failed
checks with their ids (`FailedChecks`), the tier (`RiskTier`) and the answer (`BuildEvidenceSummary`:
recommended, allowed, needsAck, acks). A database is a record: whether it can be opened, the run's
status and error, a KPI row, the picks and the batches of each line, the tools placed. Numbers are small
integers or `None`, and the verdict on a placement may be `None` (rates skip it, `Determinate`); the error
texts are the markers the code looks for; `log` is what seed database and host output add to them.

`StrategySelection` is one batch from generation to selection: `StartBatch` (the operator-faithful baseline,
or GENERATION_FAILED where its mode contradicts a lock), `ConsiderProposal` for each candidate the model
writes, guarded by `ValidNext` (`_validate_candidate_batch`), `EndAttempt` (retry, the accepted ones
kept), `RunCandidate` with any of the databases and logs, `CandidateError`, `SelectWinner` (`RankCandidateRuns`).
Threads and files of the worker are in `StrategyBatch`, which leaves these computations open.

### Supervisor, IsaacCommand and Deployment — from a released TRT to a deployment

`Supervisor` has the decision tables as operators: `DecideLine` and `BuildPlan` (`supervisor.py`,
`reconciliation.py`), the readiness and gates of POST `/scenario/generate` (`GenerateAnswer`) and the parts of
a ScenarioSpec that later steps read (`ScenarioSpec`): which lines a scope means (`ScopeChoices`), which
of them a shortened dry run keeps (`ShortenedLines`), whose registry entries are missing
(`MissingRegistryLines`), whether the plan is one for this version and these states (`PlanMatches`), and
how overrides change the line policies (`ApplyLinePolicyOverrides`). A TRT maps each line to its requirements, the state
records each line to mode, wip, task, tools, and what was deployed to it.

`IsaacCommand` is the way of a ScenarioSpec into the arguments of the simulator command
(`digital_twin_adapter/`): the tools of a line as the adapter classifies them (`LineTooling`), the checks of
`validate_scenario_spec_for_isaac` (`IsaacCanRun`), the arguments with the order in which their sources
are asked (`CommandArgs`), and the comparison of the command with the request that refuses a run
(`MeetsRequest`). `Launches` is what POST `/simulation/run` needs of all this to start a simulator.

`Deployment` has the requests over them as actions, served by two threads: `Reconcile` (with stored or
given state records), `GenerateScenario`, `Simulate`, `SelectRun` (a batch can be run again: its selection,
deployable meanwhile, is withdrawn and replaced; `offered` remembers all that were selected), and one step
per file for the writers: `StartDeploy`, `SaveStateRecords`, `PublishState`, `SaveDefaults`,
`VerifyDefaults`, `ReadVersion` (which refuses invalid times), `OpenTemporary`, `FillTemporary`,
`ReplaceArrival`, `SaveAudit`; `StartStateUpdate` and `StartTimeArrival` are the other requests that write
the same files. The two files written in place can be seen empty beside a writer, and a `Crash` or two
writers that meet (`met`) leave them torn (`Seen`, `Left`). The Time-Arrival record has a temporary file
that its writers share, handled as in `TRTRelease`. `loc` is what a request read before and writes later.

### Dialogue — chat sessions

State: `file` and `tmp` (the session and its temporary file, shared by all writers), `handle` (where the
file a thread has open is by now: renamed and unlinked files keep their handles), `version` (the TRT),
`turns`, `pc` and `loc`. A dialogue request is `StartDialogue`, `ReadSession`, `CallFails`* and
`ModelAnswers` or `AnswerUseless`, `Decide` (repairs, routing, demotion, candidate), then
`OpenTemporary`, `WriteTemporary`, `Replace`; or `Clear`, `Unlink` for CANCEL. `Put`, `Summarize`, `Delete`
and `Merge` are the other endpoints on a session; `Release` is a TRT released meanwhile.
`Decision` is the chain from the model's answer to what is done: `Routed`, `Repaired`, `MissingForReview`.
`Merged` is what a reply makes of a pending closed question: its options keep the scope of the question,
also ALL_LINES where the reply names one line; a free text (MERGED_TEXT) brings lines of its own (`TextLines`).

### Intent — from an extracted request to a patch

A text is what the code's patterns find in it (module comment), a request the fields the intent model
extracted. POST `/intent/normalize` is `Receive` (reads TRT and recorded times, recovers stated values),
`Ask`, `Answer` or `ModelFails` (regeneration, which reads the times again), and then `Normalized`: the
coercions, the expansion and merge of composites, validation and the operations of the patch, in the
order of `normalize_intent_candidate`. The approval of the reviewed patch takes four steps, as in
`TRTRelease`: `Apply` reads the current TRT and checks the patch against it (`semantic_rules.py`, base
version), `Number` takes the next number from a later listing, `SaveVersion` and `SaveCurrent` write. Two
approvals overlap anywhere between; `twice` has the numbers given to two of them. `Discard` is the refusal, `RecordTimes` a deployment
that changes the recorded times.

### IsaacRuns and Campaign — everything above the simulator, composed

`IsaacRuns` has the runs as `trt-api` sees them: batches with their threads and the lock (the steps of
`StrategyBatch` condensed), direct calls SYNC and ASYNC, polls, the client that gives up
(`ClientGivesUp`), restarts of host and API, and simulators that go on whoever has stopped waiting.
`HostRunner` is condensed to what it answers. `Campaign` extends it with the program that runs the tests:
`NextTest`, `WaitForNoIsaac`, `Converse`, `TurnEnds`, `Attribute`, `AppendRow`, `Crash` and `Start` with
`--resume`. `Elsewhere` is any step of the rest. n8n is external: it starts the batch of an approved
test (`StartBatch`), during its turn or at any time after, answers sooner or later, or never. A run is put
down to a test by the selection of its batch, by a run id in some text or in the execution data, which
may be any, by a database written since the test began, or by one of the two seconds before
(`Attributed`). A crash while a row is appended can leave half a line, or a line without its newline, to
which the next row is joined (`tail`).

Simplifications, all of which only add behaviours or leave out none that a property is about:
a run id that a text, the execution data or a database of the two seconds before the approval names may be any
(`seen` tells these apart); the newest database of a test may be any one touched since it began; deadlines are untimed, a wait may end at any time; the restarts of API, host
and campaign share one bound; a test that injects a fault or launches no simulator is one that ends
without an approval.

## 4. Runs

A property is checked where it holds and is a question. "One request at a time" means one handler
or client; it does not exclude restarts.

| run | instance | properties | what it shows |
|---|---|---|---|
| `TRTRelease_sequential` | 1 handler, every endpoint, 2 releases, 3 versions, 2 applications, 2 restarts; 3.7M states | `ImplementsLedger`, `PointerLag`, `UnauditedOnlyByRestart`, `TurnedDownOnlyByRestart`, `NothingTorn` | Without overlap the release gate implements the ledger: versions form one chain, an approved edit is in its version and every later one, a decision stands, whatever restarts come between. The pointer is at most one version behind; each restart leaves at most one version unaudited, and at most one release in the TRT that its record turns down; no file is left that cannot be parsed. |
| `TRTRelease_concurrent` | 2 handlers, read, prepare, apply and decide, 1 release, 1 restart; 1.9M states | `DecisionAudited`, `AppliedToItsBase`, `PointerCatchesUp` | What survives any interleaving; and while TRTs keep being read, the pointer ends at the latest version, although a reader with an old listing may set it back, unless overlapping writers and a restart have left a file that nothing repairs. |
| `TRTRelease_lost_edit` | 2 handlers, read and apply | `BaseIsPredecessor`, violated | finding 1 |
| `StrategyBatch_concurrent` | 1 batch, 2 candidates, 2 clients, 2 threads; 7.5M states | `OneBatchAtATime`, `RunsOfOneThread`, `SelectionSound` | The lock holds; a batch file never mixes the runs of two threads; what a batch selects has been simulated by the thread that says so, and the operator is asked to refine only on conclusive evidence — even when the batch was given two threads. |
| `StrategyBatch_live` | 2 batches, 1 client, 2 threads, 1 restart; 64k states | `PolledBatchSettles`, `ThreadsEnd` | Polled batches settle, also after a restart; started threads end, so the lock goes round. |
| `HostRunner` | 1 run, 3 requests, 1 restart; 243k states | `FinalRunEnded`, `StatusOfReturnCode`, `CompletedIsReadable`, `RequestsAnswered` | However refreshes overtake each other, a final status means a process that has ended with the matching code, a clean COMPLETED means a readable database, and every request is answered although the simulator may hang. |
| `StrategySelection` | 9 contexts, 5 proposals, 26 databases, 4 logs, 2 attempts; 200k states | `LocksKept`, `BatchSound`, `WinnerComplied`, `WinnerDeployable`, `CleanRunWins` | No retry or override changes what the operator locked; candidates differ and are consistent; the winner did what it was selected for, its deployment will not be turned down for its evidence, and a clean run is not lost to the ranking. |
| `Deployment` | 3 lines, 3 versions, 2 threads, 1 run selected and withdrawn at any time, 2 deployments, 1 other write, 1 crash; 2.5M states | `PublishedWasAllowed`, `SoloDeploymentAgrees`, `ErrorLineKeepsTarget`, `NoExcludedToolInProcess` | Whatever file names a deployment, evidence and selection allowed it; an undisturbed deployment leaves four files that agree, whatever it found; the supervisor's refusals hold through plan, scope and overrides. |
| `Deployment_nochange` | same | `NoChangeMeansSame`, violated | finding 2 |
| `Dialogue` | 2 requests, 2 turns, 2 versions, 2 attempts, 1 other write, 1 crash; 3.8M states | `ReviewedIsComplete`, `CandidateIsFresh`, `TornOnlyByRace`, `NoInventedLines`, `ConversationGrows` | What waits for approval is complete whatever the model claims, and based on a version current since its answer; only overlapping saves tear the file; a resolved question names no line the operator did not, unless all lines were meant. |
| `Intent` | 2 lines, 3 tools, 2 requests at a time, 3 in all, 3 versions, 2 attempts; 2.9M states | `RequestedValuesReviewed`, `UnnamedLinesKept`, `ExclusionsAccumulate`, `ErrorLineNamed` | Between extraction and release no coercion, composite merge, regeneration or change of the records in between alters the values asked for or spreads a change to other lines, and no approval takes back an exclusion of the version it read. |
| `Campaign` | 2 tests, 2 batches, 1 candidate, 2 runs, 1 direct call, 1 restart; 3.0M states | `OneSimulatorUnlessAbandoned`, `CompletedIsReal`, `ForeignRunExplained`, `RowsOnce`, `SessionEnds` | Two simulators of batches run at once only if one was abandoned; COMPLETED is never said of a run that did not complete; a row that names a foreign run it has from the selection or from a database of its test has an explanation; a test has one row across crashes; sessions end. |

Type correctness is part of the proved invariants (`IInv` and the others of section 7).

`mutants` in `PROJECT.json` pairs every property of a passing run with a plausible mistake in the code
it is about; with the mistake in place the run finds the property violated.

## 5. Bounds

* **Two handlers, clients, requests.** Every finding and every guard of the code is about a step of one
  request between two steps of another; the third adds no new pair. Handlers do not know each other:
  they meet only in the files. `HostRunner` has three, because a synchronous waiter loops and two
  polls can then finalize beside it.
* **`TRTRelease`: three versions, two applications.** Both applications can succeed (v2, v3), be made for an
  old base, or meet on v2. `MaxRequests` counts the calls that draw an audit id; `Restart` and reading
  are bounded by themselves. Opening, writing and renaming are steps of their own, so that any two writers of
  one path meet in every order. Requests to prepare are bounded by the release ids (`ReleaseIdLeft`), run
  requests by the threads (`ThreadLeft`). The concurrent run has one release: decisions about
  different releases meet only in the versions, which applications and decisions do there as well.
* **Candidates.** Two are the least for which a failed and an evaluated one are in a batch together
  (the code takes 2 to 8; the loop does the same for each). `StrategySelection` has up to 3 with the
  baseline; `Campaign` needs one, since a batch thread waits for one simulator at a time.
* **`StrategySelection`**: each database differs from a clean one in one respect, which is how a gate that is
  missing shows; two attempts let accepted candidates survive a retry.
* **`Deployment`**: version 2 excludes a tool of one line and ranks the other; version 3 changes picking
  priorities only. Line reports have a running line with the excluded tool and the other line in ERROR,
  INTERVENTION and RUNNING. One plan, scenario and run each, two deployments (`MaxDeployments`), so that one
  can follow a torn or mixed state of the other; with one run a selection can be withdrawn and come back,
  and the exchange of one run for another is covered by the theorem; `ToolCount` 27 is the catalog's size.
* **`Dialogue`**: two turns make a conversation grow; two versions, a release during a call; one other write
  (`MaxWrites`) beside the two requests.
* **`Intent`**: three versions let a patch be made for an old base; `MaxRequests` 3 lets one follow two
  approvals that overlapped; the candidates are those in which two
  sources of one value disagree (text and fields, whole and part, stated and recorded).
* **`Campaign`**: two tests, so that the batch of the first can outlive it; two runs and a direct call;
  `MaxFaults` 1, `MaxBatches` 2, one for each test.
* **Restarts**: two where one handler runs, so that a retry can be interrupted too; one elsewhere.
  None in `StrategyBatch_concurrent`, whose live companion has one.
* **One run of the host runner**: entries of RUNS and PROCESSES of different runs do not meet; two
  runs were explored (2.6M states, no restart) and add nothing.

Deadlock is checked in `TRTRelease`, `StrategyBatch` and `HostRunner`, where a read or a poll is always
possible. It is not in the others, which really come to an end: a batch is selected, the requests of
`Deployment`, `Dialogue` and `Intent` are bounded inputs, and a campaign ends.

## 6. Fairness

Weak fairness of the steps of a request that has been accepted, and of a thread that has been
started: the operating system schedules them, and nothing in them waits except for the lock or for a
simulation, which ends or is timed out (`HostRunner` models that timeout; in `StrategyBatch` it is the
fairness of `Simulate`). In `HostRunner` time passes as well (`TimeoutElapses`). No fairness is
assumed of clients, of restarts or of the simulator, which may hang. `PointerCatchesUp` and
`PolledBatchSettles` take repeated reading or polling as their premise, because nothing in the
server looks by itself. The lock is not fair (`threading.Lock` is not); `ThreadsEnd` holds with weak
fairness in the instance since a thread releases the lock once and never takes it again.

`Campaign` has weak fairness of the campaign's own steps (`CampaignStep`) and of nothing else: every wait of
the program for n8n, for the API or for simulators has a deadline of its own. The ingestion, a
subprocess without one, is assumed to end.

## 7. Proofs

For any handlers, releases, runs, threads, tests, lines, contexts, proposals, databases and any bounds,
within the assumptions named below:

| module | theorem | establishes |
|---|---|---|
| `TRTRelease_proofs` | `InvariantHolds`, `TypeCorrect` | `IInv`, `TypeOK` |
| | `DecisionsAreAudited`, `AuditBundlesAreImmutable` | `DecisionAudited`, `AuditImmutable` |
| | `ReleasedOnItsBase` | `AppliedToItsBase` |
| | `PointerNeverFarBehind`, `OneOrphanPerRestart` | `PointerLag`, `UnauditedOnlyByRestart` with one handler |
| | `TurnedDownNeedsARestart`, `RestartsTearNothing` | `TurnedDownOnlyByRestart`, `NothingTorn` with one handler |
| | `VersionsFormAChain` | `BaseIsPredecessor` with one handler; finding 1 refutes it with two |
| | `GateImplementsLedger` | `ImplementsLedger` with one handler |
| `StrategyBatch_proofs` | `StrategyBatchTypeOK` | `TypeOK` |
| | `MutualExclusion`, `RunsNeverMixed`, `FinishedMeansFinished` | `OneBatchAtATime`, `RunsOfOneThread`, `SelectionSound` |
| `HostRunner_proofs` | `InvariantHolds`, `ProcessIsKnown` | `IInv`, `ProcessKnown` |
| | `FinalRunsHaveEnded`, `StatusFollowsReturnCode`, `CompletedRunsAreReadable` | `FinalRunEnded`, `StatusOfReturnCode`, `CompletedIsReadable` |
| `StrategySelection_proofs` | `CandidatesHold`, `RunsHold` | the inductive invariants |
| | `OperatorLocksAreKept`, `BatchesAreSound`, `WinnersAreDeployable` | `LocksKept`, `BatchSound`, `WinnerDeployable` |
| | `WinnersComply`, `CleanRunsWin` | `WinnerComplied`, `CleanRunWins` |
| `Deployment_proofs` | `PipelineHolds` | the inductive invariants of the chain before a deployment |
| | `ErrorLinesKeepTheirTarget`, `ToolsInProcessAreWaitedFor` | `ErrorLineKeepsTarget`, `NoExcludedToolInProcess` |
| | `PublishedDeploymentsWereAllowed`, `SoloDeploymentsAgree` | `PublishedWasAllowed`, `SoloDeploymentAgrees` |
| `Dialogue_proofs` | `DialogueTypeOK`, `TurnsAreKept` | `TypeOK`, `ConversationGrows` |
| | `ApprovalIsComplete`, `CandidateNeverOlder` | `ReviewedIsComplete`, `CandidateIsFresh` |
| | `TornTakesTwo`, `LinesWereNamed` | `TornOnlyByRace`, `NoInventedLines` |
| `Intent_proofs` | `IntentInvariant` | `IInv` |
| | `IntentExclusionsAccumulate`, `IntentErrorLineNamed` | `ExclusionsAccumulate`, `ErrorLineNamed` |
| | `IntentUnnamedLinesKept`, `IntentRequestedValues` | `UnnamedLinesKept`, `RequestedValuesReviewed` |
| `Campaign_proofs` | `InvariantHolds` | `CampaignInv` |
| | `OneSimulator`, `CompletedRunsAreReal` | `OneSimulatorUnlessAbandoned`, `CompletedIsReal` |
| | `RowsAreWrittenOnce`, `RowsNameTheirRuns` | `RowsOnce`, `ForeignRunExplained` |

Every assumption on a constant is named where the constant is declared and evaluated by TLC in the runs. Those
called `...NoneAssumption` or `AbsentAssumption` keep `None` apart from the data, and those on bounds say that
they are natural numbers; only the others are named below.

**`TRTRelease_proofs`.** Assumptions: `FileAssumption` (an empty or mixed file is no document) and
`EditAssumption` (a release id is no audit id). `DecisionAudited` alone is not inductive. It says of a *published* record that
its bundle is complete; to keep it, what is about to be published must be known to be so. `IInv` therefore
adds

* `ControlOK`: which request a handler serves where it stands, and where a read will return to;
* `DataOK`: what it has read or computed by then (a listed version still has a file, because no
  action removes one);
* `IdsOK`: audit ids of different handlers differ, and no file exists for an id not yet drawn;
* `AuditOK`: the file of a handler's own id is missing, then torn, then exactly `Bundle(h)`;
* `RecordsOK`: `Audited` of the decided records and of the *temporary* record files too, which survive
  a restart and may be renamed by another request.

`IdsOK` makes bundles private to a request, `AuditOK` ties the order of the writes to them, and so the
record staged after the bundle is `Audited`; as nobody rewrites a complete bundle, it stays so. The
same two conjuncts give `AuditImmutable`. An unreadable record file names nothing, so that opening and mixing
of temporary files keep `RecordsOK`. `GateInv` stands on `IInv` and follows an audit id from the firewall to
the files: `OutcomeOK` (what a handler has been told by then), `DocumentsTraced` (a document that carries an
audit id, in a version file, a temporary file or a handler's memory, was made from the base its bundle
names, or its handler is still on the way to that bundle) and `RecordsBased` (the bundle of a record that
says RELEASED, temporary or published, was made on the record's own base). Every action has one lemma with
one step for each conjunct; `NextIInv` and its like join them.

The second part of the module has the hypothesis `Sequential`, that there is at most one handler. `SequentialInv`: the version
files are `1 .. Latest`, each the one before with one edit more (`Chain`, `Continues`); the pointer copies one of
the last two (`PointerOK`); records can be parsed (`RecordsWhole`), and a release whose edit is in the
TRT was prepared for an older version, so that its base is no longer current (`PresentOK`); a handler that has
not yet written holds the latest version, and what it has staged is what it staged (`HandlerOK`); the versions
without a complete bundle (`Orphans`) and the releases in the TRT whose record does not say RELEASED and
which nobody is deciding (`Cut`) number at most the restarts each. A restart between a version and its
bundle or record is what adds one of these; the step of the next request must find the chain as if nothing
had happened, although temporary files of the interrupted one lie around. An edit that is `Present` was made
for a base that is no longer current and is not applied again; a release cut off by a restart can only be turned down.
In `GateImplementsLedger` only `PublishVersion` and `PublishRecord` and the release of a new id are steps of the ledger; every other step stutters.

**`StrategyBatch_proofs`.** `IInv`: every copy of a batch document, in a file, a temporary file, a request or
a thread, is sound by itself, whatever its age, and the copy a thread works on has come as far as the thread
(`WorkerOK`). Soundness of each copy is what makes the properties survive two threads of one batch and
polls that write back old documents. `StartersApart` and the count of created threads keep thread ids private;
the lock gives `OneBatchAtATime`. Assumption: `PoolAssumption`, the pool of request threads is finite.

**`HostRunner_proofs`.** The properties speak of stored runs; a refresh computes its result long before it
stores it, and another may store in between. `IInv` therefore says of the *result still to be stored* what
the properties say of the stored one (`Justified`, used in `RunOK` for runs and in `ThreadOK` for records).
To justify COMPLETED, `ThreadOK` relates the database to what a finalization has seen of it (`Follows`):
others can only have completed it since, and a completed database has its lines. That a request is alone
between the launch and the registration of its process keeps RUNS and PROCESSES in agreement.

**`StrategySelection_proofs`.** Assumptions: `ContextAssumption` (the scope is a finite set of lines of the TRT
and a target is absent or a natural number) and `DatabaseAssumption` (a rate is absent or a natural
number, the picks of a line are a sequence, and a placement is right, wrong or undetermined). `CandidatesInv` says that every accepted candidate passed
the validation against those before it, which is more than the batch shows; distinctness of the whole batch
and the locks follow, with `BaselineSound` for the candidate that is not validated. `RunsInv` says that a
run's outcome was computed from its own database with some log of its seed database and output of the host. The deployment computes the
evidence again without that output; `StillAllowed` proves that this never makes it worse. `RankedInv` says
that a batch that is over was ranked. `CleanRunsWin` needs that a clean run passes every gate and that of a
set of eligible runs one is ranked first: `SumIsNatural` and `SmallestMember` prove the sums and minima by a
minimal counterexample (`WFMin` of WellFoundedInduction), which needs no operator parameter.

**`Deployment_proofs`.** Assumptions: `DeployAssumption` (a deployment names a run) and `ReportAssumption` (state
records have all their fields, a negative `wip_count` is refused, and a report does not say what was
deployed). `ThreadsInv` and `RecordsInv`: records read or held are complete, torn files apart. `PipelineInv`: plans are
what the supervisor built, scenarios were generated from a plan by the gates, and runs from a scenario; the
two refusals of the supervisor follow through scope, shortening and overrides. `OfferedInv`: whatever was ever
a selection had evidence that allows it, also when a batch run again has replaced it since. `NamesInv`:
each deployment that a file, a state record or a thread names passed the checks (`Cleared`). `SoloInv` follows a deployment without others from
step to step (`SoloAtWork`: which files it has written and what they hold, its handle on the temporary file
included, whatever was there before) until it
is over (`SoloOver`), when the four files agree.

**`Dialogue_proofs`.** Assumptions: `InputAssumption` (answers, replies and documents have the fields the code
reads), `PutAssumption` (n8n saves a reviewed candidate as WAITING_FOR_APPROVAL and leaves
WAITING_FOR_APPROVAL_DECISION to the API, as its workflows do) and finitely many lines. First come the operators: what repairs, routing, demotion and merge return
for any answer. `LinesWereNamed` excepts what `AllLinesMeant` names: a reply or question
about all lines, whose scope the options keep, and a free text that changes simulation settings. `IInv`: `RequestOK`, what a request holds at each step; `FilesComplete`, a session or
temporary file that can be read is complete if it waits for approval; and while no race has happened (`~raced`), one request saves at
a time (`OneSaver`), who alone holds handles. `ConversationGrows` is proved step by step from `IInv`.

**`Intent_proofs`.** Assumptions: `LinesAssumption` (finitely many lines, each with the fields a patch writes) and
`RequestAssumption`, that a request has the form the code gives it, which is `FormedRequest`. Of this two clauses are not
mere typing, and both are in the code: the lines a clause of a text names are named by the text too
(`ClauseOf`, `Readable`), because clauses are pieces of the text (`intent_normalizer.py:968-969`) and the line patterns
match anywhere in it (`:1453-1467`, `:2033-2041`); and a text changes only times by an amount, never a field the
text can also set outright (`:1642-1664`). The parts of a text may contradict each other.

The coercions are followed one by one. `Follows(c, d)` says what a later form `d` of a request may add to an earlier
one `c`: no line that `c`, its clauses or its text do not name, and all lines as its scope only if nothing named one;
`CoercedFollows` is the chain. `ExpandedRequest` and `CompletedPart` carry it into the parts of a composite
(`PartOf`). `OperationsSeq` and `PatchOfPart` say which operations a completed part yields (`Writes`, `Written`),
`PatchOfRequest` joins the parts (`WrittenFor`): exclusions contain those the line had when it was read,
a line outside those named gets nothing but throughput targets if the request is targeted, and no target
or policy if it is in ERROR. `IInv` keeps that for every request under way (`SlotOK`) while other requests are
released: a reviewed patch made for the current version keeps the current exclusions (`PatchKeeps`), because what was
read for it then *is* the current TRT (`Snapshot`); a patch for another base is refused. An approval keeps them
relative to the TRT it read (`Excludes`), whatever overtakes it before it writes. `Snapshot` fails for a number that
two approvals were given, whose versions overwrite each other; hence the premise (`Once`: the number is not in
`twice`), and `NumberOK`: a number one approval alone was given is that of no version and of no other
approval. The same holds of the other action properties without the premise, since they compare a version with
the one its approval read. From `IInv` each action property is a statement about one step, `SaveCurrent`.
For `RequestedValuesReviewed` the values are followed instead of the lines
(`Right`): a value that a coercion, a part or the merge leaves is the expected one, if there is any; the merge takes
the last writer's, and all writers agree. `ValuesKept` is added to the invariant in `NextKeeps`. The operators that
flatten and merge are handled by induction over `0 .. n` (`UpTo`, from a smallest counterexample) and by `MaxIsMember`.

**`Campaign_proofs`.** Assumptions: `RunsAssumption`, `TestsAssumption`. `CampaignInv` is `RunsInv` with
`ProgressInv`. `RunsInv`: a running batch thread holds the lock (`LockHeld`), a run somebody waits for belongs
to a running thread which waits for no other (`AwaitedByThread`), and COMPLETED is real. Both of two awaited
runs then belong to the one batch that holds the lock, which is `OneSimulator`. `ProgressInv`: what a session
skips is what is recorded, and the tests ingested but not recorded (`Interrupted`) are paid for by crashes:
`Len(ingested) + |Interrupted| <= |Ingested| + faults`. An append to the row takes the test off that set, a
crash may add it back at the price of one fault; this counting is `RowsAreWrittenOnce`. `ForeignInv` adds what
the attribution needs: a batch that is not over and is not the one of this test outlived its own
(`LateBatches`), runs of a finished batch are final (`BatchRuns`), a test has a batch only from its
approval to its row (`OwnBatch`), and the run of a row stays explained if the selection or a database since the test began
named it (`RowsExplained`, `at.seen`); of a run that only a text or an older database named nothing is claimed.

What the proofs corrected. Arms of a CASE in `PriorityFailureChecks` overlapped, so that TLC and TLA+ disagreed
about which one counts; a union was parsed with its last operand inside; `TargetLines` counted lines with a
target of 0, which the code skips (`strategy_selection.py:812-813`); a second pick of a wanted tool counted
as another one; and `WinnerComplied` and `CleanRunWins` said less than was meant for records without some
fields. The runs had found none of these because no database or context of theirs met the case. In `Intent` the
merge of values and of operations is now stated as what it computes, the last writer's value, instead of by a fold; a
number picked up near the name of a field carries its value; and `RequestedValuesReviewed` says of the
text that it says each value once (`SaidOnce`).

Only model-checked is liveness (`PointerCatchesUp`, `PolledBatchSettles`, `ThreadsEnd`, `RequestsAnswered`,
`SessionEnds`): liveness under fairness is outside of what TLAPS proves here.

## 8. Findings and observations

Two runs expect a violation, each quoting what the repository says:

1. *Lost edit* (`patch_apply.py:83`). Two patches for v1 are applied at a time (POST `/patch/apply`; approvals
   call the same function). The first makes v2. The second passed the base check before and lists the versions
   after: it makes v3 from v1, and v3 lacks the edit of v2.
2. *No change* (`supervisor.py:15`, `:129`). A released TRT that changes only the picking priority of a line
   gets the decision NO_CHANGE, of which the code says that the target TRT does not change the line.

Observations made while modelling, which no run checks as a finding.

Release gate:
* Two overlapping approvals can draw the same version number; the existence check of the second
  precedes the rename of the first, whose file is overwritten (`repository.py:79`, `:88`). Two overlapping
  decisions both find a release pending; the later record replaces the earlier (`release.py:61`): after an APPROVE
  and a REJECT the record can say REJECTED_BY_OPERATOR while the patch is in the TRT. `TurnedDownOnlyByRestart`
  is therefore stated for one handler.
* Writers that overlap on one temporary file can rename it empty or with parts of two documents
  (`repository.py:83`). If it is the pointer or a version and a restart keeps the writers from renaming again, every later read
  raises, and no endpoint repairs it, debug repair included (`PointerCatchesUp` excepts this).
* The demo reset rewrites the version file and not the pointer, and readers compare numbers only: the
  reset is not seen (`api.py:2284`).
* An approval interrupted by a restart between version and record leaves the record pending;
  approving again records FAILED_STALE_VERSION for a release that is in the TRT.

Batches, host and client:
* A poll that read RUNNING saves SYSTEM_ERROR over the result a thread saved since (`api.py:3982`). Two run
  requests that look at the registry before either registers start two threads (`api.py:3936`, `:3955`). A poll
  between the save of QUEUED and the start of the thread reports SYSTEM_ERROR for a batch about to run.
* While a batch is run again, its file may still hold an earlier selection, which can be deployed until the
  thread replaces it.
* Two refreshes of a finished run may report the lines twice (`host_isaac_runner_service.py:344`), or both
  insert the run, so that a good run gets an error of the primary key. Where `python.bat` is started
  through a shell, `terminate` ends the shell; `FinalRunEnded` speaks of the process `Popen` knows.
* POST `/simulation/run` takes no lock, and an abandoned simulator goes on beside the next candidate: the
  lock of README.md:26 does not exclude concurrent simulators (`OneSimulatorUnlessAbandoned` says when).
* A poll that times out answers FAILED and a later one RUNNING or COMPLETED. An asynchronous start that times
  out leaves an unregistered simulator running.

Ranking and evidence:
* The ranking uses the recorded throughput also where the evidence declares it unreliable
  (`strategy_selection.py:808`, `evidence_summary_builder.py:302`); a recorded policy overrides the
  ScenarioSpec's. The agreement of mode and strategy is checked on candidate lines only.
* Time zero in the tie-break counts as unknown. A line with success 0 that a non-blocking check explains only
  needs an acknowledgement. A TRT without throughput targets can never have a winner. GENERATION_FAILED from a
  contradiction of locks suggests a retry, which cannot help.
* `add_reference_number` 0 is allowed by the schema (`intent_patch.schema.json:56`) and always ends in
  DEPLOYMENT_PARTIAL_FAILURE (`simulated_deployment.py:255`). The check of scope results counts rows only.
* The evidence text can say "not recommended" while `deployment_recommended` is true
  (`evidence_summary_builder.py:1277-1280`, `:1331`).

Scenario and deployment:
* A limited scope without lines falls back to the whole TRT, disabled lines included; a dry run with
  `num_envs` may leave out the affected line (`api.py:2905-2915`).
* The `trt_version` of a deployment is not compared with the simulated one; a plan's `source_state_hash` is
  never compared; an empty list of acknowledged risks counts as all (`simulated_deployment.py:136`); deployed
  lines in ERROR become RUNNING (`:81`).
* A strategy batch takes over the deployed defaults, `num_envs` included (`strategy_selection.py:725`). Without a
  scope in the request the batch is shortened to as many lines as the last deployment had, where
  `api.py:251` speaks of the full system; with a scope of another size every candidate fails as a scenario.
* The generator always sets `chosen_intervention_mode`, so that the mode the command builder derives
  from the strategies of the lines (`isaac_command_builder.py:184-189`) never counts for a generated scenario.

Intent:
* Approvals that overlap can take back what another has just released, exclusions included, and can be written under
  one number (finding 1); `ExclusionsAccumulate` is therefore relative to the version an approval read.
* A request that names lines in its text only can change all lines for KPI updates, whose default scope is
  ALL_LINES (`intent_normalizer.py:1891`, against the message at `:1208`). Values that the relative-number patterns
  pick up are replaced (`:1838-1860`).
* `_expand_compact_candidate` drops the other fields of a candidate with `kpi_updates` (against
  `:1177-1181`). Of two exclusions of one line in a composite, the second replaces the first (`:1066`).
  `selected_tool_ids` next to `excluded_tool_ids` are overwritten (`:765-783`). Validation merges a composite with
  the whole last, the patch with the parts last (`:1070`). Simulation numbers in a text without request types
  drop a tool removal (`:1264-1272`). `required_tool_ids` may contain excluded tools.

Dialogue:
* `_normalize_text` replaces hyphens, so "production-line priority" never matches. A question about
  ALL_LINES answered for one line keeps its scope, so that `ROBOT_REQUIRED_FIRST` changes every line
  (`chat_sessions.py:224-228`; `NoInventedLines` excepts it). Two messages at a time on one session drop a turn, and
  a put or delete during a model call is undone. A dry run's POST_EVIDENCE_DECISION and a question for required
  fields only save no session.
* `post_m12_prepare_next` writes `pending_test.json` and then fails on a state `chat_sessions.py:72` refuses, so
  that the branch for the Milestone 12 states cannot be reached.

Campaign:
* The ISAAC_BUSY check sees processes, not batches, and a failed look counts as none. A timed-out test can be put
  down to the run of a leftover batch (`ForeignRunExplained` bounds this), and a row to any run that a text, a state record
  in the execution data or a database of the two seconds before the approval names
  (`m12_run_full_n8n_tests.py:841`, `:844`, `:872`). A torn line of `progress.jsonl`
  makes `--resume` fail with JSONDecodeError. The CSV of a resumed session lacks the earlier rows. Scoring
  accepts "cannot" or "missing" anywhere in a text.

## 9. What is not modelled

* Left out of modelled components: the one-off migration of the tooling policy (`api.py:2385-2405`),
  pointers of an older format without lines (`repository.py:149-152`), JSON schemas and whitelists, the
  log-tailing threads of the host runner (they change the timing fields of a run only, under the
  lock), paths in the simulator command and the local development mode, template files
  and export format of scenarios, the wording of questions, errors and explanations, the tables for
  the operator, the vocabularies and patterns of the intent normalizer and `intent_precheck` (texts are what the
  patterns find), answers to configuration questions (they change nothing), scores and tables of the
  campaign.
* Disk errors other than the missing temporary file.
* Answers of language models, n8n and the simulator are inputs; their modules say which.
* ENT demo and error classes: fixture data. Milestone 12 harness: metrics and reports computed from finished
  records, and a chat branch that cannot be reached. Report generators and benchmarks in `src/tools` and
  `src/scripts`: each reads files and writes one. n8n exports: generated; their calls are the clients of every
  module.

## 10. What is left to do

* `AtomicFile`: an atomic register refined by `_atomic_write_json` with one writer; `TRTRelease`, `Deployment` and
  `Dialogue` each have its three steps, and `NothingTorn` and `TornOnlyByRace` state what one writer keeps.
* The migration of the tooling policy as an endpoint of `TRTRelease`, since it rewrites version files.
