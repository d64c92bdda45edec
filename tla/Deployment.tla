------------------------------ MODULE Deployment ------------------------------
(***************************************************************************)
(* From a released TRT to the simulated deployment: state records, plans of *)
(* the supervisor, ScenarioSpecs, runs with their evidence, and             *)
(* simulated_deploy, which writes four files one after the other            *)
(*   state     current_state.json: the line records and a header            *)
(*   defaults  default_simulation_config.json                              *)
(*   arrival   time_arrival_model.json, replaced by its temporary file      *)
(*   audits    one file per finished deployment                            *)
(* while other requests, served by other threads, write the first and the   *)
(* third too.  The first two are written in place: a write can be read half *)
(* done, can meet another one, and can be cut off by a crash.  The third    *)
(* has one temporary file for all its writers; a handle stays on the file   *)
(* it was opened on when that is renamed.  A file nobody can parse is Torn. *)
(***************************************************************************)
EXTENDS IsaacCommand

CONSTANTS
  Torn,           \* the content of a file nobody can parse
  Threads,        \* request threads of the API
  Reports,        \* what POST /state/update may bring: sets of state records
  Given,          \* the state records POST /supervisor/reconcile may bring itself
  Requests,       \* bodies of POST /scenario/generate
  Deploys,        \* bodies of POST /deployment/simulated-deploy, run left open
  Results,        \* result databases a run can leave
  Logs,           \* the markers in the seed database and in Isaac's output
  ManualTimes,    \* values of PUT /state/time-arrival, None if they are invalid
  BuiltInTime,    \* DEFAULT_TIME_ARRIVAL
  MaxPlans, MaxSpecs, MaxRuns, MaxDeployments, MaxWrites, MaxCrashes

\* Deployments are numbered, and every request brings its own run.
ASSUME NoneAssumption == None \notin Nat /\ None \notin {"state", "defaults"}
ASSUME DeployAssumption == \A req \in Deploys : "run" \in DOMAIN req

\* A state record has all its fields, its wip_count is not negative, and a
\* report does not say what was deployed.
StateFields == {"mode", "wip", "task", "tools", "trt", "deployment"}

ASSUME ReportAssumption ==
  \A r \in Reports \cup Given : \A l \in DOMAIN r :
    DOMAIN r[l] = StateFields /\ r[l].wip \in Nat /\ r[l].deployment = None

E == INSTANCE Evidence

VARIABLES
  state,       \* [records, header] or Torn; header is a deployment or None
  defaults,    \* [deployment, count, time, mode], None or Torn
  arrival,     \* [time, version, deployment], None or Torn
  temporary,   \* its temporary file
  handle,      \* where the file a thread is writing is: "tmp", "file", "gone" or None
  audits,      \* deployments with a record
  met,         \* has another thread finished a write of the file this one writes
  plans, specs, runs,  \* sequences of what was saved
  selection,   \* the run the strategy batch has selected, or None
  offered,     \* all runs it has ever selected
  deployments, \* sequence of the requests that passed the checks
  pc, loc,     \* per thread: the next step and the local values
  solo,        \* the last request to write, if a deployment that met no other
  used         \* manual writes and crashes so far

pipeline == <<plans, specs, runs, selection, offered>>
inplace == <<state, defaults, met>>
replaced == <<arrival, temporary, handle>>
files == <<inplace, replaced, audits>>

vars == <<files, pipeline, deployments, pc, loc, solo, used>>

NoLocal == [deployment |-> None, spec |-> None, records |-> None,
            time |-> None, version |-> None]

Init ==
  /\ state \in {[records |-> r, header |-> None] : r \in Reports}
  /\ defaults = None
  /\ arrival = None /\ temporary = None
  /\ handle = [t \in Threads |-> None]
  /\ audits = {}
  /\ met = [t \in Threads |-> FALSE]
  /\ plans = <<>> /\ specs = <<>> /\ runs = <<>>
  /\ selection = None /\ offered = {}
  /\ deployments = <<>>
  /\ pc = [t \in Threads |-> "idle"]
  /\ loc = [t \in Threads |-> NoLocal]
  /\ solo = None
  /\ used = [writes |-> 0, crashes |-> 0]

Idle(t) == pc[t] = "idle"
Alone(t) == \A u \in Threads \ {t} : Idle(u)

\* The file a thread is about to write in place, in its next step.
Writing(t) ==
  CASE pc[t] \in {"save", "publish"} -> "state"
    [] pc[t] = "defaults"            -> "defaults"
    [] OTHER                         -> None

\* A reader next to a writer may find the file empty.
Seen(file, content, t) ==
  {content} \cup (IF \E u \in Threads \ {t} : Writing(u) = file THEN {Torn} ELSE {})

\* write_text empties the file and writes it in place: next to another writer,
\* or over what another wrote since it was opened, it may stay empty or mixed.
Left(file, content, t) ==
  Seen(file, content, t) \cup (IF met[t] THEN {Torn} ELSE {})

\* The write of t is over; whoever else is writing the same file has met it.
Wrote(t) ==
  met' = [u \in Threads |-> u # t /\ (met[u] \/ Writing(u) = Writing(t))]

(***************************************************************************)
(* Plans, scenarios, runs, selection: requests that read the state and add  *)
(* a file of their own.                                                    *)
(***************************************************************************)
\* The request's own records go before the stored ones.
Reconcile(t, v) ==
  /\ Idle(t) /\ Len(plans) < MaxPlans
  /\ \E records \in Given \cup {s.records : s \in Seen("state", state, t) \ {Torn}} :
       /\ CanReconcile(v, records)
       /\ plans' = Append(plans, BuildPlan(v, records))
  /\ UNCHANGED <<files, specs, runs, selection, offered, deployments, pc, loc, solo, used>>

Deployed(d) == IF d \in {None, Torn} THEN None ELSE d

GenerateScenario(t, p, v, req) ==
  /\ Idle(t) /\ Len(specs) < MaxSpecs
  /\ \E s \in Seen("state", state, t), d \in Seen("defaults", defaults, t) :
       /\ s # Torn
       /\ \E lines \in ScopeChoices(req, v) :
            /\ GenerateAnswer(plans[p], v, req, lines, s.records) = "GENERATED"
            /\ specs' = Append(specs, ScenarioSpec(plans[p], v, req, lines, Deployed(d)))
  /\ UNCHANGED <<files, plans, runs, selection, offered, deployments, pc, loc, solo, used>>

\* POST /simulation/run: a scenario whose command does not say what was asked
\* for is not run; else Isaac leaves a result database with rows for its lines.
Simulate(n, db) ==
  /\ Len(runs) < MaxRuns
  /\ Launches(specs[n])
  /\ DOMAIN db.kpis \subseteq specs[n].lines
  /\ runs' = Append(runs, [spec |-> n, db |-> db])
  /\ UNCHANGED <<files, plans, specs, selection, offered, deployments, pc, loc, solo, used>>

SpecOf(r) == specs[runs[r].spec]

\* The version is the one the request names, not the one simulated.
Evidence(r, v, log) == E!BuildEvidenceSummary(runs[r].db, SpecOf(r), Trts[v], log)

\* What the batch's file holds once a worker has ended: a run its evidence
\* allows, or none.  The batch can be run again after a restart, next to another
\* run request and over a stale copy: then a selection that could be deployed
\* meanwhile gives way to another.  In which order is for StrategyBatch to say.
SelectRun ==
  /\ selection' \in
       {None} \cup {r \in DOMAIN runs :
                     /\ SpecOf(r).batch # None
                     /\ \E log \in Logs : Evidence(r, SpecOf(r).version, log).allowed}
  /\ offered' = offered \cup ({selection'} \ {None})
  /\ UNCHANGED <<files, plans, specs, runs, deployments, pc, loc, solo, used>>

(***************************************************************************)
(* Deployment.  A request is [run, version, decision, acks, force]; acks    *)
(* that name nothing stand for all of them.                                *)
(***************************************************************************)
\* The service reads the seed database; Isaac's output is not at hand.
Shown(req, log) == Evidence(req.run, req.version, [log EXCEPT !.host = {}])

AllowedWithAck(req, log) ==
  LET evidence == Shown(req, log)
  IN /\ req.decision = "DEPLOY_WITH_ACK"
     /\ evidence.allowed /\ evidence.needsAck
     /\ req.acks = {} \/ evidence.acks \subseteq req.acks

IsSelected(r) == SpecOf(r).batch # None => selection = r

Accepts_AllowedIsEnough_Fault(req, log) ==
  /\ req.force \/ Shown(req, log).allowed
  /\ IsSelected(req.run)

Accepts(req, log) ==
  /\ req.force \/ Shown(req, log).recommended \/ AllowedWithAck(req, log)
  /\ IsSelected(req.run)

\* Simulated lines start afresh; every line gets the version of the request.
UpdateStateRecords_OnlySimulated_Fault(records, spec, d, version) ==
  [l \in DOMAIN records |->
     IF l \in spec.lines
     THEN [records[l] EXCEPT !.mode = "RUNNING", !.task = None, !.tools = {},
                             !.trt = version, !.deployment = d]
     ELSE records[l]]

UpdateStateRecords(records, spec, d, version) ==
  [l \in DOMAIN records |->
     LET kept == [records[l] EXCEPT !.trt = version, !.deployment = d]
     IN IF l \in spec.lines
        THEN [kept EXCEPT !.mode = "RUNNING", !.task = None, !.tools = {}]
        ELSE kept]

StartDeploy(t, req) ==
  /\ Idle(t) /\ Len(deployments) < MaxDeployments
  /\ \E log \in Logs : Accepts(req, log)
  /\ deployments' = Append(deployments, req)
  /\ LET d == Len(deployments) + 1
     IN /\ \E s \in Seen("state", state, t) :
             /\ s # Torn
             /\ loc' = [loc EXCEPT ![t] = [NoLocal EXCEPT
                  !.deployment = d, !.spec = SpecOf(req.run),
                  !.records = UpdateStateRecords(s.records, SpecOf(req.run), d, req.version)]]
        /\ solo' = IF Alone(t) THEN d ELSE None
  /\ pc' = [pc EXCEPT ![t] = "save"]
  /\ UNCHANGED <<files, pipeline, used>>

\* POST /state/update goes through the same save.
StartStateUpdate(t, records) ==
  /\ Idle(t) /\ used.writes < MaxWrites
  /\ used' = [used EXCEPT !.writes = @ + 1]
  /\ loc' = [loc EXCEPT ![t].records = records]
  /\ pc' = [pc EXCEPT ![t] = "save"]
  /\ solo' = None
  /\ UNCHANGED <<files, pipeline, deployments>>

Finish(t) ==
  /\ pc' = [pc EXCEPT ![t] = "idle"]
  /\ loc' = [loc EXCEPT ![t] = NoLocal]

\* The plain list of records has no header.
SaveStateRecords(t) ==
  /\ pc[t] = "save"
  /\ state' \in Left("state", [records |-> loc[t].records, header |-> None], t)
  /\ IF loc[t].deployment = None
     THEN Finish(t)
     ELSE pc' = [pc EXCEPT ![t] = "publish"] /\ UNCHANGED loc
  /\ Wrote(t)
  /\ UNCHANGED <<defaults, replaced, audits, pipeline, deployments, solo, used>>

PublishState(t) ==
  /\ pc[t] = "publish"
  /\ state' \in Left("state", [records |-> loc[t].records,
                               header |-> loc[t].deployment], t)
  /\ pc' = [pc EXCEPT ![t] = "defaults"]
  /\ Wrote(t)
  /\ UNCHANGED <<defaults, replaced, audits, pipeline, deployments, loc, solo, used>>

SaveDefaults(t) ==
  /\ pc[t] = "defaults"
  /\ defaults' \in Left("defaults", [deployment |-> loc[t].deployment,
                          count |-> loc[t].spec.count, time |-> loc[t].spec.time,
                          mode |-> loc[t].spec.mode], t)
  /\ pc' = [pc EXCEPT ![t] = "verify"]
  /\ Wrote(t)
  /\ UNCHANGED <<state, replaced, audits, pipeline, deployments, loc, solo, used>>

\* The read-back replaces the thread's own configuration by what the file has.
VerifyDefaults(t) ==
  /\ pc[t] = "verify"
  /\ \E d \in Seen("defaults", defaults, t) :
       IF d = Torn \/ d.count # loc[t].spec.count \/ loc[t].spec.count = 0
       THEN Finish(t)                       \* DEPLOYMENT_PARTIAL_FAILURE
       ELSE /\ loc' = [loc EXCEPT ![t].time = d.time]
            /\ pc' = [pc EXCEPT ![t] = "version"]
  /\ UNCHANGED <<files, pipeline, deployments, solo, used>>

\* PUT /state/time-arrival, and the GET that finds no record yet.
StartTimeArrival(t, time) ==
  /\ Idle(t) /\ used.writes < MaxWrites
  /\ used' = [used EXCEPT !.writes = @ + 1]
  /\ loc' = [loc EXCEPT ![t].time = time]
  /\ pc' = [pc EXCEPT ![t] = "version"]
  /\ solo' = None
  /\ UNCHANGED <<files, pipeline, deployments>>

LoadTimeArrival(t) ==
  /\ arrival = None
  /\ \E d \in Seen("defaults", defaults, t) :
       StartTimeArrival(t, IF Deployed(d) = None THEN BuiltInTime ELSE d.time)

\* Values that are not valid end the request; a file nobody can parse counts as
\* version 0.
ReadVersion(t) ==
  /\ pc[t] = "version"
  /\ IF loc[t].time = None
     THEN Finish(t)
     ELSE /\ loc' = [loc EXCEPT ![t].version =
                       IF arrival \in {None, Torn} THEN 1 ELSE arrival.version + 1]
          /\ pc' = [pc EXCEPT ![t] = "open"]
  /\ UNCHANGED <<files, pipeline, deployments, solo, used>>

\* open(..., "w") empties the temporary file, whoever else is writing it.
OpenTemporary(t) ==
  /\ pc[t] = "open"
  /\ temporary' = Torn
  /\ handle' = [handle EXCEPT ![t] = "tmp"]
  /\ pc' = [pc EXCEPT ![t] = "fill"]
  /\ UNCHANGED <<inplace, arrival, audits, pipeline, deployments, loc, solo, used>>

ArrivalRecord(l) == [time |-> l.time, version |-> l.version, deployment |-> l.deployment]

\* Written from the start: over a record that is there already, the longer of
\* the two leaves its tail.
FillTemporary(t) ==
  /\ pc[t] = "fill"
  /\ \E content \in {ArrivalRecord(loc[t]), Torn} :
       CASE handle[t] = "tmp"  -> /\ content = Torn => temporary # Torn
                                  /\ temporary' = content /\ UNCHANGED arrival
         [] handle[t] = "file" -> /\ content = Torn => arrival # Torn
                                  /\ arrival' = content /\ UNCHANGED temporary
         [] OTHER              -> content # Torn /\ UNCHANGED <<arrival, temporary>>
  /\ handle' = [handle EXCEPT ![t] = None]
  /\ pc' = [pc EXCEPT ![t] = "replace"]
  /\ UNCHANGED <<inplace, audits, pipeline, deployments, loc, solo, used>>

\* The handles on the file go where the file goes.
Moved(h) == CASE h = "tmp" -> "file" [] h = "file" -> "gone" [] OTHER -> h

\* When another request has moved the temporary file already, replace() fails,
\* and the request with it: a deployment then leaves no audit.
ReplaceArrival(t) ==
  /\ pc[t] = "replace"
  /\ IF temporary = None
     THEN UNCHANGED replaced
     ELSE /\ arrival' = temporary /\ temporary' = None
          /\ handle' = [u \in Threads |-> Moved(handle[u])]
  /\ IF temporary = None \/ loc[t].deployment = None
     THEN Finish(t)
     ELSE pc' = [pc EXCEPT ![t] = "audit"] /\ UNCHANGED loc
  /\ UNCHANGED <<inplace, audits, pipeline, deployments, solo, used>>

SaveAudit(t) ==
  /\ pc[t] = "audit"
  /\ audits' = audits \cup {loc[t].deployment}
  /\ Finish(t)
  /\ UNCHANGED <<inplace, replaced, pipeline, deployments, solo, used>>

\* Every thread dies; a file being written in place may stay torn, a temporary
\* file stays what it is.
Crash ==
  /\ used.crashes < MaxCrashes
  /\ \E t \in Threads : ~Idle(t)
  /\ used' = [used EXCEPT !.crashes = @ + 1]
  /\ state' \in {state} \cup (IF \E t \in Threads : Writing(t) = "state" THEN {Torn} ELSE {})
  /\ defaults' \in {defaults}
                   \cup (IF \E t \in Threads : Writing(t) = "defaults" THEN {Torn} ELSE {})
  /\ met' = [t \in Threads |-> FALSE]
  /\ handle' = [t \in Threads |-> None]
  /\ pc' = [t \in Threads |-> "idle"]
  /\ loc' = [t \in Threads |-> NoLocal]
  /\ solo' = None
  /\ UNCHANGED <<arrival, temporary, audits, pipeline, deployments>>

Next ==
  \/ \E t \in Threads :
       \/ \E v \in Versions : Reconcile(t, v)
       \/ \E p \in DOMAIN plans, v \in Versions, req \in Requests :
            GenerateScenario(t, p, v, req)
       \/ \E r \in DOMAIN runs, req \in Deploys : StartDeploy(t, [req EXCEPT !.run = r])
       \/ \E r \in Reports : StartStateUpdate(t, r)
       \/ \E time \in ManualTimes : StartTimeArrival(t, time)
       \/ LoadTimeArrival(t) \/ ReadVersion(t)
       \/ OpenTemporary(t) \/ FillTemporary(t) \/ ReplaceArrival(t)
       \/ SaveStateRecords(t) \/ PublishState(t) \/ SaveDefaults(t)
       \/ VerifyDefaults(t) \/ SaveAudit(t)
  \/ \E n \in DOMAIN specs, db \in Results : Simulate(n, db)
  \/ SelectRun
  \/ Crash

Spec == Init /\ [][Next]_vars

(***************************************************************************)
(* Properties.                                                             *)
(***************************************************************************)
PublishedIn ==
  audits
  \cup (IF state = Torn THEN {}
        ELSE {state.header} \cup {state.records[l].deployment : l \in DOMAIN state.records})
  \cup (IF Deployed(defaults) = None THEN {} ELSE {defaults.deployment})
  \cup (IF arrival \in {None, Torn} THEN {} ELSE {arrival.deployment})

\* The checks of the evidence that a run fails, for a version of the table.
Failed(r, v) == E!FailedChecks(E!ReadSimulationResults(runs[r].db), SpecOf(r), Trts[v])

Unblocked(r, v) == ~SpecOf(r).dryRun /\ \A c \in Failed(r, v) : ~E!Blocking(c.id)

\* Whatever file names a deployment, by whatever thread and before or after
\* whatever crash or rerun of the batch: a run of a batch was the batch's
\* selection, and so no check blocks it for the version it simulated, which no
\* force can make up for; and unless it was forced, no check blocks it for the
\* version deployed and every failed check was acknowledged.
PublishedWasAllowed ==
  \A d \in PublishedIn \ {None} :
    LET req == deployments[d]
    IN /\ SpecOf(req.run).batch # None =>
            req.run \in offered /\ Unblocked(req.run, SpecOf(req.run).version)
       /\ ~req.force => /\ Unblocked(req.run, req.version)
                        /\ Failed(req.run, req.version) # {} => req.decision = "DEPLOY_WITH_ACK"

\* A deployment that met no other request leaves the four files in agreement,
\* whatever torn or mixed state it started from.
SoloDeploymentAgrees ==
  solo \in audits =>
    LET spec == SpecOf(deployments[solo].run)
    IN /\ state.header = solo
       /\ \A l \in DOMAIN state.records :
            /\ state.records[l].deployment = solo
            /\ state.records[l].trt = deployments[solo].version
       /\ defaults = [deployment |-> solo, count |-> spec.count, time |-> spec.time,
                      mode |-> spec.mode]
       /\ arrival.time = spec.time /\ arrival.deployment = solo

\* The supervisor's refusal holds through plan, scope and request: an enabled
\* line that was in ERROR when its plan was made is simulated only with the
\* compared requirements it had.
ErrorLineKeepsTarget ==
  \A n \in DOMAIN specs :
    \A l \in specs[n].lines \cap Enabled \cap DOMAIN PreviousTrt(specs[n].version)
             \cap DOMAIN specs[n].plan.seen :
      specs[n].plan.seen[l].mode = "ERROR" =>
        ChangedLineFields(PreviousTrt(specs[n].version)[l], Trts[specs[n].version][l]) = {}

\* A scenario nobody asked to force through is not made while a tool the new
\* requirements exclude is being processed, but for a change of rank.
NoExcludedToolInProcess ==
  \A n \in DOMAIN specs :
    LET spec == specs[n] IN
    spec.readiness = "READY" /\ ~spec.overridden =>
      \A l \in spec.lines \cap Enabled \cap DOMAIN PreviousTrt(spec.version)
               \cap DOMAIN spec.plan.seen :
        LET old == PreviousTrt(spec.version)[l]
            new == Trts[spec.version][l]
        IN new.excluded \cap spec.plan.seen[l].tools = {} \/ spec.plan.seen[l].wip = 0
           \/ ChangedLineFields(old, new) \subseteq {"rank"}

\* What the supervisor says of a line it decided NO_CHANGE: the target TRT does
\* not change it.
NoChangeMeansSame ==
  \A p \in DOMAIN plans :
    LET v == plans[p].version IN
    \A l \in DOMAIN plans[p].decisions \cap DOMAIN PreviousTrt(v) :
      plans[p].decisions[l] = "NO_CHANGE" => PreviousTrt(v)[l] = Trts[v][l]
===============================================================================
