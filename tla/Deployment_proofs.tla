-------------------------- MODULE Deployment_proofs --------------------------
(***************************************************************************)
(* Proofs about Deployment for any table, registry, request, database and  *)
(* number of threads and crashes: what a scenario may be generated for,    *)
(* that only deployments that were allowed are named by any file, and that *)
(* a deployment that met no other leaves the files in agreement.           *)
(*   PipelineInv  plans, scenarios and runs are what the supervisor, the    *)
(*                generator and the simulator made                         *)
(*   RecordsInv   the state records any thread or file holds are complete   *)
(*   OfferedInv   no check blocks a run a batch has ever selected           *)
(*   NamesInv     every deployment named anywhere passed the checks         *)
(*   SoloInv      how far a deployment without others has come              *)
(***************************************************************************)
EXTENDS Deployment, SequenceTheorems, TLAPS

-------------------------------------------------------------------------------
(***************************************************************************)
(* Lists of files that grow by one.                                        *)
(***************************************************************************)

Elements(s) == {s[i] : i \in DOMAIN s}

Grows(old, new) == \A i \in DOMAIN old : i \in DOMAIN new /\ new[i] = old[i]

LEMMA Appended ==
  ASSUME NEW s, s \in Seq(Elements(s)), NEW e
  PROVE  /\ Append(s, e) \in Seq(Elements(Append(s, e)))
         /\ Len(s) \in Nat /\ DOMAIN s = 1 .. Len(s)
         /\ Grows(s, Append(s, e))
         /\ Len(s) + 1 \in DOMAIN Append(s, e) /\ Append(s, e)[Len(s) + 1] = e
         /\ \A i \in DOMAIN Append(s, e) : i \in DOMAIN s \/ i = Len(s) + 1
  <1> DEFINE T == Elements(s) \cup {e}
  <1>1. s \in Seq(T)
    BY SeqMonotonic
  <1>2. Len(s) \in Nat /\ DOMAIN s = 1 .. Len(s)
    BY <1>1
  <1>3. /\ Append(s, e) \in Seq(T) /\ Len(Append(s, e)) = Len(s) + 1
        /\ \A i \in 1 .. Len(s) : Append(s, e)[i] = s[i]
        /\ Append(s, e)[Len(s) + 1] = e
    BY <1>1, AppendProperties
  <1>4. DOMAIN Append(s, e) = 1 .. Len(s) + 1
    BY <1>2, <1>3
  <1>5. Elements(Append(s, e)) = T
    BY <1>2, <1>3, <1>4 DEF Elements
  <1> QED
    BY <1>2, <1>3, <1>4, <1>5 DEF Grows

LEMMA NoneYet == <<>> \in Seq(Elements(<<>>)) /\ DOMAIN <<>> = {}
BY EmptySeq

-------------------------------------------------------------------------------
(***************************************************************************)
(* State records.                                                          *)
(***************************************************************************)

Complete(records) ==
  \A l \in DOMAIN records : DOMAIN records[l] = StateFields /\ records[l].wip \in Nat

LocalFields == {"deployment", "spec", "records", "time", "version"}

ThreadsInv ==
  /\ pc \in [Threads -> {"idle", "save", "publish", "defaults", "verify", "version",
                         "open", "fill", "replace", "audit"}]
  /\ DOMAIN loc = Threads /\ \A t \in Threads : DOMAIN loc[t] = LocalFields
  /\ DOMAIN handle = Threads
  /\ DOMAIN met = Threads
  /\ \A t \in Threads : met[t] => pc[t] \in {"save", "publish", "defaults"}

LEMMA InitThreads == Init => ThreadsInv
BY DEF Init, ThreadsInv, NoLocal, LocalFields

\* Only a thread that is writing in place can have met another.
LEMMA WroteMeets ==
  ASSUME ThreadsInv, NEW t \in Threads, pc[t] \in {"save", "publish", "defaults"}, Wrote(t)
  PROVE  /\ DOMAIN met' = Threads /\ ~met'[t]
         /\ \A u \in Threads \ {t} : met'[u] => pc[u] \in {"save", "publish", "defaults"}
  <1>1. Writing(t) # None
    BY NoneAssumption DEF Writing
  <1>2. \A u \in Threads : Writing(u) = Writing(t) => pc[u] \in {"save", "publish", "defaults"}
    BY <1>1 DEF Writing
  <1> QED
    BY <1>2 DEF Wrote, ThreadsInv

LEMMA NextThreads ==
  ASSUME ThreadsInv, [Next]_vars
  PROVE  ThreadsInv'
  <1> USE DEF ThreadsInv
  <1>1. CASE UNCHANGED <<pc, loc, handle, met>>
    BY <1>1
  <1>2. ASSUME NEW t \in Threads, NEW req, StartDeploy(t, req)
        PROVE  ThreadsInv'
    BY <1>2 DEF StartDeploy, NoLocal, LocalFields, files, inplace, replaced
  <1>3. ASSUME NEW t \in Threads, NEW r, StartStateUpdate(t, r) \/ StartTimeArrival(t, r)
        PROVE  ThreadsInv'
    <2>1. CASE StartStateUpdate(t, r)
      BY <2>1 DEF StartStateUpdate, LocalFields, files, inplace, replaced
    <2>2. CASE StartTimeArrival(t, r)
      BY <2>2 DEF StartTimeArrival, Idle, LocalFields, files, inplace, replaced
    <2> QED
      BY <1>3, <2>1, <2>2
  <1>4. ASSUME NEW t \in Threads, SaveStateRecords(t) \/ PublishState(t) \/ SaveDefaults(t)
        PROVE  ThreadsInv'
    <2>1. pc[t] \in {"save", "publish", "defaults"} /\ Wrote(t) /\ handle' = handle
      BY <1>4 DEF SaveStateRecords, PublishState, SaveDefaults, replaced
    <2>2. /\ DOMAIN met' = Threads /\ ~met'[t]
          /\ \A u \in Threads \ {t} : met'[u] => pc[u] \in {"save", "publish", "defaults"}
      BY <2>1, WroteMeets
    <2>3. \A u \in Threads \ {t} : pc'[u] = pc[u]
      BY <1>4 DEF SaveStateRecords, PublishState, SaveDefaults, Finish
    <2>4. \A u \in Threads : met'[u] => pc'[u] \in {"save", "publish", "defaults"}
      BY <2>2, <2>3
    <2>5. /\ pc' \in [Threads -> {"idle", "save", "publish", "defaults", "verify", "version",
                                  "open", "fill", "replace", "audit"}]
          /\ DOMAIN loc' = Threads /\ \A u \in Threads : DOMAIN loc'[u] = LocalFields
      BY <1>4 DEF SaveStateRecords, PublishState, SaveDefaults, Finish, NoLocal, LocalFields
    <2> QED
      BY <2>1, <2>2, <2>4, <2>5
  <1>5. ASSUME NEW t \in Threads, VerifyDefaults(t) \/ ReadVersion(t)
        PROVE  ThreadsInv'
    BY <1>5 DEF VerifyDefaults, ReadVersion, Finish, NoLocal, LocalFields, files, inplace, replaced
  <1>6. ASSUME NEW t \in Threads, OpenTemporary(t) \/ FillTemporary(t)
        PROVE  ThreadsInv'
    BY <1>6 DEF OpenTemporary, FillTemporary, inplace
  <1>7. ASSUME NEW t \in Threads, ReplaceArrival(t) \/ SaveAudit(t)
        PROVE  ThreadsInv'
    BY <1>7 DEF ReplaceArrival, SaveAudit, Finish, NoLocal, LocalFields, inplace, replaced
  <1>8. CASE Crash
    BY <1>8 DEF Crash, NoLocal, LocalFields
  <1>9. ASSUME NEW t \in Threads, LoadTimeArrival(t)
        PROVE  ThreadsInv'
    BY <1>3, <1>9 DEF LoadTimeArrival
  <1> QED
    BY <1>1, <1>2, <1>3, <1>4, <1>5, <1>6, <1>7, <1>8, <1>9
       DEF Next, vars, files, inplace, replaced, Reconcile, GenerateScenario, Simulate, SelectRun

RecordsInv ==
  /\ state = Torn \/ Complete(state.records)
  /\ \A t \in Threads : pc[t] \in {"save", "publish"} => Complete(loc[t].records)

\* What a thread reads or leaves is what was written, or cannot be parsed.
LEMMA ReadsFile ==
  ASSUME NEW file, NEW content, NEW t, NEW s \in Left(file, content, t)
  PROVE  s = content \/ s = Torn
BY DEF Seen, Left

LEMMA ReadIsLeft ==
  \A file, content, t : Seen(file, content, t) \subseteq Left(file, content, t)
BY DEF Left

LEMMA UpdatedRecords ==
  ASSUME NEW records, Complete(records), NEW spec, NEW d, NEW version
  PROVE  LET new == UpdateStateRecords(records, spec, d, version)
         IN  /\ Complete(new)
             /\ DOMAIN new = DOMAIN records
             /\ \A l \in DOMAIN new : new[l].deployment = d /\ new[l].trt = version
  <1> DEFINE new == UpdateStateRecords(records, spec, d, version)
             kept(l) == [records[l] EXCEPT !.trt = version, !.deployment = d]
  <1>1. DOMAIN new = DOMAIN records
    BY DEF UpdateStateRecords
  <1>2. ASSUME NEW l \in DOMAIN records
        PROVE  /\ DOMAIN new[l] = StateFields /\ new[l].wip \in Nat
               /\ new[l].deployment = d /\ new[l].trt = version
    <2>1. new[l] = IF l \in spec.lines
                   THEN [kept(l) EXCEPT !.mode = "RUNNING", !.task = None, !.tools = {}]
                   ELSE kept(l)
      BY DEF UpdateStateRecords
    <2>2. DOMAIN records[l] = StateFields /\ records[l].wip \in Nat
      BY DEF Complete
    <2>3. /\ DOMAIN kept(l) = StateFields /\ kept(l).wip \in Nat
          /\ kept(l).deployment = d /\ kept(l).trt = version
      BY <2>2 DEF StateFields
    <2> HIDE DEF kept, new
    <2> QED
      BY <2>1, <2>3 DEF StateFields
  <1> QED
    BY <1>1, <1>2 DEF Complete

LEMMA InitRecords == Init => RecordsInv
BY ReportAssumption DEF Init, RecordsInv, Complete

LEMMA NextRecords ==
  ASSUME ThreadsInv, RecordsInv, [Next]_vars
  PROVE  RecordsInv'
  <1> USE DEF ThreadsInv, RecordsInv
  <1>1. CASE UNCHANGED <<state, pc, loc>>
    BY <1>1
  <1>2. ASSUME NEW t \in Threads, NEW r \in DOMAIN runs, NEW req \in Deploys,
               StartDeploy(t, [req EXCEPT !.run = r])
        PROVE  RecordsInv'
    <2> DEFINE body == [req EXCEPT !.run = r]
               new(s) == UpdateStateRecords(s.records, SpecOf(body.run), Len(deployments) + 1,
                                            body.version)
    <2>1. PICK s \in Seen("state", state, t) :
            /\ s # Torn
            /\ loc' = [loc EXCEPT ![t] = [NoLocal EXCEPT
                         !.deployment = Len(deployments) + 1, !.spec = SpecOf(body.run),
                         !.records = new(s)]]
            /\ pc' = [pc EXCEPT ![t] = "save"] /\ state' = state
      BY <1>2 DEF StartDeploy, files, inplace
    <2>2. Complete(s.records)
      BY <2>1, ReadsFile, ReadIsLeft
    <2>3. Complete(new(s))
      BY <2>2, UpdatedRecords
    <2> HIDE DEF new
    <2> QED
      BY <2>1, <2>3 DEF NoLocal
  <1>3. ASSUME NEW t \in Threads, NEW r \in Reports, StartStateUpdate(t, r)
        PROVE  RecordsInv'
    <2>1. Complete(r)
      BY ReportAssumption DEF Complete
    <2> QED
      BY <1>3, <2>1 DEF StartStateUpdate, files, inplace
  <1>4. ASSUME NEW t \in Threads, SaveStateRecords(t)
        PROVE  RecordsInv'
    <2>1. Complete(loc[t].records)
      BY <1>4 DEF SaveStateRecords
    <2>2. state' = Torn \/ Complete(state'.records)
      BY <1>4, <2>1, ReadsFile DEF SaveStateRecords
    <2>3. \A u \in Threads : pc'[u] \in {"save", "publish"} => Complete(loc'[u].records)
      BY <1>4, <2>1 DEF SaveStateRecords, Finish
    <2> QED
      BY <2>2, <2>3
  <1>5. ASSUME NEW t \in Threads, PublishState(t)
        PROVE  RecordsInv'
    <2>1. Complete(loc[t].records)
      BY <1>5 DEF PublishState
    <2>2. state' = Torn \/ Complete(state'.records)
      BY <1>5, <2>1, ReadsFile DEF PublishState
    <2> QED
      BY <1>5, <2>2 DEF PublishState
  <1>6. ASSUME NEW t \in Threads, NEW time, StartTimeArrival(t, time)
        PROVE  RecordsInv'
    BY <1>6 DEF StartTimeArrival, files, inplace
  <1>7. ASSUME NEW t \in Threads,
               \/ SaveDefaults(t) \/ VerifyDefaults(t) \/ ReadVersion(t) \/ OpenTemporary(t)
               \/ FillTemporary(t) \/ ReplaceArrival(t) \/ SaveAudit(t)
        PROVE  RecordsInv'
    <2>1. CASE SaveDefaults(t) \/ VerifyDefaults(t) \/ ReadVersion(t)
      BY <2>1 DEF SaveDefaults, VerifyDefaults, ReadVersion, Finish, files, inplace
    <2>2. CASE OpenTemporary(t) \/ FillTemporary(t)
      BY <2>2 DEF OpenTemporary, FillTemporary, inplace
    <2>3. CASE ReplaceArrival(t) \/ SaveAudit(t)
      BY <2>3 DEF ReplaceArrival, SaveAudit, Finish, inplace
    <2> QED
      BY <1>7, <2>1, <2>2, <2>3
  <1>8. CASE Crash
    BY <1>8 DEF Crash
  <1>9. \A t \in Threads : LoadTimeArrival(t) => \E time : StartTimeArrival(t, time)
    BY DEF LoadTimeArrival
  <1>10. ASSUME NEW t \in Threads, LoadTimeArrival(t)
         PROVE  RecordsInv'
    BY <1>6, <1>9, <1>10
  <1> QED
    BY <1>1, <1>2, <1>3, <1>4, <1>5, <1>6, <1>7, <1>8, <1>10
       DEF Next, vars, files, inplace, Reconcile, GenerateScenario, Simulate, SelectRun

-------------------------------------------------------------------------------
(***************************************************************************)
(* Plans, scenarios and runs.                                              *)
(***************************************************************************)

\* A plan is the supervisor's decision on complete state records.
Built(plan) ==
  /\ Complete(plan.seen)
  /\ plan.decisions = [l \in Reconciled(plan.version) |->
                         LineDecision(plan.version, plan.seen, l)]
  /\ plan.status = OverallStatus(plan.decisions)

\* A scenario follows a plan for its own version that was not rejected, and is
\* for lines of that version; its readiness is that of the plan unless the
\* request brought decisions of its own.
Generated(spec) ==
  /\ Built(spec.plan)
  /\ spec.version = spec.plan.version /\ spec.plan.status # "REJECTED"
  /\ spec.lines \subseteq DOMAIN Trts[spec.version]
  /\ ~spec.overridden => spec.readiness = ScenarioReadiness(spec.plan.decisions)

PipelineInv ==
  /\ plans \in Seq(Elements(plans)) /\ \A p \in DOMAIN plans : Built(plans[p])
  /\ specs \in Seq(Elements(specs)) /\ \A n \in DOMAIN specs : Generated(specs[n])
  /\ runs \in Seq(Elements(runs)) /\ \A r \in DOMAIN runs : runs[r].spec \in DOMAIN specs

LEMMA GeneratedFromPlan ==
  ASSUME NEW plan, Built(plan), NEW v, NEW req, NEW lines, NEW records, NEW deployed,
         GenerateAnswer(plan, v, req, lines, records) = "GENERATED"
  PROVE  Generated(ScenarioSpec(plan, v, req, lines, deployed))
  <1> DEFINE spec == ScenarioSpec(plan, v, req, lines, deployed)
  <1>1. /\ spec.plan = plan /\ spec.version = v /\ spec.lines = RequiredLines(lines, v)
        /\ spec.readiness = ScenarioReadiness(Decisions(plan, req))
        /\ spec.overridden = (req.decisions # <<>>)
    BY DEF ScenarioSpec
  <1> HIDE DEF spec
  <1>2. LinesResolve(lines, v, records) /\ PlanMatches(plan, v) /\ plan.status # "REJECTED"
    BY DEF GenerateAnswer
  <1>3. RequiredLines(lines, v) \subseteq DOMAIN Trts[v]
    BY <1>2 DEF RequiredLines, LinesResolve
  <1>4. req.decisions = <<>> => Decisions(plan, req) = plan.decisions
    BY DEF Decisions
  <1>5. Generated(spec)
    BY <1>1, <1>2, <1>3, <1>4 DEF Generated, PlanMatches
  <1> QED
    BY <1>5 DEF spec

LEMMA InitPipeline == Init => PipelineInv
BY NoneYet DEF Init, PipelineInv

LEMMA NextPipeline ==
  ASSUME RecordsInv, PipelineInv, [Next]_vars
  PROVE  PipelineInv' /\ Grows(specs, specs') /\ Grows(runs, runs')
  <1> USE DEF PipelineInv
  <1>1. CASE UNCHANGED <<plans, specs, runs>>
    BY <1>1 DEF Grows
  <1>2. ASSUME NEW t \in Threads, NEW v \in Versions, Reconcile(t, v)
        PROVE  PipelineInv' /\ Grows(specs, specs') /\ Grows(runs, runs')
    <2>1. PICK records \in Given \cup {s.records : s \in Seen("state", state, t) \ {Torn}} :
            /\ plans' = Append(plans, BuildPlan(v, records))
            /\ specs' = specs /\ runs' = runs
      BY <1>2 DEF Reconcile
    <2>2. Complete(records)
      <3>1. CASE records \in Given
        BY <3>1, ReportAssumption DEF Complete
      <3>2. CASE \E s \in Seen("state", state, t) \ {Torn} : records = s.records
        BY <3>2, ReadsFile, ReadIsLeft DEF RecordsInv
      <3> QED
        BY <2>1, <3>1, <3>2
    <2>3. Built(BuildPlan(v, records))
      BY <2>2 DEF Built, BuildPlan
    <2> QED
      BY <2>1, <2>3, Appended DEF Grows
  <1>3. ASSUME NEW t \in Threads, NEW p \in DOMAIN plans, NEW v \in Versions,
               NEW req \in Requests, GenerateScenario(t, p, v, req)
        PROVE  PipelineInv' /\ Grows(specs, specs') /\ Grows(runs, runs')
    <2>1. PICK s \in Seen("state", state, t), d \in Seen("defaults", defaults, t),
               lines \in ScopeChoices(req, v) :
            /\ GenerateAnswer(plans[p], v, req, lines, s.records) = "GENERATED"
            /\ specs' = Append(specs, ScenarioSpec(plans[p], v, req, lines, Deployed(d)))
      BY <1>3 DEF GenerateScenario
    <2> DEFINE spec == ScenarioSpec(plans[p], v, req, lines, Deployed(d))
    <2>2. Generated(spec)
      BY <2>1, GeneratedFromPlan
    <2> HIDE DEF spec
    <2>3. specs' = Append(specs, spec)
      BY <2>1 DEF spec
    <2>4. plans' = plans /\ runs' = runs
      BY <1>3 DEF GenerateScenario
    <2> QED
      BY <2>2, <2>3, <2>4, Appended DEF Grows
  <1>4. ASSUME NEW n \in DOMAIN specs, NEW db \in Results, Simulate(n, db)
        PROVE  PipelineInv' /\ Grows(specs, specs') /\ Grows(runs, runs')
    <2> DEFINE run == [spec |-> n, db |-> db]
    <2>1. runs' = Append(runs, run) /\ plans' = plans /\ specs' = specs
      BY <1>4 DEF Simulate
    <2>2. run.spec \in DOMAIN specs
      OBVIOUS
    <2> HIDE DEF run
    <2> QED
      BY <2>1, <2>2, Appended DEF Grows
  <1>5. CASE SelectRun
    BY <1>1, <1>5 DEF SelectRun
  <1>6. ASSUME NEW t \in Threads, NEW req, StartDeploy(t, req)
        PROVE  UNCHANGED <<plans, specs, runs>>
    BY <1>6 DEF StartDeploy, pipeline
  <1>7. ASSUME NEW t \in Threads, NEW r, StartStateUpdate(t, r) \/ StartTimeArrival(t, r)
        PROVE  UNCHANGED <<plans, specs, runs>>
    BY <1>7 DEF StartStateUpdate, StartTimeArrival, pipeline
  <1>8. ASSUME NEW t \in Threads,
               \/ LoadTimeArrival(t) \/ ReadVersion(t) \/ OpenTemporary(t) \/ FillTemporary(t)
               \/ ReplaceArrival(t)
        PROVE  UNCHANGED <<plans, specs, runs>>
    BY <1>7, <1>8
       DEF LoadTimeArrival, ReadVersion, OpenTemporary, FillTemporary, ReplaceArrival, pipeline
  <1>9. ASSUME NEW t \in Threads,
               \/ SaveStateRecords(t) \/ PublishState(t) \/ SaveDefaults(t)
               \/ VerifyDefaults(t) \/ SaveAudit(t)
        PROVE  UNCHANGED <<plans, specs, runs>>
    BY <1>9 DEF SaveStateRecords, PublishState, SaveDefaults, VerifyDefaults, SaveAudit, pipeline
  <1>10. CASE Crash
    BY <1>1, <1>10 DEF Crash, pipeline
  <1> QED
    BY <1>1, <1>2, <1>3, <1>4, <1>5, <1>6, <1>7, <1>8, <1>9, <1>10
       DEF Next, vars, pipeline

THEOREM PipelineHolds == Spec => [](ThreadsInv /\ RecordsInv /\ PipelineInv)
BY InitThreads, NextThreads, InitRecords, NextRecords, InitPipeline, NextPipeline, PTL DEF Spec

\* What the supervisor decided on a line of a scenario that follows its plan.
LEMMA DecisionOfLine ==
  ASSUME NEW spec, Generated(spec),
         NEW l \in spec.lines \cap Enabled \cap DOMAIN PreviousTrt(spec.version)
                   \cap DOMAIN spec.plan.seen
  PROVE  LET old == PreviousTrt(spec.version)[l]
             new == Trts[spec.version][l]
             decision == DecideLine(ChangedLineFields(old, new), new, spec.plan.seen[l])
         IN  /\ decision # "REJECT_INCOMPATIBLE"
             /\ spec.readiness = "READY" /\ ~spec.overridden
                  => decision \notin {"WAIT_FOR_CHECKPOINT", "DEGRADED_SWITCH"}
  <1> DEFINE decisions == spec.plan.decisions
             made == {decisions[k] : k \in DOMAIN decisions}
             decision == DecideLine(ChangedLineFields(PreviousTrt(spec.version)[l],
                                                      Trts[spec.version][l]),
                                    Trts[spec.version][l], spec.plan.seen[l])
  <1>1. l \in Reconciled(spec.version)
    BY DEF Generated, Reconciled
  <1>2. LineDecision(spec.version, spec.plan.seen, l) = decision
    BY DEF LineDecision
  <1> HIDE DEF decision
  <1>3. l \in DOMAIN decisions /\ decisions[l] = decision
    BY <1>1, <1>2 DEF Generated, Built
  <1>4. decision \in made
    BY <1>3
  <1>5. OverallStatus(decisions) # "REJECTED"
    BY DEF Generated, Built
  <1>6. "REJECT_INCOMPATIBLE" \notin made
    BY <1>5 DEF OverallStatus
  <1>7. spec.readiness = "READY" /\ ~spec.overridden
          => "WAIT_FOR_CHECKPOINT" \notin made /\ "DEGRADED_SWITCH" \notin made
    BY DEF ScenarioReadiness, Generated
  <1> QED
    BY <1>4, <1>6, <1>7 DEF decision

\* A line in ERROR is never simulated with requirements that differ from the
\* ones it had in a field the supervisor compares.
THEOREM ErrorLinesKeepTheirTarget == Spec => []ErrorLineKeepsTarget
  <1>1. PipelineInv => ErrorLineKeepsTarget
    BY DecisionOfLine DEF PipelineInv, ErrorLineKeepsTarget, DecideLine
  <1> QED
    BY <1>1, PipelineHolds, PTL

\* No scenario that is ready by the supervisor's own decisions replaces the
\* requirements of a line while an excluded tool is on it.
THEOREM ToolsInProcessAreWaitedFor == Spec => []NoExcludedToolInProcess
  <1>1. PipelineInv => NoExcludedToolInProcess
    <2> SUFFICES ASSUME PipelineInv, NEW n \in DOMAIN specs,
                        specs[n].readiness = "READY", ~specs[n].overridden,
                        NEW l \in specs[n].lines \cap Enabled
                                  \cap DOMAIN PreviousTrt(specs[n].version)
                                  \cap DOMAIN specs[n].plan.seen
                 PROVE  LET spec == specs[n]
                            old == PreviousTrt(spec.version)[l]
                            new == Trts[spec.version][l]
                        IN  \/ new.excluded \cap spec.plan.seen[l].tools = {}
                            \/ spec.plan.seen[l].wip = 0
                            \/ ChangedLineFields(old, new) \subseteq {"rank"}
      BY DEF NoExcludedToolInProcess
    <2> DEFINE spec == specs[n]
               new == Trts[spec.version][l]
               changed == ChangedLineFields(PreviousTrt(spec.version)[l], new)
    <2>1. Generated(spec)
      BY DEF PipelineInv
    <2>2. spec.plan.seen[l].wip \in Nat
      BY <2>1 DEF Generated, Built, Complete
    <2>3. DecideLine(changed, new, spec.plan.seen[l])
            \notin {"REJECT_INCOMPATIBLE", "WAIT_FOR_CHECKPOINT", "DEGRADED_SWITCH"}
      BY <2>1, DecisionOfLine
    <2> HIDE DEF spec, new, changed
    <2>4. \/ new.excluded \cap spec.plan.seen[l].tools = {} \/ spec.plan.seen[l].wip = 0
          \/ changed \subseteq {"rank"}
      BY <2>2, <2>3 DEF DecideLine
    <2> QED
      BY <2>4 DEF spec, new, changed
  <1> QED
    BY <1>1, PipelineHolds, PTL

-------------------------------------------------------------------------------
(***************************************************************************)
(* Deployments.                                                            *)
(***************************************************************************)

\* Why a deployment was let through; none of it can change afterwards.
Cleared(req) ==
  /\ req.run \in DOMAIN runs
  /\ SpecOf(req.run).batch # None => req.run \in offered
  /\ ~req.force => /\ Unblocked(req.run, req.version)
                   /\ Failed(req.run, req.version) # {} => req.decision = "DEPLOY_WITH_ACK"

Names == DOMAIN deployments \cup {None}

Named(records) == \A l \in DOMAIN records : records[l].deployment \in Names

\* A run that was ever selected is a run no check blocks.
OfferedInv ==
  /\ selection = None \/ selection \in offered
  /\ \A r \in offered : r \in DOMAIN runs /\ Unblocked(r, SpecOf(r).version)

NamesInv ==
  /\ deployments \in Seq(Elements(deployments))
  /\ \A d \in DOMAIN deployments : Cleared(deployments[d])
  /\ audits \subseteq DOMAIN deployments
  /\ state = Torn \/ (state.header \in Names /\ Named(state.records))
  /\ Deployed(defaults) = None \/ defaults.deployment \in Names
  /\ arrival \in {None, Torn} \/ arrival.deployment \in Names
  /\ temporary \in {None, Torn} \/ temporary.deployment \in Names
  /\ \A t \in Threads :
       /\ loc[t].deployment \in Names
       /\ pc[t] \in {"save", "publish"} => Named(loc[t].records)
       /\ pc[t] = "audit" => loc[t].deployment # None

\* What the evidence says of a run that is allowed, and of one it recommends.
LEMMA EvidenceAllows ==
  ASSUME NEW r, NEW v, NEW log
  PROVE  /\ Evidence(r, v, log).allowed => Unblocked(r, v)
         /\ Evidence(r, v, log).recommended => Unblocked(r, v) /\ Failed(r, v) = {}
  <1> DEFINE spec   == SpecOf(r)
             art    == E!ReadSimulationResults(runs[r].db)
             failed == E!FailedChecks(art, spec, Trts[v])
             broken == E!RunFailed(art, spec, log)
             tier   == E!RiskTier(art, failed, broken,
                         E!OverallResult(art, spec, Trts[v], failed, broken))
             ev     == Evidence(r, v, log)
  <1>1. /\ ev.allowed = (tier # "BLOCKING" /\ ~spec.dryRun)
        /\ ev.recommended = (tier \in {"INFO", "ATTENTION"} /\ ~spec.dryRun)
    BY DEF Evidence, E!BuildEvidenceSummary, E!Conclusions
  <1>2. tier # "BLOCKING" => \A c \in failed : ~E!Blocking(c.id)
    BY DEF E!RiskTier
  <1>3. tier \in {"INFO", "ATTENTION"} => failed = {} /\ tier # "BLOCKING"
    BY DEF E!RiskTier
  <1>4. Failed(r, v) = failed
    BY DEF Failed
  <1> HIDE DEF art, failed, broken, tier, ev
  <1>5. ev.allowed => Unblocked(r, v)
    BY <1>1, <1>2, <1>4 DEF Unblocked
  <1>6. ev.recommended => Unblocked(r, v) /\ Failed(r, v) = {}
    BY <1>1, <1>2, <1>3, <1>4 DEF Unblocked
  <1> QED
    BY <1>5, <1>6 DEF ev

\* What the checks of POST /deployment/simulated-deploy establish.
LEMMA AcceptedIsCleared ==
  ASSUME PipelineInv, OfferedInv, NEW req, req.run \in DOMAIN runs,
         \E log \in Logs : Accepts(req, log)
  PROVE  Cleared(req)
  <1>0. req.run # None
    BY NoneAssumption DEF PipelineInv
  <1>1. SpecOf(req.run).batch # None => req.run \in offered
    BY <1>0 DEF Accepts, IsSelected, OfferedInv
  <1>2. ~req.force => /\ Unblocked(req.run, req.version)
                      /\ Failed(req.run, req.version) # {} => req.decision = "DEPLOY_WITH_ACK"
    BY EvidenceAllows DEF Accepts, AllowedWithAck, Shown
  <1> QED
    BY <1>1, <1>2 DEF Cleared

\* What was found of a run stays so: its database and its scenario are kept.
LEMMA StaysFound ==
  ASSUME PipelineInv, NEW r \in DOMAIN runs, Grows(runs, runs'), Grows(specs, specs')
  PROVE  /\ r \in DOMAIN runs' /\ SpecOf(r)' = SpecOf(r)
         /\ \A v : Unblocked(r, v)' = Unblocked(r, v) /\ Failed(r, v)' = Failed(r, v)
  <1>1. r \in DOMAIN runs' /\ runs'[r] = runs[r]
    BY DEF Grows
  <1>2. specs'[runs'[r].spec] = specs[runs[r].spec]
    BY <1>1 DEF PipelineInv, Grows
  <1>3. SpecOf(r)' = SpecOf(r)
    BY <1>2 DEF SpecOf
  <1> QED
    BY <1>1, <1>3 DEF Unblocked, Failed

LEMMA StaysCleared ==
  ASSUME PipelineInv, NEW req, Cleared(req), Grows(runs, runs'), Grows(specs, specs'),
         offered \subseteq offered'
  PROVE  Cleared(req)'
  <1>1. /\ req.run \in DOMAIN runs' /\ SpecOf(req.run)' = SpecOf(req.run)
        /\ Unblocked(req.run, req.version)' = Unblocked(req.run, req.version)
        /\ Failed(req.run, req.version)' = Failed(req.run, req.version)
    BY StaysFound DEF Cleared
  <1> QED
    BY <1>1 DEF Cleared

\* The requests that touch none of the four files.
PipelineStep ==
  \/ \E t \in Threads :
       \/ \E v \in Versions : Reconcile(t, v)
       \/ \E p \in DOMAIN plans, v \in Versions, req \in Requests : GenerateScenario(t, p, v, req)
  \/ \E n \in DOMAIN specs, db \in Results : Simulate(n, db)
  \/ SelectRun

LEMMA PipelineFrame ==
  ASSUME PipelineStep
  PROVE  UNCHANGED <<files, deployments, pc, loc, solo>>
BY DEF PipelineStep, Reconcile, GenerateScenario, Simulate, SelectRun

\* The others add nothing to the pipeline.
LEMMA DeploymentFrame ==
  ASSUME NEW t \in Threads, NEW r,
         \/ StartDeploy(t, r) \/ StartStateUpdate(t, r) \/ StartTimeArrival(t, r)
         \/ LoadTimeArrival(t) \/ ReadVersion(t)
         \/ OpenTemporary(t) \/ FillTemporary(t) \/ ReplaceArrival(t)
         \/ SaveStateRecords(t) \/ PublishState(t) \/ SaveDefaults(t)
         \/ VerifyDefaults(t) \/ SaveAudit(t) \/ Crash
  PROVE  UNCHANGED <<runs, specs, selection, offered>>
  <1>1. StartDeploy(t, r) \/ StartStateUpdate(t, r) \/ StartTimeArrival(t, r)
          => UNCHANGED <<runs, specs, selection, offered>>
    BY DEF StartDeploy, StartStateUpdate, StartTimeArrival, pipeline
  <1>2. LoadTimeArrival(t) \/ ReadVersion(t) \/ SaveStateRecords(t)
          => UNCHANGED <<runs, specs, selection, offered>>
    BY DEF LoadTimeArrival, StartTimeArrival, ReadVersion, SaveStateRecords, pipeline
  <1>3. PublishState(t) \/ SaveDefaults(t) \/ VerifyDefaults(t) \/ SaveAudit(t) \/ Crash
          => UNCHANGED <<runs, specs, selection, offered>>
    BY DEF PublishState, SaveDefaults, VerifyDefaults, SaveAudit, Crash, pipeline
  <1>4. OpenTemporary(t) \/ FillTemporary(t) \/ ReplaceArrival(t)
          => UNCHANGED <<runs, specs, selection, offered>>
    BY DEF OpenTemporary, FillTemporary, ReplaceArrival, pipeline
  <1> QED
    BY <1>1, <1>2, <1>3, <1>4

LEMMA InitOffered == Init => OfferedInv
BY DEF Init, OfferedInv

LEMMA NextOffered ==
  ASSUME RecordsInv, PipelineInv, OfferedInv, [Next]_vars
  PROVE  OfferedInv' /\ offered \subseteq offered'
  <1>0. Grows(runs, runs') /\ Grows(specs, specs')
    BY NextPipeline
  <1>1. ASSUME UNCHANGED <<selection, offered>>
        PROVE  OfferedInv' /\ offered \subseteq offered'
    <2>1. \A r \in offered : r \in DOMAIN runs' /\ Unblocked(r, SpecOf(r).version)'
      BY <1>0, StaysFound DEF OfferedInv
    <2> QED
      BY <1>1, <2>1 DEF OfferedInv
  <1>2. CASE SelectRun
    <2>1. \A r \in offered' : r \in offered \/ (r \in DOMAIN runs /\ Unblocked(r, SpecOf(r).version))
      <3> SUFFICES ASSUME NEW r \in offered', r \notin offered
                   PROVE  r \in DOMAIN runs /\ Unblocked(r, SpecOf(r).version)
        OBVIOUS
      <3>1. r \in DOMAIN runs /\ \E log \in Logs : Evidence(r, SpecOf(r).version, log).allowed
        BY <1>2 DEF SelectRun
      <3> QED
        BY <3>1, EvidenceAllows
    <2>2. UNCHANGED <<runs, specs>>
      BY <1>2 DEF SelectRun
    <2>3. \A r, v : Unblocked(r, v)' = Unblocked(r, v) /\ SpecOf(r)' = SpecOf(r)
      BY <2>2 DEF Unblocked, Failed, SpecOf
    <2>4. offered \subseteq offered' /\ (selection' = None \/ selection' \in offered')
      BY <1>2 DEF SelectRun
    <2>5. \A r \in offered' : r \in DOMAIN runs' /\ Unblocked(r, SpecOf(r).version)'
      BY <2>1, <2>2, <2>3 DEF OfferedInv
    <2> QED
      BY <2>4, <2>5 DEF OfferedInv
  <1>3. CASE UNCHANGED vars
    BY <1>1, <1>3 DEF vars, pipeline
  <1>4. ASSUME PipelineStep, ~SelectRun
        PROVE  UNCHANGED <<selection, offered>>
    BY <1>4 DEF PipelineStep, Reconcile, GenerateScenario, Simulate
  <1>5. Next => PipelineStep \/ UNCHANGED <<selection, offered>>
    BY DeploymentFrame DEF Next, PipelineStep, Crash, pipeline
  <1> QED
    BY <1>1, <1>2, <1>3, <1>4, <1>5

LEMMA InitNames == Init => NamesInv
BY NoneYet, ReportAssumption DEF Init, NamesInv, Names, Named, NoLocal, Deployed

\* A step that starts no deployment keeps what was cleared.
LEMMA KeepsCleared ==
  ASSUME PipelineInv, NamesInv, Grows(runs, runs'), Grows(specs, specs'),
         offered \subseteq offered', deployments' = deployments
  PROVE  \A d \in DOMAIN deployments' : Cleared(deployments[d])'
BY StaysCleared DEF NamesInv

LEMMA NextNames ==
  ASSUME ThreadsInv, RecordsInv, PipelineInv, OfferedInv, NamesInv, [Next]_vars
  PROVE  NamesInv'
  <1>0. Grows(runs, runs') /\ Grows(specs, specs') /\ offered \subseteq offered'
    BY NextPipeline, NextOffered
  <1>1. ASSUME UNCHANGED <<state, defaults, arrival, temporary, audits, deployments, pc, loc>>
        PROVE  NamesInv'
    <2>1. \A d \in DOMAIN deployments : Cleared(deployments[d])'
      BY <1>0, <1>1, KeepsCleared
    <2> QED
      BY <1>1, <2>1 DEF NamesInv, Names, Named, Deployed
  <1>2. ASSUME NEW t \in Threads, NEW r \in DOMAIN runs, NEW req \in Deploys,
               StartDeploy(t, [req EXCEPT !.run = r])
        PROVE  NamesInv'
    <2> DEFINE body == [req EXCEPT !.run = r]
               d == Len(deployments) + 1
    <2>1. body.run = r
      BY DeployAssumption
    <2> HIDE DEF body
    <2>2. (\E log \in Logs : Accepts(body, log)) /\ deployments' = Append(deployments, body)
      BY <1>2 DEF StartDeploy, body
    <2>3. Cleared(body)
      BY <2>1, <2>2, AcceptedIsCleared
    <2>4. UNCHANGED <<state, defaults, arrival, temporary, audits, runs, specs, offered>>
      BY <1>2 DEF StartDeploy, files, inplace, replaced, pipeline
    <2>5. /\ deployments' \in Seq(Elements(deployments'))
          /\ Grows(deployments, deployments')
          /\ d \in DOMAIN deployments' /\ deployments'[d] = body /\ d \in Nat
          /\ \A i \in DOMAIN deployments' : i \in DOMAIN deployments \/ i = d
      BY <2>2, Appended DEF NamesInv
    <2>6. \A i \in DOMAIN deployments' : Cleared(deployments[i])'
      <3>1. \A q : Cleared(q) => Cleared(q)'
        BY <2>4 DEF Cleared, SpecOf, Unblocked, Failed
      <3>2. \A i \in DOMAIN deployments' : Cleared(deployments'[i])
        BY <2>3, <2>5 DEF NamesInv, Grows
      <3> QED
        BY <3>1, <3>2
    <2>7. Names \subseteq Names' /\ d \in Names'
      BY <2>5 DEF Names, Grows
    <2>8. PICK s \in Seen("state", state, t) :
            /\ s # Torn
            /\ loc' = [loc EXCEPT ![t] = [NoLocal EXCEPT
                         !.deployment = d, !.spec = SpecOf(body.run),
                         !.records = UpdateStateRecords(s.records, SpecOf(body.run), d,
                                                        body.version)]]
            /\ pc' = [pc EXCEPT ![t] = "save"]
      BY <1>2 DEF StartDeploy, body
    <2>9. Complete(s.records)
      BY <2>8, ReadsFile, ReadIsLeft DEF RecordsInv
    <2> DEFINE new == UpdateStateRecords(s.records, SpecOf(body.run), d, body.version)
    <2>10. \A l \in DOMAIN new : new[l].deployment = d
      BY <2>9, UpdatedRecords
    <2> HIDE DEF new, d
    <2>11. loc'[t].deployment = d /\ loc'[t].records = new /\ pc'[t] = "save"
      BY <2>8 DEF ThreadsInv, NoLocal, new
    <2>12. \A u \in Threads \ {t} : loc'[u] = loc[u] /\ pc'[u] = pc[u]
      BY <2>8 DEF ThreadsInv
    <2>13. \A u \in Threads :
             /\ loc'[u].deployment \in Names'
             /\ pc'[u] \in {"save", "publish"} => Named(loc[u].records)'
             /\ pc'[u] = "audit" => loc'[u].deployment # None
      BY <2>7, <2>10, <2>11, <2>12 DEF NamesInv, Named
    <2> QED
      BY <2>4, <2>5, <2>6, <2>7, <2>13 DEF NamesInv, Named, Deployed, Grows
  <1>3. ASSUME NEW t \in Threads, NEW r \in Reports, StartStateUpdate(t, r)
        PROVE  NamesInv'
    <2>1. UNCHANGED <<state, defaults, arrival, temporary, audits, deployments>>
      BY <1>3 DEF StartStateUpdate, files, inplace, replaced
    <2>2. \A d \in DOMAIN deployments' : Cleared(deployments[d])'
      BY <1>0, <2>1, KeepsCleared
    <2>3. Named(r)
      BY ReportAssumption DEF Named, Names
    <2>4. \A u \in Threads : /\ loc'[u].deployment = loc[u].deployment
                             /\ pc'[u] \in {"save", "publish"} => Named(loc'[u].records)
                             /\ pc'[u] = "audit" => pc[u] = "audit"
      BY <1>3, <2>3 DEF StartStateUpdate, ThreadsInv, LocalFields, NamesInv
    <2> QED
      BY <2>1, <2>2, <2>4 DEF NamesInv, Names, Named, Deployed
  <1>4. ASSUME NEW t \in Threads, NEW time, StartTimeArrival(t, time)
        PROVE  NamesInv'
    <2>1. UNCHANGED <<state, defaults, arrival, temporary, audits, deployments>>
      BY <1>4 DEF StartTimeArrival, files, inplace, replaced
    <2>2. \A d \in DOMAIN deployments' : Cleared(deployments[d])'
      BY <1>0, <2>1, KeepsCleared
    <2>3. \A u \in Threads : /\ loc'[u].deployment = loc[u].deployment
                             /\ pc'[u] \in {"save", "publish"} => Named(loc'[u].records)
                             /\ pc'[u] = "audit" => pc[u] = "audit"
      BY <1>4 DEF StartTimeArrival, ThreadsInv, LocalFields, NamesInv
    <2> QED
      BY <2>1, <2>2, <2>3 DEF NamesInv, Names, Named, Deployed
  <1>5. ASSUME NEW t \in Threads,
               \/ ReadVersion(t) \/ SaveStateRecords(t) \/ PublishState(t)
               \/ SaveDefaults(t) \/ VerifyDefaults(t)
        PROVE  NamesInv'
    <2>1. UNCHANGED <<arrival, temporary, audits, deployments>>
      BY <1>5 DEF ReadVersion, SaveStateRecords, PublishState, SaveDefaults, VerifyDefaults,
                  files, replaced
    <2>2. \A d \in DOMAIN deployments' : Cleared(deployments[d])'
      BY <1>0, <2>1, KeepsCleared
    <2>3. /\ loc[t].deployment \in Names
          /\ pc[t] \in {"save", "publish"} => Named(loc[t].records)
      BY DEF NamesInv
    <2>4. state' = Torn \/ (state'.header \in Names /\ Named(state'.records))
      <3>1. CASE state' = state
        BY <3>1 DEF NamesInv
      <3>2. CASE SaveStateRecords(t)
        BY <2>3, <3>2, ReadsFile DEF SaveStateRecords, Names
      <3>3. CASE PublishState(t)
        BY <2>3, <3>3, ReadsFile DEF PublishState
      <3> QED
        BY <1>5, <3>1, <3>2, <3>3
           DEF ReadVersion, SaveDefaults, VerifyDefaults, files, inplace
    <2>5. Deployed(defaults') = None \/ defaults'.deployment \in Names
      <3>1. CASE defaults' = defaults
        BY <3>1 DEF NamesInv
      <3>2. CASE SaveDefaults(t)
        BY <2>3, <3>2, ReadsFile DEF SaveDefaults, Deployed
      <3> QED
        BY <1>5, <3>1, <3>2
           DEF ReadVersion, SaveStateRecords, PublishState, VerifyDefaults, files, inplace
    <2>6. \A u \in Threads : /\ loc'[u].deployment \in Names
                             /\ pc'[u] \in {"save", "publish"} => Named(loc'[u].records)
                             /\ pc'[u] = "audit" => loc'[u].deployment # None
      <3>1. CASE ReadVersion(t) \/ VerifyDefaults(t)
        BY <3>1 DEF ReadVersion, VerifyDefaults, Finish, NoLocal, ThreadsInv, LocalFields,
                    NamesInv, Names
      <3>2. CASE SaveStateRecords(t)
        BY <3>2 DEF SaveStateRecords, Finish, NoLocal, ThreadsInv, NamesInv, Names
      <3>3. CASE PublishState(t) \/ SaveDefaults(t)
        BY <3>3 DEF PublishState, SaveDefaults, ThreadsInv, NamesInv, Names
      <3> QED
        BY <1>5, <3>1, <3>2, <3>3
    <2> QED
      BY <2>1, <2>2, <2>4, <2>5, <2>6 DEF NamesInv, Names, Named, Deployed
  <1>6. ASSUME NEW t \in Threads, OpenTemporary(t) \/ FillTemporary(t) \/ ReplaceArrival(t)
        PROVE  NamesInv'
    <2>1. UNCHANGED <<state, defaults, audits, deployments>>
      BY <1>6 DEF OpenTemporary, FillTemporary, ReplaceArrival, inplace
    <2>2. \A d \in DOMAIN deployments' : Cleared(deployments[d])'
      BY <1>0, <2>1, KeepsCleared
    <2>3. ArrivalRecord(loc[t]).deployment \in Names
      BY DEF ArrivalRecord, NamesInv
    <2>4. /\ arrival' \in {arrival, temporary, ArrivalRecord(loc[t]), Torn}
          /\ temporary' \in {temporary, ArrivalRecord(loc[t]), None, Torn}
      <3>1. CASE OpenTemporary(t)
        BY <3>1 DEF OpenTemporary
      <3>2. CASE FillTemporary(t)
        <4> DEFINE record == ArrivalRecord(loc[t])
        <4>1. PICK content \in {record, Torn} :
                \/ temporary' = content /\ UNCHANGED arrival
                \/ arrival' = content /\ UNCHANGED temporary
                \/ UNCHANGED <<arrival, temporary>>
          BY <3>2 DEF FillTemporary
        <4> QED
          BY <4>1
      <3>3. CASE ReplaceArrival(t)
        BY <3>3 DEF ReplaceArrival, replaced
      <3> QED
        BY <1>6, <3>1, <3>2, <3>3
    <2>5. /\ arrival' \in {None, Torn} \/ arrival'.deployment \in Names
          /\ temporary' \in {None, Torn} \/ temporary'.deployment \in Names
      BY <2>3, <2>4 DEF NamesInv
    <2>6. \A u \in Threads : /\ loc'[u].deployment \in Names
                             /\ pc'[u] \in {"save", "publish"} => Named(loc'[u].records)
                             /\ pc'[u] = "audit" => loc'[u].deployment # None
      <3>1. CASE OpenTemporary(t) \/ FillTemporary(t)
        BY <3>1 DEF OpenTemporary, FillTemporary, ThreadsInv, NamesInv
      <3>2. CASE ReplaceArrival(t)
        BY <3>2 DEF ReplaceArrival, Finish, NoLocal, ThreadsInv, NamesInv, Names
      <3> QED
        BY <1>6, <3>1, <3>2
    <2> QED
      BY <2>1, <2>2, <2>5, <2>6 DEF NamesInv, Names, Named, Deployed
  <1>7. ASSUME NEW t \in Threads, SaveAudit(t)
        PROVE  NamesInv'
    <2>1. UNCHANGED <<state, defaults, arrival, temporary, deployments>>
      BY <1>7 DEF SaveAudit, inplace, replaced
    <2>2. \A d \in DOMAIN deployments' : Cleared(deployments[d])'
      BY <1>0, <2>1, KeepsCleared
    <2>3. audits' \subseteq DOMAIN deployments
      BY <1>7 DEF SaveAudit, NamesInv, Names
    <2>4. \A u \in Threads : /\ loc'[u].deployment \in Names
                             /\ pc'[u] \in {"save", "publish"} => Named(loc'[u].records)
                             /\ pc'[u] = "audit" => loc'[u].deployment # None
      BY <1>7 DEF SaveAudit, Finish, NoLocal, ThreadsInv, NamesInv, Names
    <2> QED
      BY <2>1, <2>2, <2>3, <2>4 DEF NamesInv, Names, Named, Deployed
  <1>8. CASE Crash
    <2>1. UNCHANGED <<arrival, temporary, audits, deployments>>
      BY <1>8 DEF Crash
    <2>2. \A d \in DOMAIN deployments' : Cleared(deployments[d])'
      BY <1>0, <2>1, KeepsCleared
    <2>3. state' \in {state, Torn} /\ defaults' \in {defaults, Torn}
      BY <1>8 DEF Crash
    <2>4. \A u \in Threads : loc'[u].deployment = None /\ pc'[u] = "idle"
      BY <1>8 DEF Crash, NoLocal
    <2> QED
      BY <2>1, <2>2, <2>3, <2>4 DEF NamesInv, Names, Named, Deployed
  <1>9. ASSUME NEW t \in Threads, LoadTimeArrival(t)
        PROVE  NamesInv'
    BY <1>4, <1>9 DEF LoadTimeArrival
  <1>10. CASE PipelineStep
    BY <1>1, <1>10, PipelineFrame DEF files, inplace, replaced
  <1>11. CASE UNCHANGED vars
    BY <1>1, <1>11 DEF vars, files, inplace, replaced
  <1> QED
    BY <1>2, <1>3, <1>4, <1>5, <1>6, <1>7, <1>8, <1>9, <1>10, <1>11 DEF Next, PipelineStep

\* Whatever thread wrote a file last, and whatever crash or rerun of a batch
\* came between, the deployment it names ran a run its batch had selected, which
\* no check blocks, and passed every check, was acknowledged, or was forced.
THEOREM PublishedDeploymentsWereAllowed == Spec => []PublishedWasAllowed
  <1>1. OfferedInv /\ NamesInv => PublishedWasAllowed
    <2> SUFFICES ASSUME OfferedInv, NamesInv, NEW d \in PublishedIn \ {None}
                 PROVE  LET req == deployments[d]
                        IN /\ SpecOf(req.run).batch # None =>
                                /\ req.run \in offered
                                /\ Unblocked(req.run, SpecOf(req.run).version)
                           /\ ~req.force => /\ Unblocked(req.run, req.version)
                                            /\ Failed(req.run, req.version) # {} =>
                                                 req.decision = "DEPLOY_WITH_ACK"
      BY DEF PublishedWasAllowed
    <2>1. d \in DOMAIN deployments
      BY DEF PublishedIn, NamesInv, Named, Names
    <2> QED
      BY <2>1 DEF NamesInv, Cleared, OfferedInv
  <1> QED
    BY <1>1, InitThreads, NextThreads, InitRecords, NextRecords, InitPipeline, NextPipeline,
       InitOffered, NextOffered, InitNames, NextNames, PTL DEF Spec

-------------------------------------------------------------------------------
(***************************************************************************)
(* A deployment that meets no other.                                       *)
(***************************************************************************)

SoloRequest == deployments[solo]
SoloSpec == SpecOf(SoloRequest.run)

OfSolo(records) ==
  \A l \in DOMAIN records :
    records[l].deployment = solo /\ records[l].trt = SoloRequest.version

StateAgrees == state.header = solo /\ OfSolo(state.records)

DefaultsAgree ==
  defaults = [deployment |-> solo, count |-> SoloSpec.count, time |-> SoloSpec.time,
              mode |-> SoloSpec.mode]

ArrivalAgrees == arrival.time = SoloSpec.time /\ arrival.deployment = solo

\* Thread t is at work on it, the others are idle, and the files t has written
\* agree.
SoloAtWork(t) ==
  /\ Alone(t)
  /\ pc[t] # "idle" /\ solo \notin audits
  /\ loc[t].deployment = solo /\ loc[t].spec = SoloSpec
  /\ pc[t] \in {"save", "publish"} => OfSolo(loc[t].records)
  /\ pc[t] \notin {"save", "publish"} => StateAgrees
  /\ pc[t] \notin {"save", "publish", "defaults"} => DefaultsAgree
  /\ pc[t] \notin {"save", "publish", "defaults", "verify"} => loc[t].time = SoloSpec.time
  /\ ~met[t]
  /\ pc[t] = "fill" => handle[t] = "tmp" /\ temporary = Torn
  /\ pc[t] = "replace" => temporary = ArrivalRecord(loc[t])
  /\ pc[t] = "audit" => ArrivalAgrees

\* It is over: recorded, or given up when the read-back differed.
SoloOver ==
  /\ \A t \in Threads : Idle(t)
  /\ solo \in audits => StateAgrees /\ DefaultsAgree /\ ArrivalAgrees

SoloInv ==
  solo # None => /\ solo \in DOMAIN deployments
                 /\ SoloOver \/ \E t \in Threads : SoloAtWork(t)

LEMMA InitSolo == Init => SoloInv
BY DEF Init, SoloInv

\* Nobody else writes: a file read is the file, a file written is what was written.
LEMMA AloneReads ==
  ASSUME ThreadsInv, NEW t \in Threads, Alone(t), ~met[t], NEW file \in {"state", "defaults"}, NEW content
  PROVE  Seen(file, content, t) = {content} /\ Left(file, content, t) = {content}
  <1>1. \A u \in Threads \ {t} : Writing(u) = None
    BY DEF Alone, Idle, Writing
  <1>2. \A u \in Threads \ {t} : Writing(u) # file
    BY <1>1, NoneAssumption
  <1> QED
    BY <1>2 DEF Seen, Left

\* What the request of the deployment says does not change.
LEMMA SoloFrame ==
  ASSUME PipelineInv, NamesInv, Grows(runs, runs'), Grows(specs, specs'),
         solo \in DOMAIN deployments, solo' = solo, deployments' = deployments
  PROVE  SoloRequest' = SoloRequest /\ SoloSpec' = SoloSpec
  <1>1. deployments[solo].run \in DOMAIN runs
    BY DEF NamesInv, Cleared
  <1> QED
    BY <1>1, StaysFound DEF SoloRequest, SoloSpec

\* While it is the last to write, whoever is not idle is at work on it.
LEMMA AtWork ==
  ASSUME SoloInv, solo # None, NEW t \in Threads, pc[t] # "idle"
  PROVE  SoloAtWork(t)
BY DEF SoloInv, SoloOver, SoloAtWork, Alone, Idle

LEMMA NextSolo ==
  ASSUME ThreadsInv, RecordsInv, PipelineInv, NamesInv, SoloInv, [Next]_vars
  PROVE  SoloInv'
  <1> SUFFICES ASSUME solo' # None
               PROVE  /\ solo' \in DOMAIN deployments'
                      /\ SoloOver' \/ \E t \in Threads : SoloAtWork(t)'
    BY DEF SoloInv
  <1>0. Grows(runs, runs') /\ Grows(specs, specs')
    BY NextPipeline
  <1>1. ASSUME NEW t \in Threads, NEW r \in DOMAIN runs, NEW req \in Deploys,
               StartDeploy(t, [req EXCEPT !.run = r])
        PROVE  solo' \in DOMAIN deployments' /\ SoloAtWork(t)'
    <2> DEFINE body == [req EXCEPT !.run = r]
               d == Len(deployments) + 1
    <2>1. /\ deployments' = Append(deployments, body)
          /\ solo' = IF Alone(t) THEN d ELSE None
          /\ UNCHANGED <<audits, runs, specs, met>> /\ pc[t] = "idle"
      BY <1>1 DEF StartDeploy, files, inplace, pipeline, Idle
    <2>2. PICK s \in Seen("state", state, t) :
            /\ s # Torn
            /\ loc' = [loc EXCEPT ![t] = [NoLocal EXCEPT
                         !.deployment = d, !.spec = SpecOf(body.run),
                         !.records = UpdateStateRecords(s.records, SpecOf(body.run), d,
                                                        body.version)]]
            /\ pc' = [pc EXCEPT ![t] = "save"]
      BY <1>1 DEF StartDeploy
    <2>3. Complete(s.records)
      BY <2>2, ReadsFile, ReadIsLeft DEF RecordsInv
    <2> DEFINE new == UpdateStateRecords(s.records, SpecOf(body.run), d, body.version)
    <2>4. \A l \in DOMAIN new : new[l].deployment = d /\ new[l].trt = body.version
      BY <2>3, UpdatedRecords
    <2> HIDE DEF body
    <2>5. /\ d \in DOMAIN deployments' /\ deployments'[d] = body
          /\ d \notin DOMAIN deployments
      BY <2>1, Appended DEF NamesInv
    <2> HIDE DEF d, new
    <2>6. solo' = d /\ Alone(t) /\ d \notin audits'
      BY <2>1, <2>5 DEF NamesInv
    <2>7. /\ loc'[t].deployment = d /\ loc'[t].spec = SpecOf(body.run)
          /\ loc'[t].records = new /\ pc'[t] = "save"
      BY <2>2 DEF ThreadsInv, NoLocal, new
    <2>8. SoloRequest' = body /\ SoloSpec' = SpecOf(body.run)
      BY <2>1, <2>5, <2>6 DEF SoloRequest, SoloSpec, SpecOf
    <2>9. Alone(t)'
      BY <2>2, <2>6 DEF Alone, Idle, ThreadsInv
    <2>10. \A l \in DOMAIN new : new[l].deployment = solo' /\ new[l].trt = SoloRequest'.version
      BY <2>4, <2>6, <2>8
    <2>11. OfSolo(loc[t].records)'
      BY <2>7, <2>10 DEF OfSolo
    <2>12. ~met'[t]
      BY <2>1 DEF ThreadsInv
    <2> QED
      BY <2>5, <2>6, <2>7, <2>8, <2>9, <2>11, <2>12 DEF SoloAtWork
  <1>2. ASSUME solo' = solo, deployments' = deployments
        PROVE  /\ solo \in DOMAIN deployments
               /\ SoloRequest' = SoloRequest /\ SoloSpec' = SoloSpec
    BY <1>0, <1>2, SoloFrame DEF SoloInv
  <1>3. ASSUME UNCHANGED <<files, deployments, pc, loc, solo>>
        PROVE  /\ solo' \in DOMAIN deployments'
               /\ SoloOver' \/ \E t \in Threads : SoloAtWork(t)'
    <2>1. /\ solo \in DOMAIN deployments
          /\ SoloRequest' = SoloRequest /\ SoloSpec' = SoloSpec
      BY <1>2, <1>3
    <2>2. /\ StateAgrees' <=> StateAgrees
          /\ DefaultsAgree' <=> DefaultsAgree
          /\ ArrivalAgrees' <=> ArrivalAgrees
      BY <1>3, <2>1 DEF StateAgrees, DefaultsAgree, ArrivalAgrees, OfSolo, files, inplace, replaced
    <2>3. SoloOver => SoloOver'
      BY <1>3, <2>2 DEF SoloOver, Idle, files
    <2>4. \A t \in Threads : SoloAtWork(t) => SoloAtWork(t)'
      BY <1>3, <2>1, <2>2 DEF SoloAtWork, OfSolo, Alone, Idle, files, inplace, replaced
    <2> QED
      BY <1>3, <2>1, <2>3, <2>4 DEF SoloInv
  <1>4. ASSUME NEW t \in Threads, SaveStateRecords(t)
        PROVE  SoloAtWork(t)' /\ solo' \in DOMAIN deployments'
    <2>1. /\ pc[t] = "save" /\ UNCHANGED <<solo, deployments, audits>>
          /\ state' \in Left("state", [records |-> loc[t].records, header |-> None], t)
      BY <1>4 DEF SaveStateRecords
    <2>2. SoloAtWork(t) /\ SoloSpec' = SoloSpec /\ SoloRequest' = SoloRequest
      BY <1>2, <2>1, AtWork
    <2>3. pc' = [pc EXCEPT ![t] = "publish"] /\ UNCHANGED loc
      BY <1>4, <2>1, <2>2, <1>2 DEF SaveStateRecords, SoloAtWork, SoloInv
    <2>4. ~met'[t]
      BY <1>4, <2>1, WroteMeets DEF SaveStateRecords
    <2> QED
      BY <1>2, <2>1, <2>2, <2>3, <2>4 DEF SoloAtWork, OfSolo, Alone, Idle, ThreadsInv
  <1>5. ASSUME NEW t \in Threads, PublishState(t)
        PROVE  SoloAtWork(t)' /\ solo' \in DOMAIN deployments'
    <2>1. /\ pc[t] = "publish" /\ UNCHANGED <<solo, deployments, audits, loc>>
          /\ state' \in Left("state", [records |-> loc[t].records,
                                       header |-> loc[t].deployment], t)
          /\ pc' = [pc EXCEPT ![t] = "defaults"] /\ ~met'[t]
      BY <1>5, WroteMeets DEF PublishState
    <2>2. SoloAtWork(t) /\ SoloSpec' = SoloSpec /\ SoloRequest' = SoloRequest
      BY <1>2, <2>1, AtWork
    <2>3. state' = [records |-> loc[t].records, header |-> loc[t].deployment]
      BY <2>1, <2>2, AloneReads DEF SoloAtWork
    <2>4. StateAgrees'
      BY <2>1, <2>2, <2>3 DEF SoloAtWork, StateAgrees, OfSolo
    <2> QED
      BY <1>2, <2>1, <2>2, <2>4 DEF SoloAtWork, Alone, Idle, ThreadsInv
  <1>6. ASSUME NEW t \in Threads, SaveDefaults(t)
        PROVE  SoloAtWork(t)' /\ solo' \in DOMAIN deployments'
    <2>1. /\ pc[t] = "defaults" /\ UNCHANGED <<solo, deployments, audits, loc, state>>
          /\ defaults' \in Left("defaults", [deployment |-> loc[t].deployment,
                                count |-> loc[t].spec.count, time |-> loc[t].spec.time,
                                mode |-> loc[t].spec.mode], t)
          /\ pc' = [pc EXCEPT ![t] = "verify"] /\ ~met'[t]
      BY <1>6, WroteMeets DEF SaveDefaults
    <2>2. SoloAtWork(t) /\ SoloSpec' = SoloSpec /\ SoloRequest' = SoloRequest
      BY <1>2, <2>1, AtWork
    <2>3. defaults' = [deployment |-> loc[t].deployment, count |-> loc[t].spec.count,
                       time |-> loc[t].spec.time, mode |-> loc[t].spec.mode]
      BY <2>1, <2>2, AloneReads DEF SoloAtWork
    <2>4. DefaultsAgree' /\ StateAgrees'
      BY <2>1, <2>2, <2>3 DEF SoloAtWork, StateAgrees, DefaultsAgree, OfSolo
    <2> QED
      BY <1>2, <2>1, <2>2, <2>4 DEF SoloAtWork, Alone, Idle, ThreadsInv
  <1>7. ASSUME NEW t \in Threads, VerifyDefaults(t)
        PROVE  (SoloAtWork(t)' \/ SoloOver') /\ solo' \in DOMAIN deployments'
    <2>1. pc[t] = "verify" /\ UNCHANGED <<solo, deployments, audits, state, defaults, met>>
      BY <1>7 DEF VerifyDefaults, files, inplace
    <2>2. SoloAtWork(t) /\ SoloSpec' = SoloSpec /\ SoloRequest' = SoloRequest
      BY <1>2, <2>1, AtWork
    <2>3. \/ Finish(t)
          \/ /\ loc' = [loc EXCEPT ![t].time = defaults.time]
             /\ pc' = [pc EXCEPT ![t] = "version"]
      BY <1>7, <2>2, AloneReads DEF VerifyDefaults, SoloAtWork
    <2>4. DefaultsAgree' /\ StateAgrees' /\ defaults.time = SoloSpec.time
      BY <2>1, <2>2 DEF SoloAtWork, StateAgrees, DefaultsAgree, OfSolo
    <2>5. CASE Finish(t)
      BY <1>2, <2>1, <2>2, <2>5 DEF Finish, SoloOver, SoloAtWork, Alone, Idle, ThreadsInv
    <2>6. CASE /\ loc' = [loc EXCEPT ![t].time = defaults.time]
               /\ pc' = [pc EXCEPT ![t] = "version"]
      <3>1. /\ loc'[t].deployment = loc[t].deployment /\ loc'[t].spec = loc[t].spec
            /\ loc'[t].time = SoloSpec.time
        BY <2>4, <2>6 DEF ThreadsInv, LocalFields
      <3>2. Alone(t)' /\ pc'[t] = "version"
        BY <2>2, <2>6 DEF SoloAtWork, Alone, Idle, ThreadsInv
      <3> QED
        BY <1>2, <2>1, <2>2, <2>4, <3>1, <3>2 DEF SoloAtWork
    <2> QED
      BY <2>3, <2>5, <2>6
  <1>8. ASSUME NEW t \in Threads, ReadVersion(t)
        PROVE  (SoloAtWork(t)' \/ SoloOver') /\ solo' \in DOMAIN deployments'
    <2>1. pc[t] = "version" /\ UNCHANGED <<solo, deployments, audits, state, defaults, met>>
      BY <1>8 DEF ReadVersion, files, inplace
    <2>2. SoloAtWork(t) /\ SoloSpec' = SoloSpec /\ SoloRequest' = SoloRequest
      BY <1>2, <2>1, AtWork
    <2>3. DefaultsAgree' /\ StateAgrees'
      BY <2>1, <2>2 DEF SoloAtWork, StateAgrees, DefaultsAgree, OfSolo
    <2>4. CASE Finish(t)
      BY <1>2, <2>1, <2>2, <2>4 DEF Finish, SoloOver, SoloAtWork, Alone, Idle, ThreadsInv
    <2>5. ASSUME NEW number, loc' = [loc EXCEPT ![t].version = number],
                 pc' = [pc EXCEPT ![t] = "open"]
          PROVE  SoloAtWork(t)'
      <3>1. /\ loc'[t].deployment = loc[t].deployment /\ loc'[t].spec = loc[t].spec
            /\ loc'[t].time = loc[t].time
        BY <2>5 DEF ThreadsInv, LocalFields
      <3>2. Alone(t)' /\ pc'[t] = "open"
        BY <2>2, <2>5 DEF SoloAtWork, Alone, Idle, ThreadsInv
      <3> QED
        BY <2>1, <2>2, <2>3, <3>1, <3>2 DEF SoloAtWork
    <2>6. \/ Finish(t)
          \/ \E number : /\ loc' = [loc EXCEPT ![t].version = number]
                         /\ pc' = [pc EXCEPT ![t] = "open"]
      BY <1>8 DEF ReadVersion
    <2> QED
      BY <1>2, <2>1, <2>4, <2>5, <2>6
  <1>9. ASSUME NEW t \in Threads, OpenTemporary(t) \/ FillTemporary(t)
        PROVE  SoloAtWork(t)' /\ solo' \in DOMAIN deployments'
    <2>1. /\ pc[t] # "idle"
          /\ UNCHANGED <<solo, deployments, audits, state, defaults, met, loc>>
      BY <1>9 DEF OpenTemporary, FillTemporary, inplace
    <2>2. SoloAtWork(t) /\ SoloSpec' = SoloSpec /\ SoloRequest' = SoloRequest
      BY <1>2, <2>1, AtWork
    <2>3. pc[t] \notin {"save", "publish", "defaults", "verify"}
      BY <1>9 DEF OpenTemporary, FillTemporary
    <2>4. DefaultsAgree' /\ StateAgrees'
      BY <2>1, <2>2, <2>3 DEF SoloAtWork, StateAgrees, DefaultsAgree, OfSolo
    <2>5. /\ pc'[t] \in {"fill", "replace"}
          /\ pc'[t] = "fill" => handle'[t] = "tmp" /\ temporary' = Torn
          /\ pc'[t] = "replace" => temporary' = ArrivalRecord(loc[t])
      <3>1. CASE OpenTemporary(t)
        BY <3>1 DEF OpenTemporary, ThreadsInv
      <3>2. CASE FillTemporary(t)
        <4>1. handle[t] = "tmp" /\ temporary = Torn
          BY <2>2, <3>2 DEF SoloAtWork, FillTemporary
        <4>2. temporary' = ArrivalRecord(loc[t])
          BY <3>2, <4>1 DEF FillTemporary
        <4> QED
          BY <3>2, <4>2 DEF FillTemporary, ThreadsInv
      <3> QED
        BY <1>9, <3>1, <3>2
    <2>6. Alone(t)'
      BY <1>9, <2>2 DEF SoloAtWork, Alone, Idle, ThreadsInv, OpenTemporary, FillTemporary
    <2>7. ArrivalRecord(loc[t])' = ArrivalRecord(loc[t])
      BY <2>1 DEF ArrivalRecord
    <2> QED
      BY <1>2, <2>1, <2>2, <2>3, <2>4, <2>5, <2>6, <2>7 DEF SoloAtWork
  <1>10. ASSUME NEW t \in Threads, ReplaceArrival(t)
         PROVE  (SoloAtWork(t)' \/ SoloOver') /\ solo' \in DOMAIN deployments'
    <2>1. pc[t] = "replace" /\ UNCHANGED <<solo, deployments, audits, state, defaults, met>>
      BY <1>10 DEF ReplaceArrival, inplace
    <2>2. SoloAtWork(t) /\ SoloSpec' = SoloSpec /\ SoloRequest' = SoloRequest
      BY <1>2, <2>1, AtWork
    <2>3. DefaultsAgree' /\ StateAgrees'
      BY <2>1, <2>2 DEF SoloAtWork, StateAgrees, DefaultsAgree, OfSolo
    <2>4. CASE Finish(t)
      BY <1>2, <2>1, <2>2, <2>4 DEF Finish, SoloOver, SoloAtWork, Alone, Idle, ThreadsInv
    <2>5. CASE ~Finish(t)
      <3>1. /\ temporary # None /\ arrival' = temporary
            /\ pc' = [pc EXCEPT ![t] = "audit"] /\ UNCHANGED loc
        BY <1>10, <2>5 DEF ReplaceArrival
      <3>2. ArrivalAgrees'
        BY <2>1, <2>2, <3>1 DEF SoloAtWork, ArrivalAgrees, ArrivalRecord
      <3>3. Alone(t)' /\ pc'[t] = "audit"
        BY <2>2, <3>1 DEF SoloAtWork, Alone, Idle, ThreadsInv
      <3> QED
        BY <1>2, <2>1, <2>2, <2>3, <3>1, <3>2, <3>3 DEF SoloAtWork
    <2> QED
      BY <2>4, <2>5
  <1>11. ASSUME NEW t \in Threads, SaveAudit(t)
         PROVE  SoloOver' /\ solo' \in DOMAIN deployments'
    <2>1. pc[t] = "audit" /\ UNCHANGED <<solo, deployments, arrival, state, defaults>>
      BY <1>11 DEF SaveAudit, inplace, replaced
    <2>2. SoloAtWork(t) /\ SoloSpec' = SoloSpec /\ SoloRequest' = SoloRequest
      BY <1>2, <2>1, AtWork
    <2>3. DefaultsAgree' /\ StateAgrees' /\ ArrivalAgrees'
      BY <2>1, <2>2 DEF SoloAtWork, StateAgrees, DefaultsAgree, ArrivalAgrees, OfSolo
    <2>4. \A u \in Threads : Idle(u)'
      BY <1>11, <2>2 DEF SaveAudit, Finish, SoloAtWork, Alone, Idle, ThreadsInv
    <2> QED
      BY <1>2, <2>1, <2>3, <2>4 DEF SoloOver
  <1>12. ASSUME NEW t \in Threads, NEW r, StartStateUpdate(t, r) \/ StartTimeArrival(t, r)
         PROVE  FALSE
    BY <1>12 DEF StartStateUpdate, StartTimeArrival
  <1>13. ~Crash /\ \A t \in Threads : ~LoadTimeArrival(t)
    BY <1>12 DEF Crash, LoadTimeArrival
  <1>14. CASE PipelineStep
    BY <1>3, <1>14, PipelineFrame
  <1>15. CASE UNCHANGED vars
    BY <1>3, <1>15 DEF vars
  <1> QED
    BY <1>1, <1>4, <1>5, <1>6, <1>7, <1>8, <1>9, <1>11, <1>12, <1>13, <1>14, <1>15, <1>10
       DEF Next, PipelineStep

\* A recorded deployment that met no other request left the state records, the
\* defaults and the arrival model saying the same, whatever the files held when
\* it began: its own header over records of its own, and the configuration of
\* the scenario it deployed.
THEOREM SoloDeploymentsAgree == Spec => []SoloDeploymentAgrees
  <1>1. NamesInv /\ SoloInv => SoloDeploymentAgrees
    <2> SUFFICES ASSUME NamesInv, SoloInv, solo \in audits
                 PROVE  StateAgrees /\ DefaultsAgree /\ ArrivalAgrees
      BY DEF SoloDeploymentAgrees, StateAgrees, DefaultsAgree, ArrivalAgrees, OfSolo,
             SoloRequest, SoloSpec
    <2>1. DOMAIN deployments \subseteq Nat
      BY DEF NamesInv
    <2>2. solo # None
      BY <2>1, NoneAssumption DEF NamesInv
    <2> QED
      BY <2>2 DEF SoloInv, SoloOver, SoloAtWork
  <1> QED
    BY <1>1, InitThreads, NextThreads, InitRecords, NextRecords, InitPipeline, NextPipeline,
       InitOffered, NextOffered, InitNames, NextNames, InitSolo, NextSolo, PTL DEF Spec
==============================================================================
