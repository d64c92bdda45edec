-------------------------- MODULE HostRunner_proofs --------------------------
(***************************************************************************)
(* Proofs about HostRunner for any number of runs, requests and restarts.  *)
(* IInv is inductive; the safety properties follow from it.  Every action  *)
(* has a lemma with a step for the types, one for the runs and one for the *)
(* requests.                                                               *)
(***************************************************************************)
EXTENDS HostRunner, TLAPS

-------------------------------------------------------------------------------
(***************************************************************************)
(* The database: a finalization keeps what others have seen or completed.  *)
(***************************************************************************)

LEMMA CompletedTyped ==
  ASSUME NEW d \in Database, NEW seen \in Database
  PROVE  Completed(d, seen) \in Database
BY DEF Completed, Database, Row

LEMMA CompletedReadable ==
  ASSUME NEW d \in Database, NEW seen \in Database, Follows(d, seen), seen.row # "noFile"
  PROVE  Readable(Completed(d, seen))
BY DEF Completed, Database, Row, Follows, Readable

LEMMA StaysReadable ==
  ASSUME NEW d \in Database, NEW seen \in Database, Follows(d, seen), Readable(d)
  PROVE  Readable(Completed(d, seen))
BY DEF Completed, Database, Row, Follows, Readable

LEMMA StaysFollowed ==
  ASSUME NEW d \in Database, NEW seen \in Database, NEW other \in Database,
         Follows(d, seen), Follows(d, other)
  PROVE  Follows(Completed(d, seen), other)
BY DEF Completed, Database, Row, Follows

LEMMA SelfFollows ==
  ASSUME NEW d \in Database
  PROVE  Follows(d, d)
BY DEF Database, Follows

-------------------------------------------------------------------------------
(***************************************************************************)
(* IInv holds initially and every action preserves it.                     *)
(***************************************************************************)

LEMMA NoRequestTyped == NoRequest \in ThreadState
BY DEF NoRequest, ThreadState, Label

\* A request that has no result yet.
LEMMA WithoutResult ==
  ASSUME NEW t \in Threads,
         thread'[t].pc \in {"idle", "refresh", "check", "kill"},
         thread'[t].pc # "idle" => thread'[t].run \in Runs,
         thread'[t].pc \in {"check", "kill"} =>
           runs'[thread'[t].run] # None /\ process'[thread'[t].run] \in {"running"} \cup Ended
  PROVE  ThreadOK(t)'
BY DEF ThreadOK, RunOf, Refreshing

\* A request with a result to store.
LEMMA WithResult ==
  ASSUME NEW t \in Threads, NEW r \in Runs, NEW rec \in RunRecord,
         thread'[t].pc = "store", thread'[t].run = r, thread'[t].record = rec,
         runs'[r] # None, process'[r] \in Ended, Justified(r, rec)'
  PROVE  ThreadOK(t)'
<1>1. RunOf(t)' = r
  BY DEF RunOf
<1>2. QED
  BY <1>1 DEF ThreadOK, Refreshing, Justified

\* A request that goes on with its own run disturbs no other request.
LEMMA OthersFrame ==
  ASSUME IInv, NEW t \in Threads, NEW state \in ThreadState,
         thread' = [thread EXCEPT ![t] = state],
         state.pc \in Refreshing \cup {"register"} => runs[state.run] # None,
         UNCHANGED <<runs, process, database>>,
         NEW u \in Threads \ {t}
  PROVE  ThreadOK(u)'
<1>1. /\ thread'[u] = thread[u]
      /\ \A v \in Threads : thread'[v] = IF v = t THEN state ELSE thread[v]
  BY DEF IInv, TypeOK
<1>2. ThreadOK(u)
  BY DEF IInv
<1>3. CASE thread[u].pc = "register"
  BY <1>1, <1>2, <1>3 DEF ThreadOK, RunOf, Refreshing
<1>4. CASE thread[u].pc # "register"
  BY <1>1, <1>2, <1>4 DEF ThreadOK, RunOf, Justified
<1>5. QED
  BY <1>3, <1>4

LEMMA InitIInv == Init => IInv
<1> SUFFICES ASSUME Init PROVE IInv
  OBVIOUS
<1>1. TypeOK
  BY NoRequestTyped, RestartAssumption
     DEF RestartAssumption, Init, TypeOK, ProcessState, Database, Row
<1>2. \A r \in Runs : RunOK(r)
  BY DEF Init, RunOK, IsRunning
<1>3. \A t \in Threads : ThreadOK(t)
  BY DEF Init, ThreadOK, NoRequest, Refreshing
<1>4. QED
  BY <1>1, <1>2, <1>3 DEF IInv

LEMMA RefuseIInv ==
  ASSUME IInv, NEW t \in Threads, NEW r \in Runs, Refuse(t, r)
  PROVE  IInv'
<1> USE NoneAssumption DEF NoneAssumption, IInv, TypeOK, Refuse
<1>0. [status |-> "FAILED", errors |-> TRUE] \in RunRecord
  BY DEF RunRecord, Final
<1>1. TypeOK'
  BY <1>0 DEF ProcessState
<1>2. ASSUME NEW q \in Runs PROVE RunOK(q)'
  BY <1>0 DEF RunOK, IsRunning, Justified, Final, Ended
<1>3. ASSUME NEW u \in Threads PROVE ThreadOK(u)'
  BY DEF ThreadOK, RunOf, Justified, Ended
<1>4. QED
  BY <1>1, <1>2, <1>3

LEMMA LaunchIInv ==
  ASSUME IInv, NEW t \in Threads, NEW r \in Runs, NEW sync \in BOOLEAN, Launch(t, r, sync)
  PROVE  IInv'
<1> USE NoneAssumption DEF NoneAssumption, IInv, TypeOK, Launch, memory
<1>0. /\ [NoRequest EXCEPT !.pc = "register", !.run = r, !.sync = sync] \in ThreadState
      /\ runs[r] = None
  BY DEF NoRequest, ThreadState, Label, RunOK, Justified, Ended
<1>1. TypeOK'
  BY <1>0 DEF ProcessState
<1>2. ASSUME NEW q \in Runs PROVE RunOK(q)'
  BY <1>0 DEF RunOK, IsRunning, Justified, Ended
<1>3. ASSUME NEW u \in Threads PROVE ThreadOK(u)'
  <2>1. CASE u = t
    <3>1. \A v \in Threads \ {t} : RunOf(v) = r => thread[v].pc \notin Refreshing \cup {"register"}
      BY DEF ThreadOK, RunOf, Ended
    <3>2. QED
      BY <1>0, <2>1, <3>1 DEF ThreadOK, RunOf, Refreshing, NoRequest
  <2>2. CASE u # t
    <3>1. thread[u].pc \in Refreshing \cup {"register"} => RunOf(u) # r
      BY DEF ThreadOK, RunOf, Ended
    <3>2. /\ thread'[u] = thread[u] /\ thread'[t].run = r
          /\ \A v \in Threads \ {t} : thread'[v] = thread[v]
      BY <2>2 DEF NoRequest
    <3>3. CASE thread[u].pc = "register"
      BY <2>2, <3>1, <3>2, <3>3 DEF ThreadOK, RunOf, Refreshing
    <3>4. CASE thread[u].pc # "register"
      BY <2>2, <3>1, <3>2, <3>4 DEF ThreadOK, RunOf, Refreshing, Justified
    <3>5. QED
      BY <3>3, <3>4
  <2>3. QED
    BY <2>1, <2>2
<1>4. QED
  BY <1>1, <1>2, <1>3

LEMMA RegisterIInv ==
  ASSUME IInv, NEW t \in Threads, Register(t)
  PROVE  IInv'
<1> USE NoneAssumption DEF NoneAssumption, IInv, TypeOK, Register, host, At
<1>0. /\ [status |-> "RUNNING", errors |-> FALSE] \in RunRecord
      /\ RunOf(t) \in Runs
  BY DEF RunRecord, ThreadOK
<1>1. TypeOK'
  BY <1>0, NoRequestTyped DEF StillRunning, Goto, Respond, ThreadState, Label
<1>2. ASSUME NEW q \in Runs PROVE RunOK(q)'
  BY <1>0 DEF RunOK, IsRunning, Justified, ThreadOK
<1>3. ASSUME NEW u \in Threads PROVE ThreadOK(u)'
  <2>1. CASE u = t
    <3>1. /\ thread'[t].pc \in {"idle", "refresh"}
          /\ thread'[t].pc # "idle" => thread'[t].run = RunOf(t)
      BY DEF StillRunning, Goto, Respond, NoRequest, RunOf, ThreadState
    <3>2. QED
      BY <1>0, <2>1, <3>1, WithoutResult
  <2>2. CASE u # t
    <3>1. /\ thread'[u] = thread[u]
          /\ \A v \in Threads \ {t} : thread'[v] = thread[v]
          /\ thread'[t].pc \in {"idle", "refresh"}
      BY <2>2 DEF StillRunning, Goto, Respond, NoRequest, ThreadState
    <3>2. thread[u].pc \in Refreshing \cup {"register"} => RunOf(u) # RunOf(t)
      BY <2>2 DEF ThreadOK
    <3>3. CASE thread[u].pc = "register"
      BY <1>0, <2>2, <3>1, <3>2, <3>3 DEF ThreadOK, RunOf, Refreshing
    <3>4. CASE thread[u].pc # "register"
      BY <1>0, <2>2, <3>1, <3>2, <3>4 DEF ThreadOK, RunOf, Refreshing, Justified
    <3>5. QED
      BY <3>3, <3>4
  <2>3. QED
    BY <2>1, <2>2
<1>4. QED
  BY <1>1, <1>2, <1>3

LEMMA PollIInv ==
  ASSUME IInv, NEW t \in Threads, NEW r \in Runs, Poll(t, r)
  PROVE  IInv'
<1> USE DEF IInv, TypeOK, Poll, host, memory, At
<1>0. [NoRequest EXCEPT !.pc = "refresh", !.run = r] \in ThreadState
  BY DEF NoRequest, ThreadState, Label
<1>1. TypeOK'
  BY <1>0
<1>2. ASSUME NEW q \in Runs PROVE RunOK(q)'
  BY DEF RunOK, IsRunning, Justified
<1>3. ASSUME NEW u \in Threads PROVE ThreadOK(u)'
  <2>1. CASE u = t
    BY <1>0, <2>1 DEF ThreadOK, RunOf, Refreshing, NoRequest
  <2>2. CASE u # t
    BY <1>0, <2>2, OthersFrame DEF Refreshing, NoRequest
  <2>3. QED
    BY <2>1, <2>2
<1>4. QED
  BY <1>1, <1>2, <1>3

LEMMA RefreshIInv ==
  ASSUME IInv, NEW t \in Threads, Refresh(t)
  PROVE  IInv'
<1> USE NoneAssumption DEF NoneAssumption, IInv, TypeOK, Refresh, host, memory, At
<1>0. /\ RunOf(t) \in Runs
      /\ IF IsRunning(RunOf(t)) THEN Goto(t, "check") ELSE Respond(t)
  BY DEF ThreadOK, RunOK
<1>1. TypeOK'
  BY <1>0, NoRequestTyped DEF Goto, Respond, ThreadState, Label
<1>2. ASSUME NEW q \in Runs PROVE RunOK(q)'
  BY DEF RunOK, IsRunning, Justified
<1>3. ASSUME NEW u \in Threads PROVE ThreadOK(u)'
  <2>1. CASE u = t
    <3>1. /\ thread'[t].pc \in {"check", "idle"}
          /\ thread'[t].pc = "check" => thread'[t].run = RunOf(t) /\ IsRunning(RunOf(t))
      BY <1>0 DEF Goto, Respond, NoRequest, RunOf, ThreadState
    <3>2. IsRunning(RunOf(t)) => /\ runs[RunOf(t)] # None
                                 /\ process[RunOf(t)] \in {"running"} \cup Ended
      BY <1>0 DEF RunOK, IsRunning
    <3>3. QED
      BY <1>0, <2>1, <3>1, <3>2, WithoutResult
  <2>2. CASE u # t
    <3> DEFINE state == thread'[t]
    <3>1. /\ state \in ThreadState
          /\ thread' = [thread EXCEPT ![t] = state]
          /\ state.pc = "check" => state.run = RunOf(t) /\ IsRunning(RunOf(t))
          /\ state.pc \in {"check", "idle"}
      BY <1>0, <1>1 DEF Goto, Respond, NoRequest, RunOf, ThreadState
    <3>2. QED
      BY <2>2, <3>1, OthersFrame DEF Refreshing, IsRunning
  <2>3. QED
    BY <2>1, <2>2
<1>4. QED
  BY <1>1, <1>2, <1>3

LEMMA CheckIInv ==
  ASSUME IInv, NEW t \in Threads, Check(t)
  PROVE  IInv'
<1> USE DEF IInv, TypeOK, Check, host, memory, At
<1>0. RunOf(t) \in Runs
  BY DEF ThreadOK
<1>1. TypeOK'
  BY <1>0, NoRequestTyped DEF StillRunning, Goto, Respond, ThreadState, Label
<1>2. ASSUME NEW q \in Runs PROVE RunOK(q)'
  BY DEF RunOK, IsRunning, Justified
<1>3. ASSUME NEW u \in Threads PROVE ThreadOK(u)'
  <2>1. CASE u = t
    <3>1. process[RunOf(t)] \in {"running"} \cup Ended /\ runs[RunOf(t)] # None
      BY DEF ThreadOK, RunOf, Refreshing
    <3>2. CASE process[RunOf(t)] = "running"
      <4>1. /\ thread'[t].pc \in {"idle", "refresh", "kill"}
            /\ thread'[t].pc # "idle" => thread'[t].run = RunOf(t)
        BY <3>2 DEF StillRunning, Goto, Respond, NoRequest, RunOf, ThreadState
      <4>2. QED
        BY <1>0, <2>1, <3>1, <4>1, WithoutResult
    <3>3. CASE process[RunOf(t)] # "running"
      <4>1. thread'[t].pc = "reread" /\ thread'[t].run = RunOf(t)
        BY <3>3 DEF Goto, RunOf, ThreadState
      <4>2. QED
        BY <1>0, <2>1, <3>1, <3>3, <4>1 DEF ThreadOK, RunOf, Refreshing
    <3>4. QED
      BY <3>2, <3>3
  <2>2. CASE u # t
    <3> DEFINE state == thread'[t]
    <3>1. /\ state \in ThreadState
          /\ thread' = [thread EXCEPT ![t] = state]
          /\ state.pc \in Refreshing => state.run = RunOf(t)
          /\ state.pc # "register"
      BY <1>0, <1>1 DEF StillRunning, Goto, Respond, NoRequest, RunOf, ThreadState, Refreshing
    <3>2. runs[RunOf(t)] # None
      BY DEF ThreadOK, RunOf, Refreshing
    <3>3. QED
      BY <2>2, <3>1, <3>2, OthersFrame
  <2>3. QED
    BY <2>1, <2>2
<1>4. QED
  BY <1>1, <1>2, <1>3

LEMMA KillIInv ==
  ASSUME IInv, NEW t \in Threads, Kill(t)
  PROVE  IInv'
<1> USE DEF IInv, TypeOK, Kill, memory, At
<1>0. /\ RunOf(t) \in Runs
      /\ [status |-> "FAILED_TIMEOUT", errors |-> TRUE] \in RunRecord
      /\ process[RunOf(t)] \in {"running"} \cup Ended
  BY DEF ThreadOK, RunRecord, Final, Refreshing, RunOf
<1>1. TypeOK'
  BY <1>0, NoRequestTyped DEF Result, Respond, ThreadState, Label, ProcessState
<1>2. ASSUME NEW q \in Runs PROVE RunOK(q)'
  BY <1>0 DEF RunOK, IsRunning, Justified, Ended
<1>3. ASSUME NEW u \in Threads PROVE ThreadOK(u)'
  <2>1. CASE u = t
    <3>1. CASE Respond(t)
      BY <2>1, <3>1, WithoutResult DEF Respond, NoRequest
    <3>2. CASE /\ process' = [process EXCEPT ![RunOf(t)] = IF @ = "running" THEN "exited1" ELSE @]
               /\ Result(t, "FAILED_TIMEOUT", TRUE)
      <4> DEFINE rec == [status |-> "FAILED_TIMEOUT", errors |-> TRUE]
      <4>1. thread'[t].pc = "store" /\ thread'[t].run = RunOf(t) /\ thread'[t].record = rec
        BY <3>2 DEF Result, RunOf, ThreadState
      <4>2. process'[RunOf(t)] \in Ended /\ runs'[RunOf(t)] # None
        BY <1>0, <3>2 DEF Ended, ThreadOK, Refreshing, RunOf
      <4>3. ASSUME NEW r, r = RunOf(t) PROVE Justified(r, rec)'
        BY <4>2, <4>3 DEF Justified, Final, Ended
      <4>4. QED
        BY <1>0, <2>1, <4>1, <4>2, <4>3, WithResult
    <3>3. QED
      BY <3>1, <3>2
  <2>2. CASE u # t
    <3>1. /\ thread'[u] = thread[u]
          /\ \A v \in Threads \ {t} : thread'[v] = thread[v]
          /\ thread'[t].pc \in {"idle", "store"}
          /\ thread'[t].pc = "store" => thread'[t].run = RunOf(t)
      BY <2>2 DEF Result, Respond, NoRequest, RunOf, ThreadState
    <3>2. runs[RunOf(t)] # None
      BY DEF ThreadOK, RunOf, Refreshing
    <3>3. \A q \in Runs : process'[q] = process[q] \/ (process[q] = "running" /\ process'[q] = "exited1")
      BY <1>0
    <3>4. CASE thread[u].pc = "register"
      BY <2>2, <3>1, <3>2, <3>3, <3>4 DEF ThreadOK, RunOf, Refreshing, Ended
    <3>5. CASE thread[u].pc # "register"
      BY <2>2, <3>1, <3>3, <3>5 DEF ThreadOK, RunOf, Refreshing, Ended, Justified
    <3>6. QED
      BY <3>4, <3>5
  <2>3. QED
    BY <2>1, <2>2
<1>4. QED
  BY <1>1, <1>2, <1>3

LEMMA RereadIInv ==
  ASSUME IInv, NEW t \in Threads, Reread(t)
  PROVE  IInv'
<1> USE DEF IInv, TypeOK, Reread, host, memory, At
<1>0. /\ RunOf(t) \in Runs
      /\ [status |-> "COMPLETED_NO_RESULT_DB", errors |-> TRUE] \in RunRecord
      /\ [status |-> "FAILED", errors |-> TRUE] \in RunRecord
  BY DEF ThreadOK, RunRecord, Final
<1>1. TypeOK'
  BY <1>0 DEF Result, Goto, ThreadState, Label
<1>2. ASSUME NEW q \in Runs PROVE RunOK(q)'
  BY DEF RunOK, IsRunning, Justified
<1>3. runs[RunOf(t)] # None /\ process[RunOf(t)] \in Ended
  BY DEF ThreadOK, RunOf, Refreshing
<1>4. ASSUME NEW u \in Threads PROVE ThreadOK(u)'
  <2>1. CASE u = t
    <3>1. CASE Goto(t, "finalize") /\ process[RunOf(t)] = "exited0" /\ database[RunOf(t)].row # "noFile"
      <4>1. thread'[t].pc = "finalize" /\ thread'[t].run = RunOf(t)
        BY <3>1 DEF Goto, RunOf, ThreadState
      <4>2. QED
        BY <1>0, <1>3, <2>1, <3>1, <4>1 DEF ThreadOK, RunOf, Refreshing
    <3>2. ASSUME NEW status \in {"COMPLETED_NO_RESULT_DB", "FAILED"},
                 thread' = [thread EXCEPT ![t].record = [status |-> status, errors |-> TRUE],
                                          ![t].pc = "store"],
                 process[RunOf(t)] = IF status = "FAILED" THEN "exited1" ELSE "exited0"
          PROVE  ThreadOK(u)'
      <4> DEFINE rec == [status |-> status, errors |-> TRUE]
      <4>1. thread'[t].pc = "store" /\ thread'[t].run = RunOf(t) /\ thread'[t].record = rec
        BY <3>2 DEF RunOf, ThreadState
      <4>2. rec \in RunRecord
        BY DEF RunRecord, Final
      <4>3. ASSUME NEW r, r = RunOf(t) PROVE Justified(r, rec)'
        BY <3>2, <4>3 DEF Justified, Final
      <4>4. QED
        BY <1>0, <1>3, <2>1, <4>1, <4>2, <4>3, WithResult
    <3>3. QED
      BY <3>1, <3>2 DEF Result
  <2>2. CASE u # t
    <3> DEFINE state == thread'[t]
    <3>1. /\ state \in ThreadState
          /\ thread' = [thread EXCEPT ![t] = state]
          /\ state.run = RunOf(t)
      BY <1>0, <1>1 DEF Result, Goto, RunOf, ThreadState
    <3>2. QED
      BY <1>3, <2>2, <3>1, OthersFrame
  <2>3. QED
    BY <2>1, <2>2
<1>5. QED
  BY <1>1, <1>2, <1>4

LEMMA FinalizeIInv ==
  ASSUME IInv, NEW t \in Threads, Finalize(t)
  PROVE  IInv'
<1> USE DEF IInv, TypeOK, Finalize, host, memory, At
<1>0. RunOf(t) \in Runs
  BY DEF ThreadOK
<1>1. TypeOK'
  BY <1>0 DEF ThreadState, Label
<1>2. ASSUME NEW q \in Runs PROVE RunOK(q)'
  BY DEF RunOK, IsRunning, Justified
<1>3. ASSUME NEW u \in Threads PROVE ThreadOK(u)'
  <2>1. CASE u = t
    BY <1>0, <2>1, SelfFollows DEF ThreadOK, RunOf, Refreshing, ThreadState
  <2>2. CASE u # t
    <3> DEFINE state == thread'[t]
    <3>1. /\ state \in ThreadState
          /\ thread' = [thread EXCEPT ![t] = state]
          /\ state.run = RunOf(t) /\ state.pc = "write"
      BY <1>0, <1>1 DEF RunOf, ThreadState
    <3>2. runs[RunOf(t)] # None
      BY DEF ThreadOK, RunOf, Refreshing
    <3>3. QED
      BY <2>2, <3>1, <3>2, OthersFrame
  <2>3. QED
    BY <2>1, <2>2
<1>4. QED
  BY <1>1, <1>2, <1>3

LEMMA WriteResultIInv ==
  ASSUME IInv, NEW t \in Threads, WriteResult(t)
  PROVE  IInv'
<1> DEFINE r == RunOf(t)
           d == database[r]
           seen == thread[t].seen
<1>0. /\ r \in Runs /\ d \in Database /\ seen \in Database
      /\ process[r] = "exited0" /\ runs[r] # None
      /\ seen.row # "noFile" /\ Follows(d, seen)
  BY DEF IInv, TypeOK, WriteResult, ThreadOK, At, Refreshing, RunOf
<1>1. PICK errors \in BOOLEAN :
        /\ Result(t, "COMPLETED", errors)
        /\ \/ errors /\ database' = database
           \/ database' = [database EXCEPT ![r] = Completed(d, seen)]
  BY DEF WriteResult
<1>2. [status |-> "COMPLETED", errors |-> errors] \in RunRecord
  BY DEF RunRecord, Final
<1>3. UNCHANGED <<memory, process, overdue, restarts>>
  BY DEF WriteResult
<1>4. TypeOK'
  <2>1. database' \in [Runs -> Database]
    BY <1>0, <1>1, CompletedTyped DEF IInv, TypeOK
  <2>2. thread' \in [Threads -> ThreadState]
    <3> DEFINE rec == [status |-> "COMPLETED", errors |-> errors]
    <3>1. thread[t] \in ThreadState /\ thread \in [Threads -> ThreadState]
      BY DEF IInv, TypeOK
    <3>2. [thread[t] EXCEPT !.record = rec, !.pc = "store"] \in ThreadState
      BY <1>2, <3>1 DEF ThreadState, Label
    <3>3. thread' = [thread EXCEPT ![t] = [thread[t] EXCEPT !.record = rec, !.pc = "store"]]
      BY <1>1, <3>1 DEF Result, ThreadState
    <3>4. QED
      BY <3>1, <3>2, <3>3
  <2>3. QED
    BY <1>3, <2>1, <2>2 DEF IInv, TypeOK, memory
<1>5. ASSUME NEW q \in Runs, NEW other \in Database, Follows(database[q], other)
      PROVE  Follows(database'[q], other)
  BY <1>0, <1>1, <1>5, StaysFollowed DEF IInv, TypeOK
<1>6. ASSUME NEW q \in Runs, Readable(database[q])
      PROVE  Readable(database'[q])
  BY <1>0, <1>1, <1>6, StaysReadable DEF IInv, TypeOK
<1>7. ~errors => Readable(database'[r])
  BY <1>0, <1>1, CompletedReadable DEF IInv, TypeOK
<1>8. ASSUME NEW q \in Runs, NEW rec \in RunRecord, Justified(q, rec)
      PROVE  Justified(q, rec)'
  BY <1>3, <1>6, <1>8 DEF Justified
<1>9. ASSUME NEW q \in Runs PROVE RunOK(q)'
  BY <1>3, <1>8 DEF IInv, TypeOK, RunOK, IsRunning, memory
<1>10. ASSUME NEW q \in Runs PROVE database[q].row # "noFile" => database'[q].row # "noFile"
  BY <1>0, <1>1 DEF IInv, TypeOK, Completed
<1>11. ThreadOK(t)'
  BY <1>0, <1>1, <1>2, <1>3, <1>7
     DEF IInv, TypeOK, ThreadOK, Result, RunOf, Justified, Refreshing, Ended, Final, memory,
         ThreadState
<1>12. ASSUME NEW u \in Threads \ {t} PROVE ThreadOK(u)'
  <2>1. thread'[u] = thread[u] /\ RunOf(u)' = RunOf(u)
    BY <1>1 DEF Result, IInv, TypeOK, RunOf
  <2>2. \A v \in Threads : RunOf(v)' = RunOf(v)
                           /\ (v # t => thread'[v].pc = thread[v].pc)
    BY <1>1 DEF Result, IInv, TypeOK, RunOf, ThreadState
  <2>3. CASE thread[u].pc = "register"
    <3>1. RunOf(u) # r
      BY <2>3, <1>0 DEF IInv, ThreadOK, RunOf
    <3>2. QED
      BY <1>3, <2>1, <2>2, <2>3, <3>1 DEF IInv, ThreadOK, memory, Refreshing
  <2>4. CASE thread[u].pc # "register"
    BY <1>3, <1>5, <1>8, <1>10, <2>1, <2>4 DEF IInv, ThreadOK, RunOf, memory, Refreshing
  <2>5. QED
    BY <2>3, <2>4
<1>13. QED
  BY <1>4, <1>9, <1>11, <1>12 DEF IInv

LEMMA StoreIInv ==
  ASSUME IInv, NEW t \in Threads, Store(t)
  PROVE  IInv'
<1> USE NoneAssumption DEF NoneAssumption, IInv, TypeOK, Store, host, At
<1>0. /\ RunOf(t) \in Runs
      /\ thread[t].record \in RunRecord
      /\ Justified(RunOf(t), thread[t].record)
      /\ runs[RunOf(t)] # None
  BY DEF ThreadOK, Refreshing, RunOf
<1>1. TypeOK'
  BY <1>0, NoRequestTyped DEF Respond
<1>2. ASSUME NEW q \in Runs PROVE RunOK(q)'
  BY <1>0 DEF RunOK, IsRunning, Justified, Final
<1>3. ASSUME NEW u \in Threads PROVE ThreadOK(u)'
  BY <1>0 DEF ThreadOK, RunOf, Justified, Refreshing, Respond, NoRequest
<1>4. QED
  BY <1>1, <1>2, <1>3

LEMMA IsaacExitsIInv ==
  ASSUME IInv, NEW r \in Runs, IsaacExits(r)
  PROVE  IInv'
<1> USE DEF IInv, TypeOK, IsaacExits, memory
<1>1. TypeOK'
  BY DEF ProcessState, Database
<1>2. ASSUME NEW q \in Runs PROVE RunOK(q)'
  BY DEF RunOK, IsRunning, Justified, Ended
<1>3. ASSUME NEW u \in Threads PROVE ThreadOK(u)'
  BY DEF ThreadOK, RunOf, Justified, Refreshing, Ended
<1>4. QED
  BY <1>1, <1>2, <1>3

LEMMA TimeoutElapsesIInv ==
  ASSUME IInv, NEW r \in Runs, TimeoutElapses(r)
  PROVE  IInv'
<1> USE DEF IInv, TypeOK, TimeoutElapses, memory
<1>1. TypeOK'
  OBVIOUS
<1>2. ASSUME NEW q \in Runs PROVE RunOK(q)'
  BY DEF RunOK, IsRunning, Justified
<1>3. ASSUME NEW u \in Threads PROVE ThreadOK(u)'
  BY DEF ThreadOK, RunOf, Justified
<1>4. QED
  BY <1>1, <1>2, <1>3

LEMMA RestartIInv ==
  ASSUME IInv, Restart
  PROVE  IInv'
<1> USE DEF IInv, TypeOK, Restart, host
<1>1. TypeOK'
  BY NoRequestTyped, RestartAssumption DEF RestartAssumption
<1>2. ASSUME NEW q \in Runs PROVE RunOK(q)'
  BY DEF RunOK, IsRunning
<1>3. ASSUME NEW u \in Threads PROVE ThreadOK(u)'
  BY DEF ThreadOK, NoRequest, Refreshing
<1>4. QED
  BY <1>1, <1>2, <1>3

LEMMA StutterIInv == IInv /\ UNCHANGED vars => IInv'
BY DEF IInv, TypeOK, RunOK, ThreadOK, RunOf, IsRunning, Justified, vars, memory, host

LEMMA NextIInv == IInv /\ [Next]_vars => IInv'
<1> SUFFICES ASSUME IInv, [Next]_vars PROVE IInv'
  OBVIOUS
<1>1. ASSUME NEW t \in Threads, Request(t) PROVE IInv'
  BY <1>1, RefuseIInv, LaunchIInv, PollIInv DEF Request
<1>2. ASSUME NEW t \in Threads, Step(t) PROVE IInv'
  BY <1>2, RegisterIInv, RefreshIInv, CheckIInv, KillIInv, RereadIInv, FinalizeIInv,
     WriteResultIInv, StoreIInv DEF Step
<1>3. ASSUME NEW r \in Runs, IsaacExits(r) \/ TimeoutElapses(r) PROVE IInv'
  BY <1>3, IsaacExitsIInv, TimeoutElapsesIInv
<1>4. QED
  BY <1>1, <1>2, <1>3, RestartIInv, StutterIInv DEF Next

\* In every reachable state, whatever refreshes of a run overlap and wherever
\* the service restarts, IInv holds: runs and results still to be stored are
\* borne out by the process and its database.
THEOREM InvariantHolds == Spec => []IInv
<1>1. QED
  BY InitIInv, NextIInv, PTL DEF Spec

-------------------------------------------------------------------------------
(***************************************************************************)
(* What a client of the host runner may rely on.                           *)
(***************************************************************************)

\* RUNS and PROCESSES agree although a refresh reads and writes them in two
\* critical sections: "Process metadata is missing" is never reported.
THEOREM ProcessIsKnown == Spec => []ProcessKnown
<1>1. IInv => ProcessKnown
  BY DEF IInv, RunOK, ProcessKnown
<1>2. QED
  BY <1>1, InvariantHolds, PTL

\* A run that is over, also by a timeout that raced the end of the process,
\* has no live process.
THEOREM FinalRunsHaveEnded == Spec => []FinalRunEnded
<1>1. IInv => FinalRunEnded
  BY DEF IInv, RunOK, IsRunning, Justified, Final, FinalRunEnded
<1>2. QED
  BY <1>1, InvariantHolds, PTL

\* Results stored over each other keep to the return code of the process.
THEOREM StatusFollowsReturnCode == Spec => []StatusOfReturnCode
<1>1. IInv => StatusOfReturnCode
  BY DEF IInv, TypeOK, RunOK, IsRunning, Justified, StatusOfReturnCode
<1>2. QED
  BY <1>1, InvariantHolds, PTL

\* A run completed without errors has a readable result, although refreshes
\* that finalize the same database decide on what they read before.
THEOREM CompletedRunsAreReadable == Spec => []CompletedIsReadable
<1>1. IInv => CompletedIsReadable
  BY DEF IInv, TypeOK, RunOK, IsRunning, Justified, Readable, CompletedIsReadable
<1>2. QED
  BY <1>1, InvariantHolds, PTL

===============================================================================
