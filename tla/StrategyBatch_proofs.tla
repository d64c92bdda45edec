------------------------- MODULE StrategyBatch_proofs -------------------------
(***************************************************************************)
(* Proofs about StrategyBatch for any number of batches, requests,         *)
(* candidates, threads and restarts.  IInv is inductive; the safety         *)
(* properties are among its conjuncts or follow from them.  First come the *)
(* documents: every change a worker makes to its copy keeps it sound.      *)
(***************************************************************************)
EXTENDS StrategyBatch, SequenceTheorems, FiniteSetTheorems, TLAPS

-------------------------------------------------------------------------------
(***************************************************************************)
(* Documents.                                                              *)
(***************************************************************************)

LEMMA RunListIsSeq ==
  ASSUME NEW runs
  PROVE  runs \in RunList <=> runs \in Seq(RunRecord) /\ Len(runs) <= Candidates
<1>1. ASSUME runs \in RunList PROVE runs \in Seq(RunRecord) /\ Len(runs) <= Candidates
  <2>1. PICK n \in 0 .. Candidates : runs \in [1 .. n -> RunRecord]
    BY <1>1 DEF RunList
  <2>2. n \in Nat /\ n <= Candidates
    BY BoundAssumption DEF BoundAssumption
  <2>3. runs \in Seq(RunRecord)
    BY <2>1, <2>2
  <2>4. Len(runs) = n
    BY <2>1, <2>2
  <2>5. QED
    BY <2>2, <2>3, <2>4
<1>2. ASSUME runs \in Seq(RunRecord), Len(runs) <= Candidates PROVE runs \in RunList
  <2>1. Len(runs) \in 0 .. Candidates /\ runs \in [1 .. Len(runs) -> RunRecord]
    BY <1>2, LenProperties, BoundAssumption DEF BoundAssumption
  <2>2. QED
    BY <2>1 DEF RunList
<1>3. QED
  BY <1>1, <1>2

\* The fields of a document.
LEMMA DocumentFields ==
  ASSUME NEW doc \in BatchDocument
  PROVE  /\ doc.status \in BatchStatus
         /\ doc.runs \in Seq(RunRecord)
         /\ Len(doc.runs) \in 0 .. Candidates
         /\ doc.selection \in Selection \cup {None}
         /\ doc = [status |-> doc.status, runs |-> doc.runs, selection |-> doc.selection]
BY RunListIsSeq, LenProperties DEF BatchDocument

LEMMA SeqIsRunList ==
  ASSUME NEW runs \in Seq(RunRecord), Len(runs) <= Candidates
  PROVE  runs \in RunList
BY RunListIsSeq

LEMMA EmptyRunList == <<>> \in RunList /\ Len(<<>>) = 0
<1>1. <<>> \in Seq(RunRecord) /\ Len(<<>>) = 0
  BY EmptySeq
<1>2. Len(<<>>) <= Candidates
  BY <1>1, BoundAssumption DEF BoundAssumption
<1>3. QED
  BY <1>1, <1>2, SeqIsRunList

LEMMA NewDocument ==
  ASSUME NEW status \in {"GENERATED", "GENERATION_FAILED"}, NEW runs \in RunList
  PROVE  [status |-> status, runs |-> runs, selection |-> None] \in BatchDocument
BY DEF BatchDocument, BatchStatus

LEMMA NewBatchSound ==
  ASSUME NEW status \in {"GENERATED", "GENERATION_FAILED"}
  PROVE  NewBatch(status) \in BatchDocument /\ Sound(NewBatch(status))
<1>1. NewBatch(status) \in BatchDocument
  BY EmptyRunList, NewDocument DEF NewBatch
<1>2. NewBatch(status).runs = <<>> /\ NewBatch(status).status \notin Completed
  BY DEF NewBatch, Completed
<1>3. Sound(NewBatch(status))
  BY <1>2, EmptyRunList DEF Sound, SelectionMatches
<1>4. QED
  BY <1>1, <1>3

\* A document that is taken over by another run, or given up.
LEMMA StatusSound ==
  ASSUME NEW doc \in BatchDocument, Sound(doc),
         NEW status \in {"QUEUED", "RUNNING", "SYSTEM_ERROR"}
  PROVE  /\ [doc EXCEPT !.status = status] \in BatchDocument
         /\ Sound([doc EXCEPT !.status = status])
         /\ [doc EXCEPT !.status = status].status = status
         /\ [doc EXCEPT !.status = status].runs = doc.runs
BY DEF BatchDocument, BatchStatus, Active, Completed, Sound, SelectionMatches

FinishedBy(runs, w) ==
  \A i \in 1 .. Len(runs) :
    /\ runs[i].by = w /\ runs[i].status \in Finished
    /\ runs[i].eligible => runs[i].status = "EVALUATED"

Outcome(status, eligible) ==
  /\ status \in {"SIMULATING", "FAILED", "EVALUATED"} /\ eligible \in BOOLEAN
  /\ eligible => status = "EVALUATED"

MadeBy(runs, w) == \A i \in 1 .. Len(runs) : runs[i].by = w

\* The document of worker w with p records.
InRun(doc, w, p) ==
  /\ doc \in BatchDocument /\ Sound(doc) /\ doc.status = "RUNNING"
  /\ p \in 0 .. Candidates /\ Len(doc.runs) = p /\ MadeBy(doc.runs, w)

\* The record of a new candidate, after the finished runs of its own thread.
LEMMA AppendSound ==
  ASSUME NEW doc \in BatchDocument, doc.status = "RUNNING", NEW w \in Worker,
         NEW mine \in Seq(RunRecord), Len(mine) < Candidates,
         FinishedBy(mine, w), NEW next, next = WithCandidate(doc, mine, w)
  PROVE  /\ next \in BatchDocument /\ Sound(next) /\ next.status = "RUNNING"
         /\ Len(next.runs) = Len(mine) + 1
         /\ MadeBy(next.runs, w)
<1> USE DEF FinishedBy, MadeBy
<1> DEFINE record == [status |-> "GENERATING_SCENARIO", eligible |-> FALSE, by |-> w]
           runs == Append(mine, record)
<1>0. next = [doc EXCEPT !.runs = runs]
  BY DEF WithCandidate
<1>1. record \in RunRecord
  BY DEF RunRecord
<1>2. /\ runs \in Seq(RunRecord) /\ Len(runs) = Len(mine) + 1
      /\ \A i \in 1 .. Len(mine) : runs[i] = mine[i]
      /\ runs[Len(mine) + 1] = record
  BY <1>1
<1> HIDE DEF runs
<1>3. runs \in RunList
  BY <1>2, SeqIsRunList, BoundAssumption DEF BoundAssumption
<1>4. next \in BatchDocument /\ next.runs = runs /\ next.status = "RUNNING"
  BY <1>0, <1>3 DEF BatchDocument
<1>5. \A i \in 1 .. Len(mine) + 1 : i \in 1 .. Len(mine) \/ i = Len(mine) + 1
  OBVIOUS
<1>6. \A i \in 1 .. Len(runs) : runs[i].by = w /\ (runs[i].eligible => runs[i].status = "EVALUATED")
  BY <1>2, <1>5
<1>7. \A i \in 1 .. Len(runs) : i < Len(runs) => runs[i].status \in Finished
  BY <1>2, <1>5
<1>8. Len(runs) >= 1
  BY <1>2
<1>9. Sound(next)
  BY <1>4, <1>6, <1>7, <1>8 DEF Sound, SelectionMatches, Completed
<1>10. QED
  BY <1>2, <1>4, <1>6, <1>9

\* The last record takes the outcome of a step of its candidate.
LEMMA RecordSound ==
  ASSUME NEW doc, NEW p, NEW w, InRun(doc, w, p), p # 0,
         NEW status, NEW eligible, Outcome(status, eligible),
         NEW next, next = WithOutcome(doc, p, status, eligible)
  PROVE  /\ InRun(next, w, p)
         /\ status \in Finished => \A i \in 1 .. p : next.runs[i].status \in Finished
<1>0. /\ doc \in BatchDocument /\ Sound(doc) /\ doc.status = "RUNNING"
      /\ p \in Nat \ {0} /\ p = Len(doc.runs) /\ MadeBy(doc.runs, w)
  BY BoundAssumption DEF BoundAssumption, InRun
<1> USE <1>0 DEF MadeBy
<1> DEFINE r == doc.runs[p]
           record == [r EXCEPT !.status = status, !.eligible = eligible]
           runs == [doc.runs EXCEPT ![p] = record]
<1>1. doc.runs \in Seq(RunRecord) /\ Len(doc.runs) <= Candidates
  BY DocumentFields
<1>2. doc.runs[p] \in RunRecord
  BY <1>1, ElementOfSeq
<1>3. /\ record \in RunRecord /\ record.status = status /\ record.by = w
      /\ record.eligible => record.status = "EVALUATED"
  <2>1. r \in RunRecord /\ r.by = w
    BY <1>2
  <2>2. record = [r EXCEPT !.status = status, !.eligible = eligible]
    OBVIOUS
  <2> HIDE DEF r, record
  <2>3. QED
    BY <2>1, <2>2 DEF RunRecord, Outcome
<1> HIDE DEF record
<1>4. /\ runs \in Seq(RunRecord) /\ Len(runs) = p
      /\ \A i \in 1 .. p : runs[i] = IF i = p THEN record ELSE doc.runs[i]
  BY <1>1, <1>3, ExceptSeq
<1>5. runs \in RunList
  BY <1>1, <1>4, RunListIsSeq
<1>6. next = [doc EXCEPT !.runs = runs]
  BY DEF record, WithOutcome
<1>7. next \in BatchDocument /\ next.runs = runs /\ next.status = "RUNNING"
  BY <1>5, <1>6 DEF BatchDocument
<1> HIDE DEF runs
<1>8. \A i \in 1 .. p : /\ runs[i].by = w
                        /\ runs[i].eligible => runs[i].status = "EVALUATED"
                        /\ i < p => runs[i].status \in Finished
  BY <1>3, <1>4 DEF Sound
<1>9. Sound(next)
  BY <1>4, <1>7, <1>8 DEF Sound, SelectionMatches, Completed
<1>10. status \in Finished => \A i \in 1 .. p : runs[i].status \in Finished
  BY <1>3, <1>4, <1>8
<1>11. QED
  BY <1>1, <1>4, <1>7, <1>8, <1>9, <1>10 DEF InRun

\* What the ranking of finished runs returns makes a finished document.
LEMMA RankSound ==
  ASSUME NEW doc \in BatchDocument, Sound(doc), Len(doc.runs) = Candidates,
         \A i \in Position : doc.runs[i].status \in Finished,
         NEW sel \in Ranked(doc.runs)
  PROVE  LET next == [doc EXCEPT !.selection = sel, !.status = sel.status]
         IN next \in BatchDocument /\ Sound(next)
<1> DEFINE next == [doc EXCEPT !.selection = sel, !.status = sel.status]
<1>1. doc.runs \in Seq(RunRecord)
  BY DocumentFields
<1>2. Candidates \in Nat \ {0} /\ MaxRuns \in Nat
  BY BoundAssumption DEF BoundAssumption
<1>3. \A i \in Position : doc.runs[i] \in RunRecord
  BY <1>1, <1>2, ElementOfSeq DEF Position
<1>4. Eligible(doc.runs) = {i \in Position : doc.runs[i].eligible}
  BY DEF Eligible, Position
<1>5. sel \in Selection
  <2>1. CASE Eligible(doc.runs) # {}
    <3>1. PICK k \in Position : sel = [status |-> "SELECTED", winner |-> k,
                                       by |-> doc.runs[k].by, operatorRefinement |-> FALSE]
      BY <2>1, <1>4 DEF Ranked
    <3>2. doc.runs[k].by \in 0 .. MaxRuns /\ k \in 0 .. Candidates
      BY <1>2, <1>3 DEF RunRecord, Worker, Position
    <3>3. QED
      BY <3>1, <3>2 DEF Selection, Completed
  <2>2. CASE Eligible(doc.runs) = {}
    <3>1. PICK refine \in BOOLEAN : sel = [status |-> "NO_ELIGIBLE_STRATEGY", winner |-> 0,
                                           by |-> 0, operatorRefinement |-> refine]
      BY <2>2 DEF Ranked
    <3>2. QED
      BY <3>1, <1>2 DEF Selection, Completed
  <2>3. QED
    BY <2>1, <2>2
<1>6. /\ next \in BatchDocument /\ next.runs = doc.runs
      /\ next.selection = sel /\ next.status = sel.status
  BY <1>5 DEF BatchDocument, BatchStatus, Selection
<1> HIDE DEF next
<1>7. sel # None
  BY <1>5, AbsentAssumption DEF AbsentAssumption
<1>8. \A i \in Position : doc.runs[i].eligible => doc.runs[i].status = "EVALUATED"
  BY DEF Sound, Position
<1>9. SelectionMatches(next)
  <2>1. CASE Eligible(doc.runs) # {}
    <3>1. PICK k \in Position :
            /\ doc.runs[k].eligible
            /\ sel = [status |-> "SELECTED", winner |-> k, by |-> doc.runs[k].by,
                      operatorRefinement |-> FALSE]
      BY <2>1, <1>4 DEF Ranked
    <3>2. QED
      BY <3>1, <1>6, <1>7, <1>8 DEF SelectionMatches
  <2>2. CASE Eligible(doc.runs) = {}
    <3>1. /\ sel.status = "NO_ELIGIBLE_STRATEGY"
          /\ sel.operatorRefinement <=> \A i \in Position : doc.runs[i].status = "EVALUATED"
      BY <2>2 DEF Ranked, Position
    <3>2. QED
      BY <2>2, <3>1, <1>4, <1>6, <1>7 DEF SelectionMatches
  <2>3. QED
    BY <2>1, <2>2
<1>10. Sound(next)
  BY <1>6, <1>9 DEF Sound
<1>11. QED
  BY <1>6, <1>10 DEF next

-------------------------------------------------------------------------------
(***************************************************************************)
(* Steps that leave most of the state alone.                               *)
(***************************************************************************)

LEMMA ThreadTyped ==
  ASSUME NEW label \in {"unborn", "dead"}
  PROVE  Thread(label) \in WorkerState
BY BoundAssumption DEF BoundAssumption, Thread, WorkerState, WorkerLabel

LEMMA NoRequestTyped == NoRequest \in ClientState
BY BoundAssumption DEF BoundAssumption, NoRequest, ClientState, ClientLabel

\* What a request relies on survives the steps of others.
LEMMA ClientFrame ==
  ASSUME IInv, NEW c \in Clients, client'[c] = client[c], created \in Int, created' \in Int,
         created <= created',
         \A b \in Batches : batchFile[b] # None => batchFile'[b] # None,
         Starting(c) => worker'[client[c].thread] = worker[client[c].thread]
  PROVE  ClientOK(c)'
<1>1. ClientOK(c)
  BY DEF IInv
<1>2. QED
  BY <1>1 DEF ClientOK, Starting

LEMMA WorkerFrame ==
  ASSUME IInv, NEW w \in Worker, worker'[w] = worker[w], created' \in Int, created \in Int,
         created <= created',
         \A b \in Batches : batchFile[b] # None => batchFile'[b] # None
  PROVE  WorkerOK(w)'
<1>1. WorkerOK(w)
  BY DEF IInv
<1>2. Goal(w)' = Goal(w)
  BY DEF Goal
<1>3. QED
  BY <1>1, <1>2 DEF WorkerOK, Worker

\* A step of a running worker: the requests do not notice.
LEMMA RequestsFrame ==
  ASSUME IInv, NEW w \in Worker, worker[w].pc # "new", UNCHANGED <<client, created>>,
         \A v \in Worker \ {w} : worker'[v] = worker[v],
         \A b \in Batches : batchFile[b] # None => batchFile'[b] # None
  PROVE  /\ created' + Cardinality(Checking') <= MaxRuns
         /\ \A c \in Clients : ClientOK(c)'
         /\ StartersApart'
<1>1. created \in Int /\ created <= MaxRuns
  BY BoundAssumption DEF BoundAssumption, IInv, TypeOK
<1>2. ASSUME NEW c \in Clients PROVE ClientOK(c)'
  <2>1. ClientOK(c)
    BY DEF IInv
  <2>2. Starting(c) => worker'[client[c].thread] = worker[client[c].thread]
    BY <2>1, <1>1, BoundAssumption DEF BoundAssumption, ClientOK, Worker
  <2>3. QED
    BY <1>1, <2>2, ClientFrame
<1>3. StartersApart'
  BY DEF IInv, StartersApart, Starting
<1>4. Checking' = Checking
  BY DEF Checking
<1>5. QED
  BY <1>2, <1>3, <1>4 DEF IInv

\* A step of a request that starts or ends no check.
LEMMA CheckingFrame ==
  ASSUME IInv, NEW c \in Clients, created' = created, client[c].pc # "runCheck",
         client'[c].pc # "runCheck", \A d \in Clients \ {c} : client'[d] = client[d]
  PROVE  created' + Cardinality(Checking') <= MaxRuns
<1>1. Checking' = Checking
  BY DEF Checking
<1>2. QED
  BY <1>1 DEF IInv

LEMMA CheckingCount == IsFiniteSet(Checking) /\ Cardinality(Checking) \in Nat
<1>1. Checking \subseteq Clients
  BY DEF Checking
<1>2. QED
  BY <1>1, PoolAssumption, FS_Subset, FS_CardinalityType

\* A worker saves a sound copy that is as far as the worker is.
LEMMA SaveIInv ==
  ASSUME IInv, NEW w \in Inside,
         NEW doc \in BatchDocument, Sound(doc), NEW p \in 0 .. Candidates,
         NEW label \in {"candidate", "scenario", "simulate", "exit"},
         label # "exit" => Reached(w, doc, label, p),
         SaveAt(w, doc, p, label),
         UNCHANGED <<disk, registered, lock, client, counts>>
  PROVE  IInv'
<1> USE DEF disk, counts
<1>1. w \in Worker /\ worker[w].pc \notin {"unborn", "new", "queued", "dead"}
  BY DEF Inside
<1>2. TypeOK /\ WorkerOK(w)
  BY <1>1 DEF IInv
<1>3. /\ worker[w].batch \in Batches /\ batchFile[worker[w].batch] # None
      /\ w <= created
  BY <1>1, <1>2, BoundAssumption DEF BoundAssumption, WorkerOK, Thread, TypeOK, Worker
<1>4. [pc |-> "stage", batch |-> worker[w].batch, doc |-> doc, position |-> p, then |-> label]
        \in WorkerState
  BY <1>3 DEF WorkerState, WorkerLabel
<1>5. TypeOK'
  BY <1>1, <1>2, <1>4 DEF TypeOK, SaveAt
<1>6. /\ worker'[w] = [pc |-> "stage", batch |-> worker[w].batch, doc |-> doc,
                       position |-> p, then |-> label]
      /\ \A v \in Worker \ {w} : worker'[v] = worker[v]
  BY <1>1, <1>2 DEF TypeOK, SaveAt
<1>7. /\ created' + Cardinality(Checking') <= MaxRuns
      /\ \A c \in Clients : ClientOK(c)'
      /\ StartersApart'
  BY <1>1, <1>6, RequestsFrame
<1>8. \A b \in Batches : FileOK(b)'
  BY DEF IInv, FileOK
<1>9. ASSUME NEW v \in Worker PROVE WorkerOK(v)'
  <2>1. CASE v = w
    <3>1. Goal(w)' = label
      BY <1>6 DEF Goal
    <3>2. doc # None
      BY AbsentAssumption DEF AbsentAssumption
    <3>3. label # "exit" => Reached(w, worker[w].doc, Goal(w), worker[w].position)'
      BY <1>6, <3>1 DEF Reached
    <3>4. ~(w > created')
      BY <1>1, <1>2, <1>3, BoundAssumption DEF BoundAssumption, TypeOK, Worker
    <3>5. QED
      BY <2>1, <1>3, <1>6, <3>1, <3>2, <3>3, <3>4 DEF WorkerOK
  <2>2. CASE v # w
    BY <2>2, <1>2, <1>6, BoundAssumption, WorkerFrame DEF BoundAssumption, TypeOK
  <2>3. QED
    BY <2>1, <2>2
<1>10. OneBatchAtATime'
  BY <1>1, <1>6 DEF IInv, OneBatchAtATime, Inside
<1>11. QED
  BY <1>5, <1>7, <1>8, <1>9, <1>10 DEF IInv

\* A thread ends: it was the only one inside.
LEMMA DieIInv ==
  ASSUME IInv, NEW w \in Inside, Die(w),
         UNCHANGED <<disk, registered, client, counts>>
  PROVE  IInv'
<1> USE DEF disk, counts
<1>1. w \in Worker /\ worker[w].pc \notin {"unborn", "new", "queued", "dead"}
  BY DEF Inside
<1>2. TypeOK /\ WorkerOK(w)
  BY <1>1 DEF IInv
<1>3. /\ worker'[w] = Thread("dead")
      /\ \A v \in Worker \ {w} : worker'[v] = worker[v]
  BY <1>1, <1>2 DEF TypeOK, Die
<1>4. TypeOK'
  BY <1>1, <1>2, ThreadTyped, BoundAssumption DEF BoundAssumption, TypeOK, Die
<1>5. /\ created' + Cardinality(Checking') <= MaxRuns
      /\ \A c \in Clients : ClientOK(c)'
      /\ StartersApart'
  BY <1>1, <1>3, RequestsFrame
<1>6. \A b \in Batches : FileOK(b)'
  BY DEF IInv, FileOK
<1>7. ~(w > created')
  BY <1>1, <1>2, BoundAssumption DEF BoundAssumption, WorkerOK, Thread, TypeOK, Worker
<1>8. ASSUME NEW v \in Worker PROVE WorkerOK(v)'
  <2>1. CASE v = w
    BY <2>1, <1>3, <1>7 DEF WorkerOK, Goal, Thread
  <2>2. CASE v # w
    BY <2>2, <1>2, <1>3, BoundAssumption, WorkerFrame DEF BoundAssumption, TypeOK
  <2>3. QED
    BY <2>1, <2>2
<1>9. OneBatchAtATime'
  <2>1. \A v \in Inside : v = w
    BY <1>1 DEF IInv, OneBatchAtATime
  <2>2. Inside' = {}
    BY <1>3, <2>1 DEF Inside, Thread
  <2>3. QED
    BY <2>2 DEF OneBatchAtATime
<1>10. QED
  BY <1>4, <1>5, <1>6, <1>8, <1>9 DEF IInv

-------------------------------------------------------------------------------
(***************************************************************************)
(* Every step of a worker preserves IInv.                                  *)
(***************************************************************************)

LEMMA LoadIInv ==
  ASSUME IInv, NEW w \in Worker, Load(w)
  PROVE  IInv'
<1> DEFINE b == worker[w].batch
           doc == [batchFile[b] EXCEPT !.status = "RUNNING"]
<1>1. TypeOK /\ WorkerOK(w) /\ worker[w].pc = "load"
  BY DEF IInv, Load
<1>2. b \in Batches /\ batchFile[b] # None /\ worker[w].position = 0
  BY <1>1 DEF WorkerOK
<1>3. batchFile[b] \in BatchDocument /\ Sound(batchFile[b])
  BY <1>1, <1>2 DEF TypeOK, IInv, FileOK
<1>4. doc \in BatchDocument /\ Sound(doc) /\ doc.status = "RUNNING"
  BY <1>3, StatusSound
<1>5. Reached(w, doc, "candidate", 0)
  BY <1>4 DEF Reached
<1>6. w \in Inside
  BY <1>1 DEF Inside
<1>7. SaveAs(w, doc, "candidate")
  BY DEF Load
<1> HIDE DEF doc
<1>8. SaveAt(w, doc, 0, "candidate")
  BY <1>2, <1>7 DEF SaveAs
<1>9. QED
  BY <1>4, <1>5, <1>6, <1>8, SaveIInv, BoundAssumption DEF BoundAssumption, Load

\* What a worker that runs its candidates knows of its copy.
LEMMA RunningCopy ==
  ASSUME IInv, NEW w \in Worker,
         Goal(w) \in {"candidate", "scenario", "simulate"},
         worker[w].pc \in {"candidate", "scenario", "simulate", "publish"}
  PROVE  /\ w \in Inside
         /\ worker[w].doc \in BatchDocument /\ Sound(worker[w].doc)
         /\ worker[w].position \in 0 .. Candidates
         /\ Reached(w, worker[w].doc, Goal(w), worker[w].position)
BY DEF IInv, TypeOK, WorkerState, WorkerOK, Inside

LEMMA CandidateIInv ==
  ASSUME IInv, NEW w \in Worker, Candidate(w)
  PROVE  IInv'
<1> DEFINE doc == worker[w].doc
           p == worker[w].position
           mine == IF p + 1 = 1 THEN <<>> ELSE doc.runs
           next == WithCandidate(doc, mine, w)
<1>1. worker[w].pc = "candidate" /\ p < Candidates /\ Goal(w) = "candidate"
  BY DEF Candidate, Goal
<1>2. /\ w \in Inside
      /\ doc \in BatchDocument /\ Sound(doc) /\ p \in 0 .. Candidates
      /\ Reached(w, doc, "candidate", p)
  BY <1>1, RunningCopy
<1>3. SaveAt(w, next, p + 1, "scenario") /\ UNCHANGED <<disk, registered, lock, client, counts>>
  BY DEF Candidate
<1>4. doc.runs \in Seq(RunRecord)
  BY <1>2, DocumentFields
<1>5. mine \in Seq(RunRecord) /\ Len(mine) = p /\ FinishedBy(mine, w)
  <2>1. CASE p = 0
    <3>1. mine = <<>>
      BY <2>1
    <3>2. QED
      BY <2>1, <3>1, EmptySeq DEF FinishedBy
  <2>2. CASE p > 0
    <3>1. mine = doc.runs
      BY <2>2, <1>2, BoundAssumption DEF BoundAssumption
    <3>2. QED
      BY <2>2, <3>1, <1>2, <1>4 DEF Reached, Sound, FinishedBy
  <2>3. QED
    BY <1>2, <2>1, <2>2
<1>6. Len(mine) < Candidates /\ doc.status = "RUNNING"
  BY <1>1, <1>2, <1>5 DEF Reached
<1> HIDE DEF mine, doc, p
<1>7. /\ next \in BatchDocument /\ Sound(next) /\ next.status = "RUNNING"
      /\ Len(next.runs) = Len(mine) + 1 /\ MadeBy(next.runs, w)
  BY <1>2, <1>5, <1>6, AppendSound
<1> HIDE DEF next
<1>8. p + 1 \in 0 .. Candidates /\ Reached(w, next, "scenario", p + 1)
  BY <1>1, <1>2, <1>5, <1>7, BoundAssumption DEF BoundAssumption, Reached, MadeBy
<1>9. QED
  BY <1>2, <1>3, <1>7, <1>8, SaveIInv

\* A step of the current candidate records how it went.
LEMMA RecordIInv ==
  ASSUME IInv, NEW w \in Worker,
         NEW status, NEW eligible, Outcome(status, eligible),
         NEW label \in {"candidate", "simulate"}, label = "candidate" => status \in Finished,
         Goal(w) \in {"scenario", "simulate"},
         worker[w].pc \in {"scenario", "simulate", "publish"},
         Record(w, status, eligible, label),
         UNCHANGED <<disk, registered, lock, client, counts>>
  PROVE  IInv'
<1> DEFINE doc == worker[w].doc
           p == worker[w].position
           next == WithOutcome(doc, p, status, eligible)
<1>1. /\ w \in Inside
      /\ doc \in BatchDocument /\ Sound(doc) /\ p \in 0 .. Candidates
      /\ Reached(w, doc, Goal(w), p)
  BY RunningCopy
<1>2. SaveAt(w, next, p, label)
  BY DEF Record, SaveAs
<1>3. InRun(doc, w, p) /\ p # 0
  BY <1>1, BoundAssumption DEF BoundAssumption, Reached, MadeBy, InRun
<1>4. next = WithOutcome(doc, p, status, eligible)
  OBVIOUS
<1> HIDE DEF doc, p, next
<1>5. InRun(next, w, p)
  BY <1>3, <1>4, RecordSound
<1>6. status \in Finished => \A i \in 1 .. p : next.runs[i].status \in Finished
  BY <1>3, <1>4, RecordSound
<1>7. Reached(w, next, label, p)
  BY <1>3, <1>5, <1>6 DEF Reached, MadeBy, InRun
<1>8. QED
  BY <1>1, <1>2, <1>5, <1>7, SaveIInv DEF InRun

LEMMA ScenarioIInv ==
  ASSUME IInv, NEW w \in Worker, Scenario(w)
  PROVE  IInv'
<1>1. worker[w].pc = "scenario" /\ Goal(w) = "scenario"
  BY DEF Scenario, Goal
<1>2. CASE Record(w, "SIMULATING", FALSE, "simulate")
  BY <1>1, <1>2, RecordIInv DEF Outcome, Scenario
<1>3. CASE Record(w, "FAILED", FALSE, "candidate")
  BY <1>1, <1>3, RecordIInv DEF Outcome, Scenario, Finished
<1>4. QED
  BY <1>2, <1>3 DEF Scenario

LEMMA SimulateIInv ==
  ASSUME IInv, NEW w \in Worker, Simulate(w)
  PROVE  IInv'
<1>1. worker[w].pc = "simulate" /\ Goal(w) = "simulate"
  BY DEF Simulate, Goal
<1>2. CASE Record(w, "FAILED", FALSE, "candidate")
  BY <1>1, <1>2, RecordIInv DEF Outcome, Simulate, Finished
<1>3. ASSUME NEW eligible \in BOOLEAN, Record(w, "EVALUATED", eligible, "candidate")
      PROVE  IInv'
  BY <1>1, <1>3, RecordIInv DEF Outcome, Simulate, Finished
<1>4. QED
  BY <1>2, <1>3 DEF Simulate

LEMMA RankIInv ==
  ASSUME IInv, NEW w \in Worker, Rank(w)
  PROVE  IInv'
<1> DEFINE doc == worker[w].doc
           p == worker[w].position
<1>1. worker[w].pc = "candidate" /\ p = Candidates /\ Goal(w) = "candidate"
  BY DEF Rank, Goal
<1>2. /\ w \in Inside
      /\ doc \in BatchDocument /\ Sound(doc) /\ p \in 0 .. Candidates
      /\ Reached(w, doc, "candidate", p)
  BY <1>1, RunningCopy
<1>3. Len(doc.runs) = Candidates /\ \A i \in Position : doc.runs[i].status \in Finished
  BY <1>1, <1>2, BoundAssumption DEF BoundAssumption, Reached, Position
<1>4. PICK sel \in Ranked(doc.runs) :
        SaveAt(w, [doc EXCEPT !.selection = sel, !.status = sel.status], p, "exit")
  BY DEF Rank, SaveAs
<1> HIDE DEF doc, p
<1>5. /\ [doc EXCEPT !.selection = sel, !.status = sel.status] \in BatchDocument
      /\ Sound([doc EXCEPT !.selection = sel, !.status = sel.status])
  BY <1>2, <1>3, RankSound
<1>6. QED
  BY <1>2, <1>4, <1>5, SaveIInv DEF Rank

LEMMA WorkerStageIInv ==
  ASSUME IInv, NEW w \in Worker, WorkerStage(w)
  PROVE  IInv'
<1> USE DEF WorkerStage, Stage, counts
<1>1. TypeOK /\ WorkerOK(w) /\ worker[w].pc = "stage"
  BY DEF IInv
<1>2. /\ worker[w].then \in {"candidate", "scenario", "simulate", "exit"}
      /\ worker[w].doc \in BatchDocument /\ Sound(worker[w].doc)
      /\ worker[w].batch \in Batches
  BY <1>1 DEF WorkerOK, Goal, TypeOK, WorkerState
<1>3. /\ worker'[w] = [worker[w] EXCEPT !.pc = "publish"]
      /\ \A v \in Worker \ {w} : worker'[v] = worker[v]
  BY <1>1 DEF TypeOK
<1>4. worker'[w] \in WorkerState
  BY <1>1, <1>3 DEF TypeOK, WorkerState, WorkerLabel
<1>5. TypeOK'
  BY <1>1, <1>2, <1>4 DEF TypeOK
<1>6. /\ created' + Cardinality(Checking') <= MaxRuns
      /\ \A c \in Clients : ClientOK(c)'
      /\ StartersApart'
  BY <1>1, <1>3, RequestsFrame
<1>7. \A b \in Batches : FileOK(b)'
  BY <1>1, <1>2 DEF IInv, FileOK, TypeOK
<1>8. ASSUME NEW v \in Worker PROVE WorkerOK(v)'
  <2>1. CASE v = w
    <3>1. /\ worker'[w].pc = "publish" /\ worker'[w].then = worker[w].then
          /\ worker'[w].batch = worker[w].batch /\ worker'[w].doc = worker[w].doc
          /\ worker'[w].position = worker[w].position
      BY <1>1, <1>3 DEF TypeOK, WorkerState
    <3>2. Goal(w)' = Goal(w)
      BY <1>1, <3>1 DEF Goal
    <3>3. ~(w > created)
      BY <1>1 DEF WorkerOK, Thread
    <3>4. QED
      BY <2>1, <1>1, <3>1, <3>2, <3>3 DEF WorkerOK
  <2>2. CASE v # w
    BY <2>2, <1>1, <1>3, BoundAssumption, WorkerFrame DEF BoundAssumption, TypeOK
  <2>3. QED
    BY <2>1, <2>2
<1>9. OneBatchAtATime'
  BY <1>1, <1>3, <1>4 DEF IInv, OneBatchAtATime, Inside, TypeOK, WorkerState
<1>10. QED
  BY <1>5, <1>6, <1>7, <1>8, <1>9 DEF IInv

LEMMA WorkerPublishIInv ==
  ASSUME IInv, NEW w \in Worker, WorkerPublish(w)
  PROVE  IInv'
<1> USE DEF WorkerPublish, CanReplace, Replace, counts
<1> DEFINE b == worker[w].batch
<1>1. TypeOK /\ WorkerOK(w) /\ worker[w].pc = "publish"
  BY DEF IInv
<1>2. /\ worker[w].then \in {"candidate", "scenario", "simulate", "exit"}
      /\ b \in Batches /\ batchTmp[b] \in BatchDocument /\ Sound(batchTmp[b])
  BY <1>1 DEF WorkerOK, TypeOK, IInv, FileOK
<1>3. /\ worker'[w] = [worker[w] EXCEPT !.pc = worker[w].then]
      /\ \A v \in Worker \ {w} : worker'[v] = worker[v]
  BY <1>1 DEF TypeOK
<1>4. worker'[w] \in WorkerState
  BY <1>1, <1>2, <1>3 DEF TypeOK, WorkerState, WorkerLabel
<1>5. TypeOK'
  BY <1>1, <1>2, <1>4 DEF TypeOK
<1>6. \A a \in Batches : batchFile[a] # None => batchFile'[a] # None
  BY <1>1, <1>2 DEF TypeOK
<1>7. /\ created' + Cardinality(Checking') <= MaxRuns
      /\ \A c \in Clients : ClientOK(c)'
      /\ StartersApart'
  BY <1>1, <1>3, <1>6, RequestsFrame
<1>8. \A a \in Batches : FileOK(a)'
  BY <1>1, <1>2 DEF IInv, FileOK, TypeOK
<1>9. ASSUME NEW v \in Worker PROVE WorkerOK(v)'
  <2>1. CASE v = w
    <3>1. /\ worker'[w].pc = worker[w].then /\ worker'[w].then = worker[w].then
          /\ worker'[w].batch = worker[w].batch /\ worker'[w].doc = worker[w].doc
          /\ worker'[w].position = worker[w].position
      BY <1>1, <1>3 DEF TypeOK, WorkerState
    <3>2. Goal(w)' = Goal(w)
      BY <1>1, <1>2, <3>1 DEF Goal
    <3>3. ~(w > created)
      BY <1>1 DEF WorkerOK, Thread
    <3>4. QED
      BY <2>1, <1>1, <1>2, <1>6, <3>1, <3>2, <3>3 DEF WorkerOK
  <2>2. CASE v # w
    BY <2>2, <1>1, <1>3, <1>6, BoundAssumption, WorkerFrame DEF BoundAssumption, TypeOK
  <2>3. QED
    BY <2>1, <2>2
<1>10. OneBatchAtATime'
  BY <1>1, <1>3, <1>4 DEF IInv, OneBatchAtATime, Inside, TypeOK, WorkerState
<1>11. QED
  BY <1>5, <1>7, <1>8, <1>9, <1>10 DEF IInv

LEMMA WorkerSaveFailsIInv ==
  ASSUME IInv, NEW w \in Worker, WorkerSaveFails(w)
  PROVE  IInv'
<1>1. TypeOK /\ WorkerOK(w) /\ worker[w].pc = "publish" /\ Goal(w) = worker[w].then
  BY DEF IInv, WorkerSaveFails, Goal
<1>2. /\ w \in Inside /\ worker[w].position \in 0 .. Candidates
      /\ worker[w].doc \in BatchDocument /\ Sound(worker[w].doc)
  BY <1>1 DEF Inside, WorkerOK, TypeOK, WorkerState
<1>3. CASE Die(w)
  BY <1>2, <1>3, DieIInv DEF WorkerSaveFails
<1>4. CASE /\ worker[w].then = "simulate" /\ Record(w, "FAILED", FALSE, "candidate")
           /\ UNCHANGED lock
  BY <1>1, <1>4, RecordIInv DEF WorkerSaveFails, Outcome, Finished
<1>5. CASE /\ SaveAs(w, [worker[w].doc EXCEPT !.status = "SYSTEM_ERROR"], "exit")
           /\ UNCHANGED lock
  <2> DEFINE doc == [worker[w].doc EXCEPT !.status = "SYSTEM_ERROR"]
  <2>1. doc \in BatchDocument /\ Sound(doc)
    BY <1>2, StatusSound
  <2>2. SaveAt(w, doc, worker[w].position, "exit")
    BY <1>5 DEF SaveAs
  <2> HIDE DEF doc
  <2>3. QED
    BY <1>2, <1>5, <2>1, <2>2, SaveIInv DEF WorkerSaveFails
<1>6. QED
  BY <1>3, <1>4, <1>5 DEF WorkerSaveFails

LEMMA ExitIInv ==
  ASSUME IInv, NEW w \in Worker, Exit(w)
  PROVE  IInv'
BY DieIInv DEF Exit, Inside

LEMMA AcquireIInv ==
  ASSUME IInv, NEW w \in Worker, Acquire(w)
  PROVE  IInv'
<1> USE DEF Acquire, disk, counts
<1>1. TypeOK /\ WorkerOK(w) /\ worker[w].pc = "queued"
  BY DEF IInv
<1>2. /\ worker'[w] = [worker[w] EXCEPT !.pc = "load"]
      /\ \A v \in Worker \ {w} : worker'[v] = worker[v]
  BY <1>1 DEF TypeOK
<1>3. worker'[w] \in WorkerState
  BY <1>1, <1>2 DEF TypeOK, WorkerState, WorkerLabel
<1>4. TypeOK'
  BY <1>1, <1>3, BoundAssumption DEF BoundAssumption, TypeOK, Worker
<1>5. /\ created' + Cardinality(Checking') <= MaxRuns
      /\ \A c \in Clients : ClientOK(c)'
      /\ StartersApart'
  BY <1>1, <1>2, RequestsFrame
<1>6. \A b \in Batches : FileOK(b)'
  BY DEF IInv, FileOK
<1>7. /\ worker'[w].pc = "load" /\ worker'[w].batch = worker[w].batch
      /\ worker'[w].position = worker[w].position
  BY <1>1, <1>2 DEF TypeOK, WorkerState
<1>8. ASSUME NEW v \in Worker PROVE WorkerOK(v)'
  <2>1. CASE v = w
    <3>1. ~(w > created)
      BY <1>1 DEF WorkerOK, Thread
    <3>2. QED
      BY <2>1, <1>1, <1>7, <3>1 DEF WorkerOK, Goal
  <2>2. CASE v # w
    BY <2>2, <1>1, <1>2, BoundAssumption, WorkerFrame DEF BoundAssumption, TypeOK
  <2>3. QED
    BY <2>1, <2>2
<1>9. OneBatchAtATime'
  <2>1. Inside = {}
    BY <1>1, BoundAssumption DEF BoundAssumption, IInv, OneBatchAtATime, Inside, Worker
  <2>2. QED
    BY <1>2, <2>1 DEF OneBatchAtATime, Inside
<1>10. QED
  BY <1>4, <1>5, <1>6, <1>8, <1>9 DEF IInv

-------------------------------------------------------------------------------
(***************************************************************************)
(* Every step of a request preserves IInv.                                 *)
(***************************************************************************)

\* A request goes on; the worker threads are left alone.
LEMMA RequestIInv ==
  ASSUME IInv, NEW c \in Clients, NEW state \in ClientState,
         client' = [client EXCEPT ![c] = state], UNCHANGED <<lock, worker, counts>>,
         registered' \in [Batches -> 0 .. MaxRuns],
         batchFile' \in [Batches -> BatchDocument \cup {None}],
         batchTmp' \in [Batches -> BatchDocument \cup {None}],
         \A b \in Batches : batchFile[b] # None => batchFile'[b] # None,
         \A b \in Batches : FileOK(b)',
         created' + Cardinality(Checking') <= MaxRuns,
         state.pc # "idle" => /\ state.batch \in Batches /\ batchFile'[state.batch] # None
                              /\ state.doc # None /\ Sound(state.doc),
         state.pc \in {"runStage", "runPublish", "runRegister", "runStart"} =>
           Starting(c) /\ state.thread = client[c].thread /\ state.batch = client[c].batch
  PROVE  IInv'
<1> USE DEF counts
<1>1. TypeOK'
  BY DEF IInv, TypeOK
<1>2. client'[c] = state /\ \A d \in Clients \ {c} : client'[d] = client[d]
  BY DEF IInv, TypeOK
<1>3. created \in Int
  BY BoundAssumption DEF BoundAssumption, IInv, TypeOK
<1>4. ASSUME NEW d \in Clients PROVE ClientOK(d)'
  <2>1. CASE d = c
    <3>1. ClientOK(c)
      BY DEF IInv
    <3>2. QED
      BY <2>1, <3>1, <1>2 DEF ClientOK, Starting
  <2>2. CASE d # c
    BY <2>2, <1>2, <1>3, ClientFrame
  <2>3. QED
    BY <2>1, <2>2
<1>5. \A d \in Clients : Starting(d)' => Starting(d) /\ client'[d].thread = client[d].thread
  BY <1>2 DEF Starting
<1>6. StartersApart'
  BY <1>5 DEF IInv, StartersApart
<1>7. ASSUME NEW v \in Worker PROVE WorkerOK(v)'
  BY <1>3, WorkerFrame
<1>8. OneBatchAtATime'
  BY DEF IInv, OneBatchAtATime, Inside
<1>9. QED
  BY <1>1, <1>4, <1>6, <1>7, <1>8 DEF IInv

\* A request is answered, or starts reading, without touching the files.
LEMMA FilesAlone ==
  ASSUME IInv, UNCHANGED disk
  PROVE  /\ batchFile' \in [Batches -> BatchDocument \cup {None}]
         /\ batchTmp' \in [Batches -> BatchDocument \cup {None}]
         /\ \A b \in Batches : batchFile[b] # None => batchFile'[b] # None
         /\ \A b \in Batches : FileOK(b)'
BY DEF disk, IInv, TypeOK, FileOK

LEMMA StageFiles ==
  ASSUME IInv, NEW b \in Batches, NEW doc \in BatchDocument, Sound(doc), Stage(b, doc)
  PROVE  /\ batchFile' \in [Batches -> BatchDocument \cup {None}]
         /\ batchTmp' \in [Batches -> BatchDocument \cup {None}]
         /\ \A a \in Batches : batchFile[a] # None => batchFile'[a] # None
         /\ \A a \in Batches : FileOK(a)'
BY DEF Stage, IInv, TypeOK, FileOK

LEMMA ReplaceFiles ==
  ASSUME IInv, NEW b \in Batches, CanReplace(b), Replace(b)
  PROVE  /\ batchFile' \in [Batches -> BatchDocument \cup {None}]
         /\ batchTmp' \in [Batches -> BatchDocument \cup {None}]
         /\ \A a \in Batches : batchFile[a] # None => batchFile'[a] # None
         /\ \A a \in Batches : FileOK(a)'
BY DEF CanReplace, Replace, IInv, TypeOK, FileOK

\* What a request in progress holds.
LEMMA RequestState ==
  ASSUME IInv, NEW c \in Clients, client[c].pc # "idle"
  PROVE  /\ client[c] \in ClientState
         /\ client[c].batch \in Batches /\ batchFile[client[c].batch] # None
         /\ client[c].doc \in BatchDocument /\ Sound(client[c].doc)
BY DEF IInv, TypeOK, ClientState, ClientOK

\* A request ends; its check, if it was at it, frees its reservation.
LEMMA AnswerIInv ==
  ASSUME IInv, NEW c \in Clients, client' = [client EXCEPT ![c] = NoRequest],
         UNCHANGED <<registered, lock, worker, counts>>,
         batchFile' \in [Batches -> BatchDocument \cup {None}],
         batchTmp' \in [Batches -> BatchDocument \cup {None}],
         \A b \in Batches : batchFile[b] # None => batchFile'[b] # None,
         \A b \in Batches : FileOK(b)'
  PROVE  IInv'
<1>1. Checking' = Checking \ {c}
  BY DEF IInv, TypeOK, Checking, NoRequest
<1>2. /\ IsFiniteSet(Checking \ {c})
      /\ Cardinality(Checking \ {c}) =
           IF c \in Checking THEN Cardinality(Checking) - 1 ELSE Cardinality(Checking)
  BY CheckingCount, FS_RemoveElement, Zenon
<1>3. created' + Cardinality(Checking') <= MaxRuns
  <2>1. Cardinality(Checking) \in Nat
    BY CheckingCount
  <2>2. created \in Int /\ created' = created /\ MaxRuns \in Nat
    BY BoundAssumption DEF BoundAssumption, IInv, TypeOK, counts
  <2>3. created + Cardinality(Checking) <= MaxRuns
    BY DEF IInv
  <2>4. created + Cardinality(Checking \ {c}) <= MaxRuns
    BY <1>2, <2>1, <2>2, <2>3
  <2>5. QED
    BY <1>1, <2>2, <2>4
<1>4. registered' \in [Batches -> 0 .. MaxRuns]
  BY DEF IInv, TypeOK
<1>5. QED
  BY <1>3, <1>4, NoRequestTyped, RequestIInv DEF NoRequest

LEMMA RunStageIInv ==
  ASSUME IInv, NEW c \in Clients, RunStage(c)
  PROVE  IInv'
<1> DEFINE state == [client[c] EXCEPT !.pc = "runPublish"]
<1>1. client[c].pc = "runStage" /\ Stage(client[c].batch, client[c].doc)
  BY DEF RunStage
<1>2. /\ client[c] \in ClientState
      /\ client[c].batch \in Batches /\ batchFile[client[c].batch] # None
      /\ client[c].doc \in BatchDocument /\ Sound(client[c].doc)
  BY <1>1, RequestState
<1>3. /\ batchFile' \in [Batches -> BatchDocument \cup {None}]
      /\ batchTmp' \in [Batches -> BatchDocument \cup {None}]
      /\ \A a \in Batches : batchFile[a] # None => batchFile'[a] # None
      /\ \A a \in Batches : FileOK(a)'
  BY <1>1, <1>2, StageFiles
<1>4. /\ state \in ClientState /\ state.pc = "runPublish" /\ state.batch = client[c].batch
      /\ state.doc = client[c].doc /\ state.thread = client[c].thread
  BY <1>2 DEF ClientState, ClientLabel
<1>5. client' = [client EXCEPT ![c] = state]
  BY DEF RunStage
<1>6. created' + Cardinality(Checking') <= MaxRuns
  BY <1>1, <1>4, <1>5, CheckingFrame DEF RunStage, counts, IInv, TypeOK
<1>7. registered' \in [Batches -> 0 .. MaxRuns]
  BY DEF RunStage, IInv, TypeOK
<1> HIDE DEF state
<1>8. Starting(c) /\ state.doc # None
  BY <1>1, <1>2, <1>4, AbsentAssumption DEF AbsentAssumption, Starting
<1>9. UNCHANGED <<lock, worker, counts>>
  BY DEF RunStage
<1>10. QED
  BY <1>2, <1>3, <1>4, <1>5, <1>6, <1>7, <1>8, <1>9, RequestIInv

LEMMA RunPublishIInv ==
  ASSUME IInv, NEW c \in Clients, RunPublish(c)
  PROVE  IInv'
<1> DEFINE state == [client[c] EXCEPT !.pc = "runRegister"]
<1>1. client[c].pc = "runPublish" /\ UNCHANGED <<registered, lock, worker, counts>>
  BY DEF RunPublish
<1>2. /\ client[c] \in ClientState
      /\ client[c].batch \in Batches /\ batchFile[client[c].batch] # None
      /\ client[c].doc \in BatchDocument /\ Sound(client[c].doc)
  BY <1>1, RequestState
<1>3. CASE ~CanReplace(client[c].batch)
  BY <1>1, <1>3, FilesAlone, AnswerIInv DEF RunPublish
<1>4. CASE CanReplace(client[c].batch)
  <2>1. client' = [client EXCEPT ![c] = state] /\ Replace(client[c].batch)
    BY <1>4 DEF RunPublish
  <2>2. /\ batchFile' \in [Batches -> BatchDocument \cup {None}]
        /\ batchTmp' \in [Batches -> BatchDocument \cup {None}]
        /\ \A a \in Batches : batchFile[a] # None => batchFile'[a] # None
        /\ \A a \in Batches : FileOK(a)'
    BY <1>2, <1>4, <2>1, ReplaceFiles
  <2>3. /\ state \in ClientState /\ state.pc = "runRegister" /\ state.batch = client[c].batch
        /\ state.doc = client[c].doc /\ state.thread = client[c].thread
    BY <1>2 DEF ClientState, ClientLabel
  <2>4. created' + Cardinality(Checking') <= MaxRuns
    BY <1>1, <2>1, <2>3, CheckingFrame DEF counts, IInv, TypeOK
  <2>5. registered' \in [Batches -> 0 .. MaxRuns]
    BY <1>1 DEF IInv, TypeOK
  <2> HIDE DEF state
  <2>6. Starting(c) /\ state.doc # None
    BY <1>1, <1>2, <2>3, AbsentAssumption DEF AbsentAssumption, Starting
  <2>7. QED
    BY <1>1, <1>2, <2>1, <2>2, <2>3, <2>4, <2>5, <2>6, RequestIInv
<1>5. QED
  BY <1>3, <1>4

LEMMA RunRegisterIInv ==
  ASSUME IInv, NEW c \in Clients, RunRegister(c)
  PROVE  IInv'
<1> DEFINE state == [client[c] EXCEPT !.pc = "runStart"]
<1>1. /\ client[c].pc = "runRegister" /\ client' = [client EXCEPT ![c] = state]
      /\ UNCHANGED disk /\ UNCHANGED <<lock, worker, counts>>
      /\ registered' = [registered EXCEPT ![client[c].batch] = client[c].thread]
  BY DEF RunRegister
<1>2. /\ client[c] \in ClientState
      /\ client[c].batch \in Batches /\ batchFile[client[c].batch] # None
      /\ client[c].doc \in BatchDocument /\ Sound(client[c].doc)
  BY <1>1, RequestState
<1>3. /\ state \in ClientState /\ state.pc = "runStart" /\ state.batch = client[c].batch
      /\ state.doc = client[c].doc /\ state.thread = client[c].thread
  BY <1>2 DEF ClientState, ClientLabel
<1>4. created' + Cardinality(Checking') <= MaxRuns
  BY <1>1, <1>3, CheckingFrame DEF counts, IInv, TypeOK
<1>5. registered' \in [Batches -> 0 .. MaxRuns]
  BY <1>1, <1>2 DEF IInv, TypeOK, ClientState
<1>6. /\ batchFile' \in [Batches -> BatchDocument \cup {None}]
      /\ batchTmp' \in [Batches -> BatchDocument \cup {None}]
      /\ \A a \in Batches : batchFile[a] # None => batchFile'[a] # None
      /\ \A a \in Batches : FileOK(a)'
  BY <1>1, FilesAlone
<1> HIDE DEF state
<1>7. Starting(c) /\ state.doc # None
  BY <1>1, <1>2, <1>3, AbsentAssumption DEF AbsentAssumption, Starting
<1>8. QED
  BY <1>1, <1>2, <1>3, <1>4, <1>5, <1>6, <1>7, RequestIInv

\* The request is the only one that starts its thread.
LEMMA RunStartIInv ==
  ASSUME IInv, NEW c \in Clients, RunStart(c)
  PROVE  IInv'
<1> DEFINE w == client[c].thread
<1> USE DEF RunStart, disk, counts
<1>1. TypeOK /\ Starting(c) /\ ClientOK(c)
  BY DEF IInv, Starting
<1>2. w \in Worker /\ ~(w > created) /\ worker[w].pc = "new" /\ created <= MaxRuns
  BY <1>1, BoundAssumption DEF BoundAssumption, ClientOK, TypeOK, Worker
<1> HIDE DEF w
<1>3. worker' = [worker EXCEPT ![w].pc = "queued"]
  BY DEF w
<1>4. /\ worker'[w] = [worker[w] EXCEPT !.pc = "queued"]
      /\ \A v \in Worker \ {w} : worker'[v] = worker[v]
  BY <1>1, <1>2, <1>3 DEF TypeOK
<1>5. /\ worker'[w] \in WorkerState /\ worker'[w].pc = "queued"
      /\ worker'[w].batch = worker[w].batch /\ worker'[w].position = worker[w].position
  BY <1>1, <1>2, <1>4 DEF TypeOK, WorkerState, WorkerLabel
<1>6. TypeOK'
  BY <1>1, <1>2, <1>3, <1>5, NoRequestTyped DEF TypeOK
<1>7. /\ client'[c] = NoRequest
      /\ \A d \in Clients \ {c} : client'[d] = client[d]
  BY <1>1 DEF TypeOK
<1>8. created' + Cardinality(Checking') <= MaxRuns
  BY <1>7, CheckingFrame DEF NoRequest
<1>9. \A b \in Batches : FileOK(b)'
  BY DEF IInv, FileOK
<1>10. ASSUME NEW d \in Clients PROVE ClientOK(d)'
  <2>1. CASE d = c
    BY <2>1, <1>7 DEF ClientOK, NoRequest, Starting
  <2>2. CASE d # c
    <3>1. ClientOK(d)
      BY DEF IInv
    <3>2. Starting(d) => client[d].thread # w
      BY <2>2, <1>1 DEF w, IInv, StartersApart
    <3>3. Starting(d) => client[d].thread \in Worker
      BY <3>1, <1>1, <1>2, BoundAssumption DEF BoundAssumption, ClientOK, TypeOK, Worker
    <3>4. Starting(d) => worker'[client[d].thread] = worker[client[d].thread]
      BY <3>2, <3>3, <1>4
    <3>5. QED
      BY <2>2, <3>4, <1>1, <1>7, BoundAssumption, ClientFrame DEF BoundAssumption, TypeOK
  <2>3. QED
    BY <2>1, <2>2
<1>11. StartersApart'
  BY <1>7 DEF IInv, StartersApart, Starting, NoRequest
<1>12. ASSUME NEW v \in Worker PROVE WorkerOK(v)'
  <2>1. CASE v = w
    <3>1. WorkerOK(w)
      BY <1>2 DEF IInv
    <3>2. QED
      BY <2>1, <3>1, <1>2, <1>5 DEF WorkerOK, Goal
  <2>2. CASE v # w
    BY <2>2, <1>1, <1>4, BoundAssumption, WorkerFrame DEF BoundAssumption, TypeOK
  <2>3. QED
    BY <2>1, <2>2
<1>13. OneBatchAtATime'
  BY <1>4, <1>5 DEF IInv, OneBatchAtATime, Inside
<1>14. QED
  BY <1>6, <1>8, <1>9, <1>10, <1>11, <1>12, <1>13 DEF IInv

LEMMA GetLoadIInv ==
  ASSUME IInv, NEW c \in Clients, NEW b \in Batches, GetLoad(c, b)
  PROVE  IInv'
<1> DEFINE state == IF batchFile[b].status \in Active
                    THEN [pc |-> "getCheck", batch |-> b, doc |-> batchFile[b], thread |-> 0]
                    ELSE client[c]
<1>1. /\ client[c].pc = "idle" /\ UNCHANGED disk
      /\ UNCHANGED <<registered, lock, worker, counts>>
      /\ batchFile[b] \in BatchDocument /\ Sound(batchFile[b]) /\ client[c] \in ClientState
  BY DEF GetLoad, IInv, TypeOK, FileOK
<1>2. client' = [client EXCEPT ![c] = state]
  BY DEF GetLoad, IInv, TypeOK
<1>3. /\ state \in ClientState
      /\ state.pc = "idle" \/ state.pc = "getCheck"
      /\ state.pc # "idle" => state.batch = b /\ state.doc = batchFile[b]
  BY <1>1, BoundAssumption DEF BoundAssumption, ClientState, ClientLabel
<1> HIDE DEF state
<1>4. created' + Cardinality(Checking') <= MaxRuns
  BY <1>1, <1>2, <1>3, CheckingFrame DEF counts, IInv, TypeOK
<1>5. registered' \in [Batches -> 0 .. MaxRuns]
  BY <1>1 DEF IInv, TypeOK
<1>6. /\ batchFile' \in [Batches -> BatchDocument \cup {None}]
      /\ batchTmp' \in [Batches -> BatchDocument \cup {None}]
      /\ \A a \in Batches : batchFile[a] # None => batchFile'[a] # None
      /\ \A a \in Batches : FileOK(a)'
  BY <1>1, FilesAlone
<1>7. state.pc # "idle" => /\ state.batch \in Batches /\ batchFile'[state.batch] # None
                           /\ state.doc # None /\ Sound(state.doc)
  BY <1>1, <1>3, <1>6, AbsentAssumption DEF AbsentAssumption
<1>8. QED
  BY <1>1, <1>2, <1>3, <1>4, <1>5, <1>6, <1>7, RequestIInv

LEMMA GetCheckIInv ==
  ASSUME IInv, NEW c \in Clients, GetCheck(c)
  PROVE  IInv'
<1> DEFINE doc == [client[c].doc EXCEPT !.status = "SYSTEM_ERROR"]
           state == [pc |-> "getStage", batch |-> client[c].batch, thread |-> 0, doc |-> doc]
<1>1. /\ client[c].pc = "getCheck" /\ UNCHANGED disk
      /\ UNCHANGED <<registered, lock, worker, counts>>
  BY DEF GetCheck
<1>2. CASE client' = [client EXCEPT ![c] = NoRequest]
  BY <1>1, <1>2, FilesAlone, AnswerIInv
<1>3. CASE client' = [client EXCEPT ![c] = state]
  <2>1. /\ client[c].batch \in Batches /\ batchFile[client[c].batch] # None
        /\ client[c].doc \in BatchDocument /\ Sound(client[c].doc)
    BY <1>1, RequestState
  <2>2. doc \in BatchDocument /\ Sound(doc)
    BY <2>1, StatusSound
  <2> HIDE DEF doc
  <2>3. /\ state \in ClientState /\ state.pc = "getStage"
        /\ state.batch = client[c].batch /\ state.doc = doc
    BY <2>1, <2>2, BoundAssumption DEF BoundAssumption, ClientState, ClientLabel
  <2>4. created' + Cardinality(Checking') <= MaxRuns
    BY <1>1, <1>3, CheckingFrame DEF counts, IInv, TypeOK
  <2> HIDE DEF state
  <2>5. registered' \in [Batches -> 0 .. MaxRuns]
    BY <1>1 DEF IInv, TypeOK
  <2>6. /\ batchFile' \in [Batches -> BatchDocument \cup {None}]
        /\ batchTmp' \in [Batches -> BatchDocument \cup {None}]
        /\ \A a \in Batches : batchFile[a] # None => batchFile'[a] # None
        /\ \A a \in Batches : FileOK(a)'
    BY <1>1, FilesAlone
  <2>7. state.doc # None
    BY <2>2, <2>3, AbsentAssumption DEF AbsentAssumption
  <2>8. QED
    BY <1>1, <1>3, <2>1, <2>2, <2>3, <2>4, <2>5, <2>6, <2>7, RequestIInv
<1>4. QED
  BY <1>2, <1>3 DEF GetCheck

LEMMA GetStageIInv ==
  ASSUME IInv, NEW c \in Clients, GetStage(c)
  PROVE  IInv'
<1> DEFINE state == [client[c] EXCEPT !.pc = "getPublish"]
<1>1. /\ client[c].pc = "getStage" /\ Stage(client[c].batch, client[c].doc)
      /\ client' = [client EXCEPT ![c] = state]
      /\ UNCHANGED <<registered, lock, worker, counts>>
  BY DEF GetStage
<1>2. /\ client[c] \in ClientState
      /\ client[c].batch \in Batches /\ batchFile[client[c].batch] # None
      /\ client[c].doc \in BatchDocument /\ Sound(client[c].doc)
  BY <1>1, RequestState
<1>3. /\ batchFile' \in [Batches -> BatchDocument \cup {None}]
      /\ batchTmp' \in [Batches -> BatchDocument \cup {None}]
      /\ \A a \in Batches : batchFile[a] # None => batchFile'[a] # None
      /\ \A a \in Batches : FileOK(a)'
  BY <1>1, <1>2, StageFiles
<1>4. /\ state \in ClientState /\ state.pc = "getPublish" /\ state.batch = client[c].batch
      /\ state.doc = client[c].doc
  BY <1>2 DEF ClientState, ClientLabel
<1>5. created' + Cardinality(Checking') <= MaxRuns
  BY <1>1, <1>4, CheckingFrame DEF counts, IInv, TypeOK
<1>6. registered' \in [Batches -> 0 .. MaxRuns]
  BY <1>1 DEF IInv, TypeOK
<1> HIDE DEF state
<1>7. state.doc # None
  BY <1>2, <1>4, AbsentAssumption DEF AbsentAssumption
<1>8. QED
  BY <1>1, <1>2, <1>3, <1>4, <1>5, <1>6, <1>7, RequestIInv

LEMMA GetPublishIInv ==
  ASSUME IInv, NEW c \in Clients, GetPublish(c)
  PROVE  IInv'
<1>1. /\ client[c].pc = "getPublish" /\ client' = [client EXCEPT ![c] = NoRequest]
      /\ UNCHANGED <<registered, lock, worker, counts>>
  BY DEF GetPublish
<1>2. client[c].batch \in Batches
  BY <1>1, RequestState
<1>3. CASE CanReplace(client[c].batch)
  BY <1>1, <1>2, <1>3, ReplaceFiles, AnswerIInv DEF GetPublish
<1>4. CASE ~CanReplace(client[c].batch)
  BY <1>1, <1>4, FilesAlone, AnswerIInv DEF GetPublish
<1>5. QED
  BY <1>3, <1>4

LEMMA RunLoadIInv ==
  ASSUME IInv, NEW c \in Clients, NEW b \in Batches, RunLoad(c, b)
  PROVE  IInv'
<1> DEFINE state == [pc |-> "runCheck", batch |-> b, doc |-> batchFile[b], thread |-> 0]
<1>1. /\ client[c].pc = "idle" /\ UNCHANGED disk
      /\ UNCHANGED <<registered, lock, worker, counts>>
      /\ client' = [client EXCEPT ![c] = state]
      /\ batchFile[b] \in BatchDocument /\ Sound(batchFile[b])
  BY DEF RunLoad, IInv, TypeOK, FileOK
<1>2. /\ state \in ClientState /\ state.pc = "runCheck" /\ state.batch = b
      /\ state.doc = batchFile[b]
  BY <1>1, BoundAssumption DEF BoundAssumption, ClientState, ClientLabel
<1> HIDE DEF state
<1>3. Checking' = Checking \cup {c} /\ c \notin Checking
  BY <1>1, <1>2 DEF IInv, TypeOK, Checking
<1>4. Cardinality(Checking \cup {c}) = Cardinality(Checking) + 1
  BY <1>3, CheckingCount, FS_AddElement, Zenon
<1>5. created' + Cardinality(Checking') <= MaxRuns
  <2>1. created + Cardinality(Checking) < MaxRuns
    BY DEF RunLoad, ThreadLeft, Checking
  <2>2. created \in Int /\ created' = created /\ MaxRuns \in Nat
    BY <1>1, BoundAssumption DEF BoundAssumption, IInv, TypeOK, counts
  <2>3. Cardinality(Checking) \in Nat
    BY CheckingCount
  <2>4. created + Cardinality(Checking \cup {c}) <= MaxRuns
    BY <1>4, <2>1, <2>2, <2>3
  <2>5. QED
    BY <1>3, <2>2, <2>4
<1>6. registered' \in [Batches -> 0 .. MaxRuns]
  BY <1>1 DEF IInv, TypeOK
<1>7. /\ batchFile' \in [Batches -> BatchDocument \cup {None}]
      /\ batchTmp' \in [Batches -> BatchDocument \cup {None}]
      /\ \A a \in Batches : batchFile[a] # None => batchFile'[a] # None
      /\ \A a \in Batches : FileOK(a)'
  BY <1>1, FilesAlone
<1>8. state.doc # None /\ batchFile[b] # None
  BY <1>1, <1>2, AbsentAssumption DEF AbsentAssumption
<1>9. QED
  BY <1>1, <1>2, <1>5, <1>6, <1>7, <1>8, RequestIInv

\* A request that is not answered at once creates its thread.
LEMMA CreateIInv ==
  ASSUME IInv, NEW c \in Clients, RunCheck(c), created' = created + 1
  PROVE  IInv'
<1> DEFINE w == created + 1
           b == client[c].batch
           doc == [client[c].doc EXCEPT !.status = "QUEUED"]
           state == [pc |-> "runStage", batch |-> b, thread |-> w, doc |-> doc]
<1>1. TypeOK /\ client[c].pc = "runCheck"
  BY DEF IInv, RunCheck
<1>2. /\ created \in Nat /\ created <= MaxRuns /\ MaxRuns \in Nat
  BY <1>1, BoundAssumption DEF BoundAssumption, TypeOK
<1>3. /\ worker' = [worker EXCEPT ![w].pc = "new", ![w].batch = b]
      /\ client' = [client EXCEPT ![c] = state]
      /\ UNCHANGED <<disk, registered, lock, restarts>>
  BY <1>2 DEF RunCheck
<1>4. /\ b \in Batches /\ batchFile[b] # None
      /\ client[c].doc \in BatchDocument /\ Sound(client[c].doc)
  BY <1>1, RequestState
<1>5. doc \in BatchDocument /\ Sound(doc) /\ doc # None
  BY <1>4, StatusSound, AbsentAssumption DEF AbsentAssumption
<1>6. /\ IsFiniteSet(Checking) /\ Cardinality(Checking) \in Nat
      /\ IsFiniteSet(Checking \ {c})
      /\ Cardinality(Checking \ {c}) = Cardinality(Checking) - 1
  <2>1. c \in Checking
    BY <1>1 DEF Checking
  <2>2. QED
    BY <2>1, CheckingCount, FS_RemoveElement, Zenon
<1>7. Cardinality(Checking \ {c}) \in Nat
  BY <1>6, FS_CardinalityType, Zenon
<1>8. /\ w \in Worker /\ w \in 1 .. MaxRuns
      /\ created + 1 + Cardinality(Checking \ {c}) <= MaxRuns
  BY <1>2, <1>6, <1>7 DEF IInv, Worker
<1>9. worker[w] = Thread("unborn")
  BY <1>2, <1>8 DEF IInv, WorkerOK
<1>10. /\ worker'[w].pc = "new" /\ worker'[w].batch = b /\ worker'[w].position = 0
       /\ worker'[w] \in WorkerState
       /\ \A v \in Worker \ {w} : worker'[v] = worker[v]
  BY <1>1, <1>3, <1>4, <1>8, <1>9, BoundAssumption
     DEF BoundAssumption, TypeOK, Thread, WorkerState, WorkerLabel
<1> HIDE DEF doc
<1>11. state \in ClientState /\ state.thread = w
  BY <1>4, <1>5, <1>8, <1>2 DEF ClientState, ClientLabel
<1>12. /\ client'[c] = state
       /\ \A d \in Clients \ {c} : client'[d] = client[d]
  BY <1>1, <1>3 DEF TypeOK
<1>13. TypeOK'
  <2>1. client' \in [Clients -> ClientState]
    BY <1>1, <1>3, <1>11 DEF TypeOK
  <2>2. worker' \in [Worker -> WorkerState]
    BY <1>1, <1>3, <1>8, <1>10 DEF TypeOK
  <2>3. created' \in 0 .. MaxRuns
    BY <1>2, <1>8
  <2>4. QED
    BY <1>1, <1>3, <2>1, <2>2, <2>3 DEF TypeOK, disk
<1>14. /\ batchFile' = batchFile /\ created \in Int /\ created' \in Int
       /\ created <= created' /\ w \in 1 .. created' /\ ~(w > created')
  BY <1>2, <1>3 DEF disk
<1>15. created' + Cardinality(Checking') <= MaxRuns
  <2>1. Checking' = Checking \ {c}
    BY <1>12 DEF Checking
  <2>2. QED
    BY <1>8, <2>1
<1>16. \A a \in Batches : FileOK(a)'
  BY <1>3 DEF IInv, FileOK, disk
<1>17. /\ state.batch = b /\ state.doc = doc /\ state.thread = w
  OBVIOUS
<1> HIDE DEF state, w, b
<1>18. ASSUME NEW d \in Clients PROVE ClientOK(d)'
  <2>1. CASE d = c
    BY <2>1, <1>4, <1>5, <1>10, <1>12, <1>14, <1>17 DEF ClientOK
  <2>2. CASE d # c
    <3>1. ClientOK(d)
      BY DEF IInv
    <3>2. Starting(d) => client[d].thread \in Worker /\ client[d].thread # w
      BY <3>1, <1>2 DEF ClientOK, Worker, w
    <3>3. Starting(d) => worker'[client[d].thread] = worker[client[d].thread]
      BY <3>2, <1>10
    <3>4. QED
      BY <2>2, <3>3, <1>12, <1>14, ClientFrame
  <2>3. QED
    BY <2>1, <2>2
<1>19. StartersApart'
  <2>1. \A d \in Clients : Starting(d) => client[d].thread # w
    BY <1>2 DEF IInv, ClientOK, w
  <2>2. \A d \in Clients \ {c} : Starting(d)' => Starting(d)
    BY <1>12 DEF Starting
  <2>3. QED
    BY <2>1, <2>2, <1>12, <1>17 DEF IInv, StartersApart
<1>20. ASSUME NEW v \in Worker PROVE WorkerOK(v)'
  <2>1. CASE v = w
    BY <2>1, <1>4, <1>10, <1>14 DEF WorkerOK, Goal
  <2>2. CASE v # w
    BY <2>2, <1>10, <1>14, WorkerFrame
  <2>3. QED
    BY <2>1, <2>2
<1>21. OneBatchAtATime'
  BY <1>3, <1>10 DEF IInv, OneBatchAtATime, Inside
<1>22. QED
  BY <1>13, <1>15, <1>16, <1>18, <1>19, <1>20, <1>21 DEF IInv

LEMMA RunCheckIInv ==
  ASSUME IInv, NEW c \in Clients, RunCheck(c)
  PROVE  IInv'
<1>1. CASE client' = [client EXCEPT ![c] = NoRequest] /\ UNCHANGED <<worker, created>>
  BY <1>1, FilesAlone, AnswerIInv DEF RunCheck, counts
<1>2. CASE created' = created + 1
  BY <1>2, CreateIInv
<1>3. QED
  BY <1>1, <1>2 DEF RunCheck

-------------------------------------------------------------------------------
(***************************************************************************)
(* The other steps, and the theorems.                                      *)
(***************************************************************************)

LEMMA GenerateIInv ==
  ASSUME IInv, NEW b \in Batches, Generate(b)
  PROVE  IInv'
<1> USE DEF counts
<1>1. PICK status \in {"GENERATED", "GENERATION_FAILED"} :
        batchFile' = [batchFile EXCEPT ![b] = NewBatch(status)]
  BY DEF Generate
<1>2. /\ NewBatch(status) \in BatchDocument /\ Sound(NewBatch(status))
      /\ NewBatch(status) # None
  BY NewBatchSound, AbsentAssumption DEF AbsentAssumption
<1>3. TypeOK /\ UNCHANGED <<batchTmp, registered, lock, worker, client, counts>>
  BY DEF IInv, Generate
<1>4. TypeOK'
  BY <1>1, <1>2, <1>3 DEF TypeOK
<1>5. /\ \A a \in Batches : batchFile[a] # None => batchFile'[a] # None
      /\ \A a \in Batches : FileOK(a)'
  BY <1>1, <1>2, <1>3 DEF IInv, TypeOK, FileOK
<1>6. created \in Int
  BY <1>3, BoundAssumption DEF BoundAssumption, TypeOK
<1>7. ASSUME NEW c \in Clients PROVE ClientOK(c)'
  BY <1>3, <1>5, <1>6, ClientFrame
<1>8. ASSUME NEW w \in Worker PROVE WorkerOK(w)'
  BY <1>3, <1>5, <1>6, WorkerFrame
<1>9. created' + Cardinality(Checking') <= MaxRuns /\ StartersApart' /\ OneBatchAtATime'
  <2>1. Checking' = Checking
    BY <1>3 DEF Checking
  <2>2. QED
    BY <1>3, <2>1 DEF IInv, StartersApart, Starting, OneBatchAtATime, Inside
<1>10. QED
  BY <1>4, <1>5, <1>7, <1>8, <1>9 DEF IInv

LEMMA NoChecking ==
  ASSUME NEW n \in 0 .. MaxRuns
  PROVE  n + Cardinality({}) <= MaxRuns
BY FS_EmptySet, BoundAssumption DEF BoundAssumption

LEMMA RestartIInv ==
  ASSUME IInv, Restart
  PROVE  IInv'
<1> USE DEF Restart, disk
<1>1. TypeOK
  BY DEF IInv
<1>2. created \in 0 .. MaxRuns /\ MaxRuns \in Nat /\ created' = created
  BY <1>1, BoundAssumption DEF BoundAssumption, TypeOK
<1>3. \A w \in Worker : /\ worker'[w] = IF w <= created THEN Thread("dead") ELSE Thread("unborn")
                        /\ worker'[w] \in WorkerState
  BY ThreadTyped
<1>4. TypeOK'
  BY <1>1, <1>2, <1>3, ThreadTyped, NoRequestTyped, BoundAssumption DEF BoundAssumption, TypeOK
<1>5. \A b \in Batches : FileOK(b)'
  BY DEF IInv, FileOK
<1>6. \A c \in Clients : ClientOK(c)'
  BY DEF ClientOK, Starting, NoRequest
<1>7. StartersApart'
  BY DEF StartersApart, Starting, NoRequest
<1>8. created' + Cardinality(Checking') <= MaxRuns
  <2>1. Checking' = {}
    BY DEF Checking, NoRequest
  <2>2. QED
    BY <1>2, <2>1, NoChecking
<1>9. ASSUME NEW w \in Worker PROVE WorkerOK(w)'
  BY <1>2, <1>3 DEF WorkerOK, Goal, Thread, Worker
<1>10. OneBatchAtATime'
  BY <1>3 DEF OneBatchAtATime, Inside, Thread
<1>11. QED
  BY <1>4, <1>5, <1>6, <1>7, <1>8, <1>9, <1>10 DEF IInv

LEMMA InitIInv == Init => IInv
<1> SUFFICES ASSUME Init PROVE IInv
  OBVIOUS
<1> USE DEF Init
<1>1. MaxRuns \in Nat /\ MaxRestarts \in Nat /\ created \in 0 .. MaxRuns
  BY BoundAssumption DEF BoundAssumption
<1>2. TypeOK
  BY <1>1, ThreadTyped, NoRequestTyped DEF TypeOK
<1>3. (\A b \in Batches : FileOK(b)) /\ (\A c \in Clients : ClientOK(c)) /\ StartersApart
  BY DEF FileOK, ClientOK, StartersApart, Starting, NoRequest
<1>4. created + Cardinality(Checking) <= MaxRuns
  <2>1. Checking = {}
    BY DEF Checking, NoRequest
  <2>2. QED
    BY <1>1, <2>1, NoChecking
<1>5. \A w \in Worker : WorkerOK(w)
  BY DEF WorkerOK, Goal, Thread
<1>6. OneBatchAtATime
  BY DEF OneBatchAtATime, Inside, Thread
<1>7. QED
  BY <1>2, <1>3, <1>4, <1>5, <1>6 DEF IInv

LEMMA NextIInv == IInv /\ [Next]_vars => IInv'
<1> SUFFICES ASSUME IInv, [Next]_vars PROVE IInv'
  OBVIOUS
<1>1. ASSUME NEW b \in Batches, Generate(b) PROVE IInv'
  BY <1>1, GenerateIInv
<1>2. ASSUME NEW c \in Clients, Request(c) PROVE IInv'
  BY <1>2, RunLoadIInv, GetLoadIInv DEF Request
<1>3. ASSUME NEW c \in Clients, ClientStep(c) PROVE IInv'
  BY <1>3, RunCheckIInv, RunStageIInv, RunPublishIInv, RunRegisterIInv, RunStartIInv,
     GetCheckIInv, GetStageIInv, GetPublishIInv DEF ClientStep
<1>4. ASSUME NEW w \in Worker, WorkerStep(w) PROVE IInv'
  BY <1>4, AcquireIInv, LoadIInv, CandidateIInv, ScenarioIInv, SimulateIInv, RankIInv,
     WorkerStageIInv, WorkerPublishIInv, WorkerSaveFailsIInv, ExitIInv DEF WorkerStep
<1>5. ASSUME Restart PROVE IInv'
  BY <1>5, RestartIInv
<1>6. ASSUME UNCHANGED vars PROVE IInv'
  <2> USE <1>6 DEF vars, disk, counts
  <2>1. TypeOK' /\ StartersApart' /\ OneBatchAtATime' /\ Checking' = Checking
    BY DEF IInv, TypeOK, StartersApart, Starting, OneBatchAtATime, Inside, Checking
  <2>2. \A b \in Batches : FileOK(b)'
    BY DEF IInv, FileOK
  <2>3. (\A c \in Clients : ClientOK(c)') /\ (\A w \in Worker : WorkerOK(w)')
    BY DEF IInv, ClientOK, Starting, WorkerOK, Goal
  <2>4. QED
    BY <2>1, <2>2, <2>3 DEF IInv
<1>7. QED
  BY <1>1, <1>2, <1>3, <1>4, <1>5, <1>6 DEF Next

\* The state of files, requests and threads is always of its type.
THEOREM StrategyBatchTypeOK == Spec => []TypeOK
<1>1. IInv => TypeOK
  BY DEF IInv
<1>2. QED
  BY <1>1, InitIInv, NextIInv, PTL DEF Spec

\* However many batches are started, by however many requests and around
\* however many restarts, only the holder of STRATEGY_SIMULATION_LOCK runs one.
THEOREM MutualExclusion == Spec => []OneBatchAtATime
<1>1. IInv => OneBatchAtATime
  BY DEF IInv
<1>2. QED
  BY <1>1, InitIInv, NextIInv, PTL DEF Spec

\* No interleaving of two threads of a batch, of a poll that gives the batch
\* up, or of a restart ever mixes the runs of two threads in its file.
THEOREM RunsNeverMixed == Spec => []RunsOfOneThread
<1>1. IInv => RunsOfOneThread
  BY DEF IInv, FileOK, Sound, RunsOfOneThread
<1>2. QED
  BY <1>1, InitIInv, NextIInv, PTL DEF Spec

\* A batch file that says the batch is finished tells the truth about it.
THEOREM FinishedMeansFinished == Spec => []SelectionSound
<1>1. IInv => SelectionSound
  BY DEF IInv, FileOK, Sound, SelectionSound
<1>2. QED
  BY <1>1, InitIInv, NextIInv, PTL DEF Spec

===============================================================================
