-------------------------- MODULE TRTRelease_proofs --------------------------
(***************************************************************************)
(* Proofs about TRTRelease for any number of handlers, releases, versions, *)
(* requests and restarts.  IInv is inductive; TypeOK, DecisionAudited and  *)
(* AuditImmutable follow from it.  GateInv, on top of it, follows the      *)
(* audit id that is stamped on a document from the firewall to the files   *)
(* and gives AppliedToItsBase.  SequentialInv, on top of both, is about    *)
(* requests that are served one at a time, and gives PointerLag,           *)
(* BaseIsPredecessor, UnauditedOnlyByRestart, TurnedDownOnlyByRestart,     *)
(* NothingTorn and the refinement of TRTLedger.  Overlapping handlers      *)
(* break them (the run TRTRelease_lost_edit shows it for                   *)
(* BaseIsPredecessor), so Sequential is a hypothesis of each.  Every       *)
(* action has a lemma with one step per conjunct of IInv.                  *)
(***************************************************************************)
EXTENDS TRTRelease, FiniteSetTheorems, Sequences, TLAPS

-------------------------------------------------------------------------------
(***************************************************************************)
(* The local variables of a handler keep their type when one is assigned.  *)
(***************************************************************************)

LEMMA NoRequestTyped == NoRequest \in Local
BY ParameterAssumption DEF ParameterAssumption, NoRequest, Local, Label

LEMMA SeenTyped ==
  ASSUME NEW l \in Local, NEW n \in 0 .. MaxVersion
  PROVE  [l EXCEPT !.seen = n] \in Local
BY DEF Local

LEMMA DocTyped ==
  ASSUME NEW l \in Local, NEW d \in Document
  PROVE  [l EXCEPT !.doc = d] \in Local
BY DEF Local

LEMMA ReturnTyped ==
  ASSUME NEW l \in Local, NEW label \in Label
  PROVE  [l EXCEPT !.return = label] \in Local
BY DEF Local

LEMMA CallTyped ==
  ASSUME TypeOK, NEW h \in Handlers, NEW request \in Local, NEW label \in Label,
         CallGetCurrent(h, label, request)
  PROVE  local' \in [Handlers -> Local]
<1>1. [request EXCEPT !.return = label] \in Local
  BY ReturnTyped
<1>2. QED
  BY <1>1 DEF CallGetCurrent, TypeOK

LEMMA VerdictTyped ==
  ASSUME NEW l \in Local, NEW b \in 0 .. MaxVersion, NEW o \in Outcome
  PROVE  [l EXCEPT !.before = b, !.outcome = o] \in Local
BY DEF Local

LEMMA OutcomeTyped ==
  ASSUME NEW l \in Local, NEW o \in Outcome
  PROVE  [l EXCEPT !.outcome = o] \in Local
BY DEF Local

LEMMA VersionOfDocument ==
  ASSUME NEW d \in Document
  PROVE  d.version \in Version /\ d.version \in 0 .. MaxVersion
BY ParameterAssumption DEF ParameterAssumption, Document, Version

LEMMA BundleTyped ==
  ASSUME TypeOK, NEW h \in Handlers, local[h].outcome \in Outcome, local[h].doc \in Document
  PROVE  Bundle(h) \in AuditBundle
<1>1. local[h].before \in 0 .. MaxVersion
  BY DEF TypeOK, Local
<1>2. (IF local[h].outcome = "ACCEPTED" THEN local[h].doc.version ELSE 0) \in 0 .. MaxVersion
  BY VersionOfDocument, ParameterAssumption DEF ParameterAssumption
<1>3. QED
  BY <1>1, <1>2 DEF Bundle, AuditBundle, Outcome

\* A step that draws no audit id and writes no file of an id not yet drawn.
LEMMA IdsFrame ==
  ASSUME IdsOK,
         requests' = requests,
         \A i \in AuditId : i > requests => audit'[i] = audit[i],
         \A g \in Handlers : Auditing(g)' => Auditing(g) /\ local'[g].id = local[g].id
  PROVE  IdsOK'
BY DEF IdsOK

-------------------------------------------------------------------------------
(***************************************************************************)
(* IInv holds initially and every action preserves it.                     *)
(***************************************************************************)

\* A file that exists and can be parsed holds a document.
LEMMA ReadableFile ==
  ASSUME NEW file \in TRTFile, file # None, Readable(file)
  PROVE  file \in Document
BY DEF TRTFile, Readable, Unreadable

LEMMA WrittenFile ==
  ASSUME NEW old, NEW document, NEW file \in Written(old, document)
  PROVE  file \in {document, Torn}
BY DEF Written

LEMMA HandleTyped ==
  ASSUME handle \in [Handlers -> Handle], NEW h \in Handlers, NEW writers,
         Opened(h) \/ Closed(h) \/ Renamed(writers)
  PROVE  handle' \in [Handlers -> Handle]
BY DEF Opened, Closed, Renamed, Moved, Handle

LEMMA InitIInv == Init => IInv
<1> SUFFICES ASSUME Init PROVE IInv
  OBVIOUS
<1> USE ParameterAssumption, NoneAssumption, FileAssumption
      DEF ParameterAssumption, NoneAssumption, FileAssumption
<1>1. SeedDocument \in Document
  BY DEF SeedDocument, Document, Version, Edits
<1>2. TypeOK
  BY <1>1, NoRequestTyped DEF Init, TypeOK, Label, Handle, TRTFile, RecordFile
<1>3. \A h \in Handlers : ControlOK(h)
  BY DEF Init, ControlOK, At, Reading, Writing, Recording, Auditing, NoRequest, EndpointSet
<1>4. \A h \in Handlers : DataOK(h)
  BY DEF Init, DataOK, At, Reading, Writing, Recording
<1>5. IdsOK /\ \A h \in Handlers : AuditOK(h)
  BY DEF Init, IdsOK, AuditOK, Auditing, NoRequest, EndpointSet
<1>6. RecordsOK
  BY DEF Init, RecordsOK, Decisions
<1> QED
  BY <1>2, <1>3, <1>4, <1>5, <1>6 DEF IInv

LEMMA RespondIInv ==
  ASSUME IInv, NEW h \in Handlers, Respond(h), UNCHANGED <<files, handle, control>>
  PROVE  IInv'
<1> USE ParameterAssumption, NoneAssumption
        DEF ParameterAssumption, NoneAssumption, IInv, TypeOK, Respond, NoRequest, Goto,
            At, files, control
<1>1. TypeOK'
  <2>1. local' \in [Handlers -> Local]
    BY NoRequestTyped
  <2>2. pc' \in [Handlers -> Label]
    BY DEF Label
  <2>3. QED
    BY <2>1, <2>2
<1>2. \A g \in Handlers : ControlOK(g)'
  BY DEF Local, ControlOK, Reading, Writing, Recording, Auditing, Label, NoRequest, EndpointSet
<1>3. \A g \in Handlers : DataOK(g)'
  BY DEF Local, DataOK, ControlOK, Reading, Writing, Recording, Auditing, Stored
<1>4. IdsOK'
  <2>1. \A g \in Handlers : Auditing(g)' => Auditing(g) /\ local'[g].id = local[g].id
    BY DEF Local, Auditing, EndpointSet
  <2>2. QED
    BY <2>1, IdsFrame
<1>5. \A g \in Handlers : AuditOK(g)'
  BY DEF Local, AuditOK, Auditing, Bundle, ControlOK, Reading, Writing, Recording, EndpointSet
<1>6. RecordsOK'
  BY DEF Local, RecordsOK, Decisions, Audited
<1> QED
  BY <1>1, <1>2, <1>3, <1>4, <1>5, <1>6

LEMMA StartRequestIInv ==
  ASSUME IInv, NEW h \in Handlers, NEW op \in EndpointSet, StartRequest(h, op)
  PROVE  IInv'
<1>0. local' \in [Handlers -> Local]
  <2>1. [NoRequest EXCEPT !.op = op] \in Local
    BY NoRequestTyped DEF Local
  <2>2. PICK label \in Label : CallGetCurrent(h, label, [NoRequest EXCEPT !.op = op])
    BY DEF StartRequest, Label
  <2>3. QED
    BY <2>1, <2>2, CallTyped DEF IInv
<1> USE ParameterAssumption, NoneAssumption
        DEF ParameterAssumption, NoneAssumption, IInv, TypeOK, StartRequest, ReleaseIdLeft,
            NoRequest, EndpointSet, CallGetCurrent, Goto, At, files, control
<1>1. TypeOK'
  <2>1. local' \in [Handlers -> Local]
    BY <1>0
  <2>2. pc' \in [Handlers -> Label]
    BY DEF Label
  <2>3. QED
    BY <2>1, <2>2
<1>2. \A g \in Handlers : ControlOK(g)'
  BY DEF Local, ControlOK, Reading, Writing, Recording, Auditing, Label, NoRequest, EndpointSet
<1>3. \A g \in Handlers : DataOK(g)'
  BY DEF Local, DataOK, ControlOK, Reading, Writing, Recording, Auditing, Stored
<1>4. IdsOK'
  <2>1. \A g \in Handlers : Auditing(g)' => Auditing(g) /\ local'[g].id = local[g].id
    BY DEF Local, Auditing, EndpointSet
  <2>2. QED
    BY <2>1, IdsFrame
<1>5. \A g \in Handlers : AuditOK(g)'
  BY DEF Local, AuditOK, Auditing, Bundle, ControlOK, Reading, Writing, Recording, EndpointSet
<1>6. RecordsOK'
  BY DEF Local, RecordsOK, Decisions, Audited
<1> QED
  BY <1>1, <1>2, <1>3, <1>4, <1>5, <1>6

LEMMA StartApplyIInv ==
  ASSUME IInv, NEW h \in Handlers, NEW base \in Version, StartApply(h, base)
  PROVE  IInv'
<1>0. local' \in [Handlers -> Local]
  <2> DEFINE request == [NoRequest EXCEPT !.op = "APPLY", !.base = base, !.id = requests + 1]
  <2>1. requests + 1 \in 0 .. MaxRequests /\ base \in 0 .. MaxVersion
    BY ParameterAssumption DEF StartApply, IInv, TypeOK, Version, ParameterAssumption
  <2>2. request \in Local
    BY <2>1, NoRequestTyped DEF Local, EndpointSet
  <2>3. CallGetCurrent(h, "firewall", request)
    BY DEF StartApply
  <2> HIDE DEF request
  <2>4. QED
    BY <2>2, <2>3, CallTyped DEF IInv, Label
<1> USE ParameterAssumption, NoneAssumption
        DEF ParameterAssumption, NoneAssumption, IInv, TypeOK, StartApply, NoRequest,
            EndpointSet, CallGetCurrent, Goto, At, files, control
<1>1. TypeOK'
  <2>1. local' \in [Handlers -> Local]
    BY <1>0
  <2>2. pc' \in [Handlers -> Label]
    BY DEF Label
  <2>3. QED
    BY <2>1, <2>2
<1>2. \A g \in Handlers : ControlOK(g)'
  BY DEF Local, ControlOK, Reading, Writing, Recording, Auditing, Label, NoRequest, EndpointSet
<1>3. \A g \in Handlers : DataOK(g)'
  BY DEF Local, DataOK, ControlOK, Reading, Writing, Recording, Auditing, Stored
<1>4. IdsOK'
  <2>1. /\ requests' = requests + 1
        /\ local'[h].id = requests + 1
        /\ \A g \in Handlers \ {h} : local'[g] = local[g]
        /\ audit' = audit
    OBVIOUS
  <2>2. \A g \in Handlers \ {h} : Auditing(g)' => Auditing(g) /\ local[g].id \in 1 .. requests
    BY <2>1 DEF IdsOK, Auditing
  <2>3. \A g \in Handlers : Auditing(g)' => local'[g].id \in 1 .. requests'
    BY <2>1, <2>2
  <2>4. \A f, g \in Handlers : Auditing(f)' /\ Auditing(g)' /\ f # g => local'[f].id # local'[g].id
    BY <2>1, <2>2 DEF IdsOK
  <2>5. \A i \in AuditId : i > requests' => audit'[i] = None
    BY <2>1 DEF IdsOK, AuditId
  <2>6. QED
    BY <2>3, <2>4, <2>5 DEF IdsOK
<1>5. \A g \in Handlers : AuditOK(g)'
  <2>1. ASSUME NEW g \in Handlers, g # h PROVE AuditOK(g)'
    BY <2>1 DEF AuditOK, Recording, Auditing, Bundle
  <2>2. AuditOK(h)'
    BY DEF AuditOK, Recording, IdsOK, AuditId
  <2>3. QED
    BY <2>1, <2>2
<1>6. RecordsOK'
  BY DEF Local, RecordsOK, Decisions, Audited
<1> QED
  BY <1>1, <1>2, <1>3, <1>4, <1>5, <1>6

LEMMA StartDecisionIInv ==
  ASSUME IInv, NEW h \in Handlers, NEW r \in Releases, NEW decision \in Decision,
         StartDecision(h, r, decision)
  PROVE  IInv'
<1>0. local' \in [Handlers -> Local]
  <2> DEFINE request == [NoRequest EXCEPT !.op = "DECIDE", !.decision = decision, !.release = r,
                                          !.base = record[r].base, !.id = requests + 1]
  <2>1. requests + 1 \in 0 .. MaxRequests /\ record[r].base \in 0 .. MaxVersion
    BY ParameterAssumption
    DEF StartDecision, Pending, IInv, TypeOK, Version, ParameterAssumption, ReleaseRecord
  <2>2. request \in Local
    BY <2>1, NoRequestTyped DEF Local, EndpointSet
  <2>3. PICK label \in Label : CallGetCurrent(h, label, request)
    BY DEF StartDecision, Label
  <2> HIDE DEF request
  <2>4. QED
    BY <2>2, <2>3, CallTyped DEF IInv
<1> USE ParameterAssumption, NoneAssumption
        DEF ParameterAssumption, NoneAssumption, IInv, TypeOK, StartDecision, Pending, NoRequest,
            EndpointSet, CallGetCurrent, Goto, At, files, control
<1>1. TypeOK'
  <2>1. local' \in [Handlers -> Local]
    BY <1>0
  <2>2. pc' \in [Handlers -> Label]
    BY DEF Label
  <2>3. QED
    BY <2>1, <2>2
<1>2. \A g \in Handlers : ControlOK(g)'
  BY DEF ReleaseRecord, Local, ControlOK, Reading, Writing, Recording, Auditing, Label, NoRequest, EndpointSet
<1>3. \A g \in Handlers : DataOK(g)'
  BY DEF Local, DataOK, ControlOK, Reading, Writing, Recording, Auditing, Stored
<1>4. IdsOK'
  <2>1. /\ requests' = requests + 1
        /\ local'[h].id = requests + 1
        /\ \A g \in Handlers \ {h} : local'[g] = local[g]
        /\ audit' = audit
    OBVIOUS
  <2>2. \A g \in Handlers \ {h} : Auditing(g)' => Auditing(g) /\ local[g].id \in 1 .. requests
    BY <2>1 DEF IdsOK, Auditing
  <2>3. \A g \in Handlers : Auditing(g)' => local'[g].id \in 1 .. requests'
    BY <2>1, <2>2
  <2>4. \A f, g \in Handlers : Auditing(f)' /\ Auditing(g)' /\ f # g => local'[f].id # local'[g].id
    BY <2>1, <2>2 DEF IdsOK
  <2>5. \A i \in AuditId : i > requests' => audit'[i] = None
    BY <2>1 DEF IdsOK, AuditId
  <2>6. QED
    BY <2>3, <2>4, <2>5 DEF IdsOK
<1>5. \A g \in Handlers : AuditOK(g)'
  <2>1. ASSUME NEW g \in Handlers, g # h PROVE AuditOK(g)'
    BY <2>1 DEF AuditOK, Recording, Auditing, Bundle
  <2>2. AuditOK(h)'
    BY DEF AuditOK, Recording, IdsOK, AuditId
  <2>3. QED
    BY <2>1, <2>2
<1>6. RecordsOK'
  BY DEF Local, RecordsOK, Decisions, Audited
<1> QED
  BY <1>1, <1>2, <1>3, <1>4, <1>5, <1>6

LEMMA ListVersionsIInv ==
  ASSUME IInv, NEW h \in Handlers, ListVersions(h)
  PROVE  IInv'
<1>r. CASE ~\A n \in Stored : Readable(versionFile[n])
  BY <1>r, RespondIInv DEF ListVersions
<1> SUFFICES ASSUME \A n \in Stored : Readable(versionFile[n]) PROVE IInv'
  BY <1>r
<1>a. \E n \in Stored : local' = [local EXCEPT ![h].seen = n] /\ pc' = [pc EXCEPT ![h] = "point"]
  BY DEF ListVersions, Goto
<1> USE ParameterAssumption, NoneAssumption
        DEF ParameterAssumption, NoneAssumption, IInv, TypeOK, ListVersions, Goto, At, files,
            control
<1>1. TypeOK'
  <2>1. local' \in [Handlers -> Local]
    <3>1. PICK n \in Stored : local' = [local EXCEPT ![h].seen = n]
      OBVIOUS
    <3>2. n \in 0 .. MaxVersion
      BY DEF Stored, Version
    <3>3. QED
      BY <3>1, <3>2, SeenTyped
  <2>2. pc' \in [Handlers -> Label]
    BY DEF Label
  <2>3. QED
    BY <2>1, <2>2
<1>2. \A g \in Handlers : ControlOK(g)'
  BY DEF Local, ControlOK, Reading, Writing, Recording, Auditing, Label, NoRequest, EndpointSet
<1>3. \A g \in Handlers : DataOK(g)'
  BY DEF Local, DataOK, ControlOK, Reading, Writing, Recording, Auditing, Stored
<1>4. IdsOK'
  <2>1. \A g \in Handlers : Auditing(g)' => Auditing(g) /\ local'[g].id = local[g].id
    BY DEF Local, Auditing, EndpointSet
  <2>2. QED
    BY <2>1, IdsFrame
<1>5. \A g \in Handlers : AuditOK(g)'
  <2>1. ASSUME NEW g \in Handlers, g # h PROVE AuditOK(g)'
    BY <2>1, <1>a DEF AuditOK, Recording, Auditing, Bundle
  <2>2. local'[h].op = local[h].op /\ local'[h].id = local[h].id
    BY <1>a
  <2>3. pc[h] = "list" /\ pc'[h] \notin {"writeAudit", "respond"} \cup Recording
    BY <1>a DEF ControlOK, Reading, Recording
  <2>4. AuditOK(h)'
    BY <2>2, <2>3 DEF AuditOK, Recording, Auditing
  <2>5. QED
    BY <2>1, <2>4
<1>6. RecordsOK'
  BY DEF Local, RecordsOK, Decisions, Audited
<1> QED
  BY <1>1, <1>2, <1>3, <1>4, <1>5, <1>6

LEMMA ReadPointerIInv ==
  ASSUME IInv, NEW h \in Handlers, ReadPointer(h)
  PROVE  IInv'
<1>r. CASE ~Readable(pointer)
  BY <1>r, RespondIInv DEF ReadPointer
<1> SUFFICES ASSUME Readable(pointer) PROVE IInv'
  BY <1>r
<1> USE ParameterAssumption, NoneAssumption
        DEF ParameterAssumption, NoneAssumption, IInv, TypeOK, ReadPointer, IsConsistent, Goto,
            At, files, control
<1>1. TypeOK'
  <2>1. local' \in [Handlers -> Local]
    OBVIOUS
  <2>2. pc' \in [Handlers -> Label]
    BY DEF Label
  <2>3. QED
    BY <2>1, <2>2
<1>2. \A g \in Handlers : ControlOK(g)'
  BY DEF Local, ControlOK, Reading, Writing, Recording, Auditing, Label, NoRequest, EndpointSet
<1>3. \A g \in Handlers : DataOK(g)'
  BY DEF Local, DataOK, ControlOK, Reading, Writing, Recording, Auditing, Stored
<1>4. IdsOK'
  <2>1. \A g \in Handlers : Auditing(g)' => Auditing(g) /\ local'[g].id = local[g].id
    BY DEF Local, Auditing, EndpointSet
  <2>2. QED
    BY <2>1, IdsFrame
<1>5. \A g \in Handlers : AuditOK(g)'
  BY DEF Local, AuditOK, Auditing, Bundle, ControlOK, Reading, Writing, Recording, EndpointSet
<1>6. RecordsOK'
  BY DEF Local, RecordsOK, Decisions, Audited
<1> QED
  BY <1>1, <1>2, <1>3, <1>4, <1>5, <1>6

LEMMA TakePointerIInv ==
  ASSUME IInv, NEW h \in Handlers, TakePointer(h)
  PROVE  IInv'
<1>r. CASE ~Readable(pointer)
  BY <1>r, RespondIInv DEF TakePointer
<1> SUFFICES ASSUME Readable(pointer) PROVE IInv'
  BY <1>r
<1>a. local' = [local EXCEPT ![h].doc = pointer] /\ pc' = [pc EXCEPT ![h] = local[h].return]
  BY DEF TakePointer, Goto
<1> USE ParameterAssumption, NoneAssumption
        DEF ParameterAssumption, NoneAssumption, IInv, TypeOK, TakePointer, Goto, At, files,
            control
<1>1. TypeOK'
  <2>1. local' \in [Handlers -> Local]
    <3>1. pointer \in Document
      BY ReadableFile DEF DataOK
    <3>2. QED
      BY <3>1, DocTyped
  <2>2. pc' \in [Handlers -> Label]
    BY DEF Label, Local
  <2>4. local[h].return \in Label
    BY DEF Local
  <2>3. QED
    BY <2>1, <2>2
<1>2. \A g \in Handlers : ControlOK(g)'
  BY DEF Local, ControlOK, Reading, Writing, Recording, Auditing, Label, NoRequest, EndpointSet
<1>3. \A g \in Handlers : DataOK(g)'
  <2>1. ASSUME NEW g \in Handlers, g # h PROVE DataOK(g)'
    BY <2>1, <1>a DEF DataOK, Reading, Writing, Recording, Auditing, Stored
  <2>2. pointer \in Document
    BY ReadableFile DEF DataOK
  <2>3. /\ local'[h].doc = pointer /\ local'[h].outcome = local[h].outcome
        /\ local'[h].return = local[h].return /\ pc'[h] = local[h].return
    BY <1>a DEF Local
  <2>4. local[h].return \in {"respond", "prepareAgain", "saveRelease", "resetState", "firewall",
                             "revalidate", "openAudit"}
    BY DEF ControlOK, Reading
  <2>5. local[h].return = "openAudit" => local[h].outcome \in Outcome
    BY DEF DataOK, Reading
  <2>6. DataOK(h)'
    BY <2>2, <2>3, <2>4, <2>5 DEF DataOK, Reading, Writing, Recording
  <2>7. QED
    BY <2>1, <2>6
<1>4. IdsOK'
  <2>1. \A g \in Handlers : Auditing(g)' => Auditing(g) /\ local'[g].id = local[g].id
    BY DEF Local, Auditing, EndpointSet
  <2>2. QED
    BY <2>1, IdsFrame
<1>5. \A g \in Handlers : AuditOK(g)'
  <2>1. ASSUME NEW g \in Handlers, g # h PROVE AuditOK(g)'
    BY <2>1, <1>a DEF AuditOK, Recording, Auditing, Bundle
  <2>2. local'[h].op = local[h].op /\ local'[h].id = local[h].id
    BY <1>a
  <2>3. pc[h] = "take" /\ pc'[h] \notin {"writeAudit"} \cup Recording
    BY <1>a DEF ControlOK, Reading, Recording
  <2>4. AuditOK(h)'
    BY <2>2, <2>3 DEF AuditOK, Recording, Auditing
  <2>5. QED
    BY <2>1, <2>4
<1>6. RecordsOK'
  BY DEF Local, RecordsOK, Decisions, Audited
<1> QED
  BY <1>1, <1>2, <1>3, <1>4, <1>5, <1>6

LEMMA LoadLatestIInv ==
  ASSUME IInv, NEW h \in Handlers, LoadLatest(h)
  PROVE  IInv'
<1>r. CASE ~Readable(versionFile[local[h].seen])
  BY <1>r, RespondIInv DEF LoadLatest
<1> SUFFICES ASSUME Readable(versionFile[local[h].seen]) PROVE IInv'
  BY <1>r
<1>a. local' = [local EXCEPT ![h].doc = versionFile[local[h].seen]]
     /\ pc' = [pc EXCEPT ![h] = "stagePointer"]
  BY DEF LoadLatest, Goto
<1> USE ParameterAssumption, NoneAssumption
        DEF ParameterAssumption, NoneAssumption, IInv, TypeOK, LoadLatest, Goto, At, files,
            control
<1>1. TypeOK'
  <2>1. local' \in [Handlers -> Local]
    <3>1. versionFile[local[h].seen] \in Document
      BY ReadableFile DEF DataOK, Stored
    <3>2. QED
      BY <3>1, DocTyped
  <2>2. pc' \in [Handlers -> Label]
    BY DEF Label
  <2>3. QED
    BY <2>1, <2>2
<1>2. \A g \in Handlers : ControlOK(g)'
  BY DEF Local, ControlOK, Reading, Writing, Recording, Auditing, Label, NoRequest, EndpointSet
<1>3. \A g \in Handlers : DataOK(g)'
  <2>1. ASSUME NEW g \in Handlers, g # h PROVE DataOK(g)'
    BY <2>1, <1>a DEF DataOK, Reading, Writing, Recording, Auditing, Stored
  <2>2. versionFile[local[h].seen] \in Document
    BY ReadableFile DEF DataOK, Stored
  <2>3. /\ local'[h].doc = versionFile[local[h].seen] /\ local'[h].outcome = local[h].outcome
        /\ local'[h].return = local[h].return /\ pc'[h] = "stagePointer"
    BY <1>a DEF Local
  <2>4. local[h].return = "openAudit" => local[h].outcome \in Outcome
    BY DEF DataOK, Reading
  <2>5. DataOK(h)'
    BY <2>2, <2>3, <2>4 DEF DataOK, Reading, Writing, Recording
  <2>6. QED
    BY <2>1, <2>5
<1>4. IdsOK'
  <2>1. \A g \in Handlers : Auditing(g)' => Auditing(g) /\ local'[g].id = local[g].id
    BY DEF Local, Auditing, EndpointSet
  <2>2. QED
    BY <2>1, IdsFrame
<1>5. \A g \in Handlers : AuditOK(g)'
  <2>1. ASSUME NEW g \in Handlers, g # h PROVE AuditOK(g)'
    BY <2>1, <1>a DEF AuditOK, Recording, Auditing, Bundle
  <2>2. local'[h].op = local[h].op /\ local'[h].id = local[h].id
    BY <1>a
  <2>3. pc[h] = "load" /\ pc'[h] \notin {"writeAudit", "respond"} \cup Recording
    BY <1>a DEF ControlOK, Reading, Recording
  <2>4. AuditOK(h)'
    BY <2>2, <2>3 DEF AuditOK, Recording, Auditing
  <2>5. QED
    BY <2>1, <2>4
<1>6. RecordsOK'
  BY DEF Local, RecordsOK, Decisions, Audited
<1> QED
  BY <1>1, <1>2, <1>3, <1>4, <1>5, <1>6

LEMMA StagePointerIInv ==
  ASSUME IInv, NEW h \in Handlers, StagePointer(h)
  PROVE  IInv'
<1> USE ParameterAssumption, NoneAssumption
        DEF ParameterAssumption, NoneAssumption, IInv, TypeOK, StagePointer, Goto, At, files,
            control
<1>1. TypeOK'
  <2>1. local' \in [Handlers -> Local]
    OBVIOUS
  <2>2. pc' \in [Handlers -> Label]
    BY DEF Label
  <2>4. pointerTmp' \in TRTFile
    BY DEF TRTFile, Unreadable
  <2>5. handle' \in [Handlers -> Handle]
    BY HandleTyped
  <2>3. QED
    BY <2>1, <2>2, <2>4, <2>5
<1>2. \A g \in Handlers : ControlOK(g)'
  BY DEF Local, ControlOK, Reading, Writing, Recording, Auditing, Label, NoRequest, EndpointSet
<1>3. \A g \in Handlers : DataOK(g)'
  BY DEF Local, DataOK, ControlOK, Reading, Writing, Recording, Auditing, Stored
<1>4. IdsOK'
  <2>1. \A g \in Handlers : Auditing(g)' => Auditing(g) /\ local'[g].id = local[g].id
    BY DEF Local, Auditing, EndpointSet
  <2>2. QED
    BY <2>1, IdsFrame
<1>5. \A g \in Handlers : AuditOK(g)'
  BY DEF Local, AuditOK, Auditing, Bundle, ControlOK, Reading, Writing, Recording, EndpointSet
<1>6. RecordsOK'
  BY DEF Local, RecordsOK, Decisions, Audited
<1> QED
  BY <1>1, <1>2, <1>3, <1>4, <1>5, <1>6

LEMMA FillPointerIInv ==
  ASSUME IInv, NEW h \in Handlers, FillPointer(h)
  PROVE  IInv'
<1> USE ParameterAssumption, NoneAssumption
        DEF ParameterAssumption, NoneAssumption, IInv, TypeOK, FillPointer, Goto, At, files,
            control
<1>1. TypeOK'
  <2>1. local' \in [Handlers -> Local]
    OBVIOUS
  <2>2. pc' \in [Handlers -> Label]
    BY DEF Label
  <2>4. pointerTmp' \in TRTFile /\ pointer' \in TRTFile
    BY WrittenFile DEF DataOK, TRTFile, Unreadable
  <2>5. handle' \in [Handlers -> Handle]
    BY HandleTyped
  <2>3. QED
    BY <2>1, <2>2, <2>4, <2>5
<1>2. \A g \in Handlers : ControlOK(g)'
  BY DEF Local, ControlOK, Reading, Writing, Recording, Auditing, Label, NoRequest, EndpointSet
<1>t. pointer' = None => pointer = None
  <2>1. local[h].doc \in Document
    BY DEF DataOK
  <2>2. None \notin Written(pointer, local[h].doc)
    BY <2>1, FileAssumption DEF Written, FileAssumption, Unreadable
  <2>3. QED
    BY <2>2
<1>3. \A g \in Handlers : DataOK(g)'
  BY <1>t DEF Local, DataOK, ControlOK, Reading, Writing, Recording, Auditing, Stored
<1>4. IdsOK'
  <2>1. \A g \in Handlers : Auditing(g)' => Auditing(g) /\ local'[g].id = local[g].id
    BY DEF Local, Auditing, EndpointSet
  <2>2. QED
    BY <2>1, IdsFrame
<1>5. \A g \in Handlers : AuditOK(g)'
  BY DEF Local, AuditOK, Auditing, Bundle, ControlOK, Reading, Writing, Recording, EndpointSet
<1>6. RecordsOK'
  BY DEF Local, RecordsOK, Decisions, Audited
<1> QED
  BY <1>1, <1>2, <1>3, <1>4, <1>5, <1>6

LEMMA PublishPointerIInv ==
  ASSUME IInv, NEW h \in Handlers, PublishPointer(h)
  PROVE  IInv'
<1>r. CASE pointerTmp = None
  BY <1>r, RespondIInv DEF PublishPointer, files, control
<1> SUFFICES ASSUME pointerTmp # None PROVE IInv'
  BY <1>r
<1> USE ParameterAssumption, NoneAssumption
        DEF ParameterAssumption, NoneAssumption, IInv, TypeOK, PublishPointer, Respond,
            NoRequest, Goto, At, files, control
<1>1. TypeOK'
  <2>1. local' \in [Handlers -> Local]
    BY NoRequestTyped
  <2>2. pc' \in [Handlers -> Label]
    BY DEF Label, Local
  <2>9. handle' \in [Handlers -> Handle]
    BY HandleTyped
  <2>3. QED
    BY <2>9, <2>1, <2>2 DEF TRTFile
<1>2. \A g \in Handlers : ControlOK(g)'
  BY DEF Local, ControlOK, Reading, Writing, Recording, Auditing, Label, NoRequest, EndpointSet
<1>3. \A g \in Handlers : DataOK(g)'
  BY DEF Local, DataOK, ControlOK, Reading, Writing, Recording, Auditing, Stored
<1>4. IdsOK'
  <2>1. \A g \in Handlers : Auditing(g)' => Auditing(g) /\ local'[g].id = local[g].id
    BY DEF Local, Auditing, EndpointSet
  <2>2. QED
    BY <2>1, IdsFrame
<1>5. \A g \in Handlers : AuditOK(g)'
  <2>1. ASSUME NEW g \in Handlers, g # h PROVE AuditOK(g)'
    BY <2>1 DEF AuditOK, Recording, Auditing, Bundle
  <2>2. AuditOK(h)'
    BY DEF AuditOK, Recording, Auditing, Bundle, ControlOK, Reading, Writing, Recording, EndpointSet
  <2>9. handle' \in [Handlers -> Handle]
    BY HandleTyped
  <2>3. QED
    BY <2>9, <2>1, <2>2 DEF TRTFile
<1>6. RecordsOK'
  BY DEF Local, RecordsOK, Decisions, Audited
<1> QED
  BY <1>1, <1>2, <1>3, <1>4, <1>5, <1>6

LEMMA PrepareAgainIInv ==
  ASSUME IInv, NEW h \in Handlers, PrepareAgain(h)
  PROVE  IInv'
<1>0. local' \in [Handlers -> Local]
  <2>1. local[h] \in Local
    BY DEF IInv, TypeOK
  <2>2. QED
    BY <2>1, CallTyped DEF PrepareAgain, IInv, Label
<1> USE ParameterAssumption, NoneAssumption
        DEF ParameterAssumption, NoneAssumption, IInv, TypeOK, PrepareAgain, CallGetCurrent,
            Goto, At, files, control
<1>1. TypeOK'
  <2>1. local' \in [Handlers -> Local]
    BY <1>0
  <2>2. pc' \in [Handlers -> Label]
    BY DEF Label
  <2>3. QED
    BY <2>1, <2>2
<1>2. \A g \in Handlers : ControlOK(g)'
  BY DEF Local, ControlOK, Reading, Writing, Recording, Auditing, Label, NoRequest, EndpointSet
<1>3. \A g \in Handlers : DataOK(g)'
  BY DEF Local, DataOK, ControlOK, Reading, Writing, Recording, Auditing, Stored
<1>4. IdsOK'
  <2>1. \A g \in Handlers : Auditing(g)' => Auditing(g) /\ local'[g].id = local[g].id
    BY DEF Local, Auditing, EndpointSet
  <2>2. QED
    BY <2>1, IdsFrame
<1>5. \A g \in Handlers : AuditOK(g)'
  BY DEF Local, AuditOK, Auditing, Bundle, ControlOK, Reading, Writing, Recording, EndpointSet
<1>6. RecordsOK'
  BY DEF Local, RecordsOK, Decisions, Audited
<1> QED
  BY <1>1, <1>2, <1>3, <1>4, <1>5, <1>6

LEMMA SaveReleaseIInv ==
  ASSUME IInv, NEW h \in Handlers, NEW r \in Releases, NEW base \in Version,
         SaveRelease(h, r, base)
  PROVE  IInv'
<1>0. local' \in [Handlers -> Local]
  <2>1. local[h] \in Local
    BY DEF IInv, TypeOK
  <2>2. QED
    BY <2>1, CallTyped DEF SaveRelease, IInv, Label
<1> USE ParameterAssumption, NoneAssumption
        DEF ParameterAssumption, NoneAssumption, IInv, TypeOK, SaveRelease, CallGetCurrent,
            Goto, At, files, control
<1>1. TypeOK'
  <2>1. local' \in [Handlers -> Local]
    BY <1>0
  <2>2. pc' \in [Handlers -> Label]
    BY DEF Label
  <2>4. record' \in [Releases -> RecordFile]
    BY DEF RecordFile, ReleaseRecord, Status
  <2>3. QED
    BY <2>1, <2>2, <2>4
<1>2. \A g \in Handlers : ControlOK(g)'
  BY DEF Local, ControlOK, Reading, Writing, Recording, Auditing, Label, NoRequest, EndpointSet
<1>3. \A g \in Handlers : DataOK(g)'
  BY DEF Local, DataOK, ControlOK, Reading, Writing, Recording, Auditing, Stored
<1>4. IdsOK'
  <2>1. \A g \in Handlers : Auditing(g)' => Auditing(g) /\ local'[g].id = local[g].id
    BY DEF Local, Auditing, EndpointSet
  <2>2. QED
    BY <2>1, IdsFrame
<1>5. \A g \in Handlers : AuditOK(g)'
  BY DEF Local, AuditOK, Auditing, Bundle, ControlOK, Reading, Writing, Recording, EndpointSet
<1>6. RecordsOK'
  BY DEF Local, RecordsOK, Decisions, Audited
<1> QED
  BY <1>1, <1>2, <1>3, <1>4, <1>5, <1>6

LEMMA FirewallIInv ==
  ASSUME IInv, NEW h \in Handlers, Firewall(h)
  PROVE  IInv'
<1> USE ParameterAssumption, NoneAssumption
        DEF ParameterAssumption, NoneAssumption, IInv, TypeOK, Firewall, Goto, At, files,
            control
<1>1. TypeOK'
  <2>1. local' \in [Handlers -> Local]
    <3>1. local[h].doc.version \in 0 .. MaxVersion
      BY VersionOfDocument DEF DataOK
    <3>2. PICK o \in Outcome : local' = [local EXCEPT ![h].before = local[h].doc.version, ![h].outcome = o]
      BY DEF Outcome
    <3>3. QED
      BY <3>1, <3>2, VerdictTyped
  <2>2. pc' \in [Handlers -> Label]
    BY DEF Label
  <2>3. QED
    BY <2>1, <2>2
<1>2. \A g \in Handlers : ControlOK(g)'
  BY DEF Local, ControlOK, Reading, Writing, Recording, Auditing, Label, NoRequest, EndpointSet
<1>3. \A g \in Handlers : DataOK(g)'
  <2>1. ASSUME NEW g \in Handlers, g # h PROVE DataOK(g)'
    BY <2>1 DEF DataOK, Reading, Writing, Recording, Auditing, Stored
  <2>2. DataOK(h)'
    <3>1. /\ local'[h].outcome \in Outcome
          /\ local'[h].doc = local[h].doc /\ local'[h].return = local[h].return
      BY DEF Local, Outcome
    <3>2. pc[h] = "firewall" /\ pc'[h] \in {"number", "openAudit"} /\ local[h].doc \in Document
      BY DEF DataOK
    <3>3. QED
      BY <3>1, <3>2 DEF DataOK, Reading
  <2>3. QED
    BY <2>1, <2>2
<1>4. IdsOK'
  <2>1. \A g \in Handlers : Auditing(g)' => Auditing(g) /\ local'[g].id = local[g].id
    BY DEF Local, Auditing, EndpointSet
  <2>2. QED
    BY <2>1, IdsFrame
<1>5. \A g \in Handlers : AuditOK(g)'
  <2>1. ASSUME NEW g \in Handlers, g # h PROVE AuditOK(g)'
    BY <2>1 DEF AuditOK, Recording, Auditing, Bundle
  <2>2. local'[h].op = local[h].op /\ local'[h].id = local[h].id
    BY DEF Local
  <2>3. pc[h] = "firewall" /\ pc'[h] \in {"number", "openAudit"}
    BY DEF ControlOK, Reading
  <2>4. AuditOK(h)'
    BY <2>2, <2>3 DEF AuditOK, Recording, Auditing
  <2>5. QED
    BY <2>1, <2>4
<1>6. RecordsOK'
  BY DEF Local, RecordsOK, Decisions, Audited
<1> QED
  BY <1>1, <1>2, <1>3, <1>4, <1>5, <1>6

LEMMA UnnumberedIInv ==
  ASSUME IInv, NEW h \in Handlers, pc[h] \in {"number", "numbered"}, Unnumbered(h),
         UNCHANGED <<files, handle, control>>
  PROVE  IInv'
<1> USE ParameterAssumption, NoneAssumption
        DEF ParameterAssumption, NoneAssumption, IInv, TypeOK, Unnumbered, Goto, At, files,
            control
<1>1. TypeOK'
  <2>1. local' \in [Handlers -> Local]
    <3>1. "INVALID" \in Outcome /\ local' = [local EXCEPT ![h] = [local[h] EXCEPT !.outcome = "INVALID"]]
      BY DEF Outcome
    <3>2. QED
      BY <3>1, OutcomeTyped
  <2>2. pc' \in [Handlers -> Label]
    BY DEF Label
  <2>3. QED
    BY <2>1, <2>2
<1>2. \A g \in Handlers : ControlOK(g)'
  BY DEF Local, ControlOK, Reading, Writing, Recording, Auditing, Label, NoRequest, EndpointSet
<1>3. \A g \in Handlers : DataOK(g)'
  <2>1. ASSUME NEW g \in Handlers, g # h PROVE DataOK(g)'
    BY <2>1 DEF DataOK, Reading, Writing, Recording, Auditing, Stored
  <2>2. DataOK(h)'
    <3>1. /\ local'[h].outcome \in Outcome
          /\ local'[h].doc = local[h].doc /\ local'[h].return = local[h].return
      BY DEF Local, Outcome
    <3>2. pc'[h] = "openAudit" /\ local[h].doc \in Document
      BY DEF DataOK
    <3>3. QED
      BY <3>1, <3>2 DEF DataOK, Reading
  <2>3. QED
    BY <2>1, <2>2
<1>4. IdsOK'
  <2>1. \A g \in Handlers : Auditing(g)' => Auditing(g) /\ local'[g].id = local[g].id
    BY DEF Local, Auditing, EndpointSet
  <2>2. QED
    BY <2>1, IdsFrame
<1>5. \A g \in Handlers : AuditOK(g)'
  <2>1. ASSUME NEW g \in Handlers, g # h PROVE AuditOK(g)'
    BY <2>1 DEF AuditOK, Recording, Auditing, Bundle
  <2>2. local'[h].op = local[h].op /\ local'[h].id = local[h].id
    BY DEF Local
  <2>3. pc'[h] = "openAudit"
    BY DEF ControlOK, Reading
  <2>4. AuditOK(h)'
    BY <2>2, <2>3 DEF AuditOK, Recording, Auditing
  <2>5. QED
    BY <2>1, <2>4
<1>6. RecordsOK'
  BY DEF Local, RecordsOK, Decisions, Audited
<1> QED
  BY <1>1, <1>2, <1>3, <1>4, <1>5, <1>6

LEMMA NumberVersionIInv ==
  ASSUME IInv, NEW h \in Handlers, NumberVersion(h)
  PROVE  IInv'
<1>r. CASE ~\A n \in Stored : Readable(versionFile[n])
  BY <1>r, UnnumberedIInv DEF NumberVersion, At
<1> SUFFICES ASSUME \A n \in Stored : Readable(versionFile[n]) PROVE IInv'
  BY <1>r
<1>a. \E n \in Stored : /\ n < MaxVersion
                     /\ local' = [local EXCEPT ![h].seen = n]
                     /\ pc' = [pc EXCEPT ![h] = "numbered"]
  BY DEF NumberVersion, Goto
<1> USE ParameterAssumption, NoneAssumption
        DEF ParameterAssumption, NoneAssumption, IInv, TypeOK, NumberVersion, Goto, At, files,
            control
<1>1. TypeOK'
  <2>1. local' \in [Handlers -> Local]
    <3>1. PICK n \in Stored : local' = [local EXCEPT ![h].seen = n]
      OBVIOUS
    <3>2. n \in 0 .. MaxVersion
      BY DEF Stored, Version
    <3>3. QED
      BY <3>1, <3>2, SeenTyped
  <2>2. pc' \in [Handlers -> Label]
    BY DEF Label
  <2>3. QED
    BY <2>1, <2>2
<1>2. \A g \in Handlers : ControlOK(g)'
  BY DEF Local, ControlOK, Reading, Writing, Recording, Auditing, Label, NoRequest, EndpointSet
<1>3. \A g \in Handlers : DataOK(g)'
  <2>1. ASSUME NEW g \in Handlers, g # h PROVE DataOK(g)'
    BY <2>1, <1>a DEF DataOK, Reading, Writing, Recording, Auditing, Stored
  <2>2. /\ local'[h].doc = local[h].doc /\ local'[h].outcome = local[h].outcome
        /\ local'[h].seen \in Stored /\ local'[h].seen < MaxVersion
    BY <1>a DEF Local
  <2>3. DataOK(h)'
    BY <2>2, <1>a DEF DataOK, Reading, Writing, Recording, Stored
  <2>4. QED
    BY <2>1, <2>3
<1>4. IdsOK'
  <2>1. \A g \in Handlers : Auditing(g)' => Auditing(g) /\ local'[g].id = local[g].id
    BY DEF Local, Auditing, EndpointSet
  <2>2. QED
    BY <2>1, IdsFrame
<1>5. \A g \in Handlers : AuditOK(g)'
  <2>1. ASSUME NEW g \in Handlers, g # h PROVE AuditOK(g)'
    BY <2>1, <1>a DEF AuditOK, Recording, Auditing, Bundle
  <2>2. local'[h].op = local[h].op /\ local'[h].id = local[h].id
    BY <1>a
  <2>3. pc[h] = "number" /\ pc'[h] \notin {"writeAudit", "respond"} \cup Recording
    BY <1>a DEF ControlOK, Reading, Recording
  <2>4. AuditOK(h)'
    BY <2>2, <2>3 DEF AuditOK, Recording, Auditing
  <2>5. QED
    BY <2>1, <2>4
<1>6. RecordsOK'
  BY DEF Local, RecordsOK, Decisions, Audited
<1> QED
  BY <1>1, <1>2, <1>3, <1>4, <1>5, <1>6

LEMMA StampVersionIInv ==
  ASSUME IInv, NEW h \in Handlers, StampVersion(h)
  PROVE  IInv'
<1>r. CASE ~Readable(pointer)
  BY <1>r, UnnumberedIInv DEF StampVersion, At
<1> SUFFICES ASSUME Readable(pointer) PROVE IInv'
  BY <1>r
<1> DEFINE d == Patched(h, local[h].seen)
<1>0. d \in Document
  <2> USE ParameterAssumption DEF ParameterAssumption, StampVersion, IInv, TypeOK, At
  <2>1. local[h].doc \in Document
    BY DEF DataOK
  <2>2. Auditing(h) /\ local[h].id \in AuditId
    BY DEF ControlOK, IdsOK, AuditId
  <2>3. local[h].seen + 1 \in Version /\ local[h].doc.version \in 0 .. MaxVersion
    BY <2>1, VersionOfDocument DEF DataOK, Version, Stored
  <2>4. ReleaseOf(h) \in Releases \cup {None}
    BY <2>1 DEF Local, ReleaseOf, Document
  <2>5. Edit(h) \in Edits
    BY <2>2 DEF Edit, Edits, ControlOK
  <2>6. QED
    BY <2>1, <2>2, <2>3, <2>4, <2>5 DEF Patched, Document, Version, AuditId
<1>a. local' = [local EXCEPT ![h].doc = d] /\ pc' = [pc EXCEPT ![h] = "check"]
  BY DEF StampVersion, Goto
<1> HIDE DEF d
<1> USE ParameterAssumption, NoneAssumption
        DEF ParameterAssumption, NoneAssumption, IInv, TypeOK, StampVersion, Goto, At, files,
            control
<1>1. TypeOK'
  <2>1. local' \in [Handlers -> Local]
    BY <1>0, <1>a, DocTyped
  <2>2. pc' \in [Handlers -> Label]
    BY <1>a DEF Label
  <2>3. QED
    BY <2>1, <2>2
<1>2. \A g \in Handlers : ControlOK(g)'
  BY <1>a DEF Local, ControlOK, Reading, Writing, Recording, Auditing, Label, NoRequest, EndpointSet
<1>3. \A g \in Handlers : DataOK(g)'
  <2>1. ASSUME NEW g \in Handlers, g # h PROVE DataOK(g)'
    BY <2>1, <1>a DEF DataOK, Reading, Writing, Recording, Auditing, Stored
  <2>2. local'[h].doc = d /\ local'[h].outcome = local[h].outcome
    BY <1>a DEF Local
  <2>3. DataOK(h)'
    BY <2>2, <1>0, <1>a DEF DataOK, Reading, Writing, Recording
  <2>4. QED
    BY <2>1, <2>3
<1>4. IdsOK'
  <2>1. \A g \in Handlers : Auditing(g)' => Auditing(g) /\ local'[g].id = local[g].id
    BY <1>a DEF Local, Auditing, EndpointSet
  <2>2. QED
    BY <2>1, IdsFrame
<1>5. \A g \in Handlers : AuditOK(g)'
  <2>1. ASSUME NEW g \in Handlers, g # h PROVE AuditOK(g)'
    BY <2>1, <1>a DEF AuditOK, Recording, Auditing, Bundle
  <2>2. local'[h].op = local[h].op /\ local'[h].id = local[h].id
    BY <1>a
  <2>3. pc[h] = "numbered" /\ pc'[h] = "check"
    BY <1>a
  <2>4. AuditOK(h)'
    BY <2>2, <2>3 DEF AuditOK, Recording, Auditing
  <2>5. QED
    BY <2>1, <2>4
<1>6. RecordsOK'
  BY DEF Local, RecordsOK, Decisions, Audited
<1> QED
  BY <1>1, <1>2, <1>3, <1>4, <1>5, <1>6

LEMMA CheckVersionIInv ==
  ASSUME IInv, NEW h \in Handlers, CheckVersion(h)
  PROVE  IInv'
<1>r. CASE versionFile[local[h].doc.version] # None
  BY <1>r, RespondIInv DEF CheckVersion
<1> SUFFICES ASSUME versionFile[local[h].doc.version] = None PROVE IInv'
  BY <1>r
<1> USE ParameterAssumption, NoneAssumption
        DEF ParameterAssumption, NoneAssumption, IInv, TypeOK, CheckVersion, Respond, NoRequest,
            Goto, At, files, control
<1>1. TypeOK'
  <2>1. local' \in [Handlers -> Local]
    BY NoRequestTyped
  <2>2. pc' \in [Handlers -> Label]
    BY DEF Label
  <2>3. QED
    BY <2>1, <2>2
<1>2. \A g \in Handlers : ControlOK(g)'
  BY DEF Local, ControlOK, Reading, Writing, Recording, Auditing, Label, NoRequest, EndpointSet
<1>3. \A g \in Handlers : DataOK(g)'
  BY DEF Local, DataOK, ControlOK, Reading, Writing, Recording, Auditing, Stored
<1>4. IdsOK'
  <2>1. \A g \in Handlers : Auditing(g)' => Auditing(g) /\ local'[g].id = local[g].id
    BY DEF Local, Auditing, EndpointSet
  <2>2. QED
    BY <2>1, IdsFrame
<1>5. \A g \in Handlers : AuditOK(g)'
  BY DEF Local, AuditOK, Auditing, Bundle, ControlOK, Reading, Writing, Recording, EndpointSet
<1>6. RecordsOK'
  BY DEF Local, RecordsOK, Decisions, Audited
<1> QED
  BY <1>1, <1>2, <1>3, <1>4, <1>5, <1>6

LEMMA StageVersionIInv ==
  ASSUME IInv, NEW h \in Handlers, StageVersion(h)
  PROVE  IInv'
<1> USE ParameterAssumption, NoneAssumption
        DEF ParameterAssumption, NoneAssumption, IInv, TypeOK, StageVersion, Goto, At, files,
            control
<1>1. TypeOK'
  <2>1. local' \in [Handlers -> Local]
    OBVIOUS
  <2>2. pc' \in [Handlers -> Label]
    BY DEF Label
  <2>4. versionTmp' \in [Version -> TRTFile]
    BY VersionOfDocument DEF DataOK, Writing, TRTFile, Unreadable
  <2>5. handle' \in [Handlers -> Handle]
    BY HandleTyped
  <2>3. QED
    BY <2>1, <2>2, <2>4, <2>5
<1>2. \A g \in Handlers : ControlOK(g)'
  BY DEF Local, ControlOK, Reading, Writing, Recording, Auditing, Label, NoRequest, EndpointSet
<1>3. \A g \in Handlers : DataOK(g)'
  BY DEF Local, DataOK, ControlOK, Reading, Writing, Recording, Auditing, Stored
<1>4. IdsOK'
  <2>1. \A g \in Handlers : Auditing(g)' => Auditing(g) /\ local'[g].id = local[g].id
    BY DEF Local, Auditing, EndpointSet
  <2>2. QED
    BY <2>1, IdsFrame
<1>5. \A g \in Handlers : AuditOK(g)'
  BY DEF Local, AuditOK, Auditing, Bundle, ControlOK, Reading, Writing, Recording, EndpointSet
<1>6. RecordsOK'
  BY DEF Local, RecordsOK, Decisions, Audited
<1> QED
  BY <1>1, <1>2, <1>3, <1>4, <1>5, <1>6

LEMMA FillVersionIInv ==
  ASSUME IInv, NEW h \in Handlers, FillVersion(h)
  PROVE  IInv'
<1> USE ParameterAssumption, NoneAssumption
        DEF ParameterAssumption, NoneAssumption, IInv, TypeOK, FillVersion, Goto, At, files,
            control
<1>1. TypeOK'
  <2>1. local' \in [Handlers -> Local]
    OBVIOUS
  <2>2. pc' \in [Handlers -> Label]
    BY DEF Label
  <2>4. local[h].doc \in Document /\ local[h].doc.version \in Version
    BY VersionOfDocument DEF DataOK, Writing
  <2>6. \A old : Written(old, local[h].doc) \subseteq TRTFile
    BY <2>4 DEF Written, TRTFile, Unreadable
  <2>7. versionTmp' \in [Version -> TRTFile]
    BY <2>4, <2>6
  <2>8. versionFile' \in [Version -> TRTFile]
    BY <2>4, <2>6
  <2>5. handle' \in [Handlers -> Handle]
    BY HandleTyped
  <2>3. QED
    BY <2>1, <2>2, <2>5, <2>7, <2>8
<1>2. \A g \in Handlers : ControlOK(g)'
  BY DEF Local, ControlOK, Reading, Writing, Recording, Auditing, Label, NoRequest, EndpointSet
<1>k. \A n \in Version : versionFile'[n] = None => versionFile[n] = None
  <2>1. local[h].doc \in Document /\ local[h].doc.version \in Version
    BY VersionOfDocument DEF DataOK, Writing
  <2>2. \A old : None \notin Written(old, local[h].doc)
    BY <2>1, FileAssumption DEF Written, FileAssumption, Unreadable
  <2>3. QED
    BY <2>1, <2>2
<1>3. \A g \in Handlers : DataOK(g)'
  BY <1>k DEF Local, DataOK, ControlOK, Reading, Writing, Recording, Auditing, Stored
<1>4. IdsOK'
  <2>1. \A g \in Handlers : Auditing(g)' => Auditing(g) /\ local'[g].id = local[g].id
    BY DEF Local, Auditing, EndpointSet
  <2>2. QED
    BY <2>1, IdsFrame
<1>5. \A g \in Handlers : AuditOK(g)'
  BY DEF Local, AuditOK, Auditing, Bundle, ControlOK, Reading, Writing, Recording, EndpointSet
<1>6. RecordsOK'
  BY DEF Local, RecordsOK, Decisions, Audited
<1> QED
  BY <1>1, <1>2, <1>3, <1>4, <1>5, <1>6

LEMMA PublishVersionIInv ==
  ASSUME IInv, NEW h \in Handlers, PublishVersion(h)
  PROVE  IInv'
<1>r. CASE versionTmp[local[h].doc.version] = None
  BY <1>r, RespondIInv DEF PublishVersion, files, control
<1> SUFFICES ASSUME versionTmp[local[h].doc.version] # None PROVE IInv'
  BY <1>r
<1>0. local' \in [Handlers -> Local]
  <2>1. local[h] \in Local
    BY DEF IInv, TypeOK
  <2>2. [local[h] EXCEPT !.return = "openAudit"] \in Local
    BY <2>1, ReturnTyped DEF Label
  <2>3. QED
    BY <2>2, NoRequestTyped DEF PublishVersion, Respond, IInv, TypeOK
<1>b. None \notin {"APPLY", "DECIDE"}
  BY NoneAssumption DEF NoneAssumption, EndpointSet
<1> USE ParameterAssumption, NoneAssumption
        DEF ParameterAssumption, NoneAssumption, IInv, TypeOK, PublishVersion, Respond,
            NoRequest, Goto, At, files, control
<1>1. TypeOK'
  <2>1. local' \in [Handlers -> Local]
    BY <1>0
  <2>2. pc' \in [Handlers -> Label]
    BY DEF Label
  <2>4. local[h].doc.version \in Version
    BY VersionOfDocument DEF DataOK, Writing
  <2>5. /\ versionFile' \in [Version -> TRTFile]
        /\ versionTmp' \in [Version -> TRTFile]
    BY <2>4 DEF TRTFile
  <2>9. handle' \in [Handlers -> Handle]
    BY HandleTyped
  <2>3. QED
    BY <2>9, <2>1, <2>2, <2>5
<1>2. \A g \in Handlers : ControlOK(g)'
  BY DEF Local, ControlOK, Reading, Writing, Recording, Auditing, Label, NoRequest, EndpointSet
<1>3. \A g \in Handlers : DataOK(g)'
  <2>1. ASSUME NEW g \in Handlers, g # h PROVE DataOK(g)'
    BY <2>1 DEF DataOK, Reading, Writing, Recording, Auditing, Stored
  <2>2. \/ pc'[h] \in {"idle", "respond"}
        \/ /\ pc'[h] = "stagePointer" /\ local[h].op # "RESET"
           /\ local'[h].doc = local[h].doc /\ local'[h].outcome = local[h].outcome
    BY DEF Local
  <2>3. pc[h] = "publishVersion" /\ DataOK(h) /\ ControlOK(h)
    OBVIOUS
  <2>4. DataOK(h)'
    BY ONLY <2>2, <2>3 DEF DataOK, ControlOK, Auditing, Reading, Writing, Recording, At
  <2>5. QED
    BY <2>1, <2>4
<1>4. IdsOK'
  <2>1. \A g \in Handlers : Auditing(g)' => Auditing(g) /\ local'[g].id = local[g].id
    BY DEF Local, Auditing, EndpointSet
  <2>2. QED
    BY <2>1, IdsFrame
<1>5. \A g \in Handlers : AuditOK(g)'
  <2>1. ASSUME NEW g \in Handlers, g # h PROVE AuditOK(g)'
    BY <2>1 DEF AuditOK, Recording, Auditing, Bundle
  <2>2. \/ local'[h].op = None
        \/ /\ local'[h].op = local[h].op /\ local'[h].id = local[h].id
           /\ pc'[h] = (IF local[h].op = "RESET" THEN "respond" ELSE "stagePointer")
    BY DEF Local
  <2>3. pc[h] = "publishVersion" /\ audit' = audit /\ AuditOK(h)
    OBVIOUS
  <2>4. AuditOK(h)'
    BY ONLY <1>b, <2>2, <2>3 DEF AuditOK, Auditing, Recording, At
  <2>5. QED
    BY <2>1, <2>4
<1>6. RecordsOK'
  BY DEF Local, RecordsOK, Decisions, Audited
<1> QED
  BY <1>1, <1>2, <1>3, <1>4, <1>5, <1>6

LEMMA ResetStateIInv ==
  ASSUME IInv, NEW h \in Handlers, ResetState(h)
  PROVE  IInv'
<1>0. local' \in [Handlers -> Local]
  <2>1. local[h] \in Local /\ local[h].doc \in Document
    BY DEF IInv, TypeOK, DataOK, ResetState, At
  <2>2. [local[h].doc EXCEPT !.reset = TRUE] \in Document
    BY <2>1 DEF Document
  <2>3. [local[h] EXCEPT !.doc = [local[h].doc EXCEPT !.reset = TRUE]] \in Local
    BY <2>1, <2>2, DocTyped
  <2>4. QED
    BY <2>3 DEF ResetState, IInv, TypeOK
<1>a. local[h].op = "RESET"
  BY DEF IInv, ControlOK, ResetState, At
<1> USE ParameterAssumption, NoneAssumption
        DEF ParameterAssumption, NoneAssumption, IInv, TypeOK, ResetState, Goto, At, files,
            control
<1>1. TypeOK'
  <2>1. local' \in [Handlers -> Local]
    BY <1>0
  <2>2. pc' \in [Handlers -> Label]
    BY DEF Label
  <2>3. QED
    BY <2>1, <2>2
<1>2. \A g \in Handlers : ControlOK(g)'
  <2>1. ASSUME NEW g \in Handlers, g # h PROVE ControlOK(g)'
    BY <2>1 DEF ControlOK, Reading, Writing, Recording, Auditing
  <2>2. local'[h].op = "RESET" /\ pc'[h] = "stageVersion"
    BY <1>a DEF Local
  <2>3. ControlOK(h)'
    BY <2>2 DEF ControlOK, Reading, Writing, Recording, Auditing
  <2>4. QED
    BY <2>1, <2>3
<1>3. \A g \in Handlers : DataOK(g)'
  <2>1. ASSUME NEW g \in Handlers, g # h PROVE DataOK(g)'
    BY <2>1 DEF DataOK, Reading, Writing, Recording, Auditing, Stored
  <2>2. local[h].doc \in Document
    BY DEF DataOK
  <2>3. [local[h].doc EXCEPT !.reset = TRUE] \in Document
    BY <2>2 DEF Document
  <2>4. local'[h].doc = [local[h].doc EXCEPT !.reset = TRUE] /\ local'[h].op = local[h].op
    OBVIOUS
  <2>6. DataOK(h)'
    BY <2>3, <2>4, <1>a DEF DataOK, Reading, Writing, Recording, Auditing
  <2>7. QED
    BY <2>1, <2>6
<1>4. IdsOK'
  <2>1. \A g \in Handlers : Auditing(g)' => Auditing(g) /\ local'[g].id = local[g].id
    BY DEF Local, Auditing, EndpointSet
  <2>2. QED
    BY <2>1, IdsFrame
<1>5. \A g \in Handlers : AuditOK(g)'
  <2>1. ASSUME NEW g \in Handlers, g # h PROVE AuditOK(g)'
    BY <2>1 DEF AuditOK, Recording, Auditing, Bundle
  <2>2. local'[h].op = local[h].op /\ local'[h].id = local[h].id
    OBVIOUS
  <2>3. pc[h] = "resetState" /\ pc'[h] \in {"stageVersion"}
    BY DEF ControlOK, Reading
  <2>4. AuditOK(h)'
    BY <2>2, <2>3 DEF AuditOK, Recording, Auditing
  <2>5. QED
    BY <2>1, <2>4
<1>6. RecordsOK'
  BY DEF Local, RecordsOK, Decisions, Audited
<1> QED
  BY <1>1, <1>2, <1>3, <1>4, <1>5, <1>6

LEMMA RevalidateIInv ==
  ASSUME IInv, NEW h \in Handlers, Revalidate(h)
  PROVE  IInv'
<1>0. local' \in [Handlers -> Local]
  <2>1. local[h] \in Local /\ local[h].doc.version \in 0 .. MaxVersion
    BY VersionOfDocument DEF IInv, TypeOK, DataOK, Revalidate, At
  <2>2. PICK o \in Outcome :
          CallGetCurrent(h, "openAudit",
            [local[h] EXCEPT !.before = local[h].doc.version, !.outcome = o])
    BY DEF Revalidate, Outcome
  <2>3. [local[h] EXCEPT !.before = local[h].doc.version, !.outcome = o] \in Local
    BY <2>1, VerdictTyped
  <2>4. QED
    BY <2>2, <2>3, CallTyped DEF IInv, Label
<1> USE ParameterAssumption, NoneAssumption
        DEF ParameterAssumption, NoneAssumption, IInv, TypeOK, Revalidate, CallGetCurrent, Goto,
            At, files, control
<1>1. TypeOK'
  <2>1. local' \in [Handlers -> Local]
    BY <1>0
  <2>2. pc' \in [Handlers -> Label]
    BY DEF Label
  <2>3. QED
    BY <2>1, <2>2
<1>2. \A g \in Handlers : ControlOK(g)'
  BY DEF Local, ControlOK, Reading, Writing, Recording, Auditing, Label, NoRequest, EndpointSet
<1>3. \A g \in Handlers : DataOK(g)'
  <2>1. ASSUME NEW g \in Handlers, g # h PROVE DataOK(g)'
    BY <2>1 DEF DataOK, Reading, Writing, Recording, Auditing, Stored
  <2>2. DataOK(h)'
    BY DEF DataOK, ControlOK, Reading, Writing, Recording, Auditing, Stored, Outcome
  <2>3. QED
    BY <2>1, <2>2
<1>4. IdsOK'
  <2>1. \A g \in Handlers : Auditing(g)' => Auditing(g) /\ local'[g].id = local[g].id
    BY DEF Local, Auditing, EndpointSet
  <2>2. QED
    BY <2>1, IdsFrame
<1>5. \A g \in Handlers : AuditOK(g)'
  <2>1. ASSUME NEW g \in Handlers, g # h PROVE AuditOK(g)'
    BY <2>1 DEF AuditOK, Recording, Auditing, Bundle
  <2>2. local'[h].op = local[h].op /\ local'[h].id = local[h].id
    OBVIOUS
  <2>3. pc[h] = "revalidate" /\ pc'[h] \in {"list"}
    BY DEF ControlOK, Reading
  <2>4. AuditOK(h)'
    BY <2>2, <2>3 DEF AuditOK, Recording, Auditing
  <2>5. QED
    BY <2>1, <2>4
<1>6. RecordsOK'
  BY DEF Local, RecordsOK, Decisions, Audited
<1> QED
  BY <1>1, <1>2, <1>3, <1>4, <1>5, <1>6

LEMMA OpenAuditIInv ==
  ASSUME IInv, NEW h \in Handlers, OpenAudit(h)
  PROVE  IInv'
<1>r. CASE audit[local[h].id] # None
  BY <1>r, RespondIInv DEF OpenAudit, files, control
<1> SUFFICES ASSUME audit[local[h].id] = None PROVE IInv'
  BY <1>r
<1> USE ParameterAssumption, NoneAssumption
        DEF ParameterAssumption, NoneAssumption, IInv, TypeOK, OpenAudit, Goto, At, files,
            control
<1>1. TypeOK'
  <2>1. local' \in [Handlers -> Local]
    OBVIOUS
  <2>2. pc' \in [Handlers -> Label]
    BY DEF Label
  <2>4. audit' \in [AuditId -> AuditBundle \cup {None}]
    <3>1. [status |-> "TORN", before |-> 0, after |-> 0] \in AuditBundle
      BY DEF AuditBundle
    <3>2. QED
      BY <3>1
  <2>3. QED
    BY <2>1, <2>2, <2>4
<1>2. \A g \in Handlers : ControlOK(g)'
  BY DEF Local, ControlOK, Reading, Writing, Recording, Auditing, Label, NoRequest, EndpointSet
<1>3. \A g \in Handlers : DataOK(g)'
  BY DEF Local, DataOK, ControlOK, Reading, Writing, Recording, Auditing, Stored
<1>4. IdsOK'
  <2>1. local[h].id \in 1 .. requests
    BY DEF IdsOK, ControlOK
  <2>2. \A i \in AuditId : i > requests => audit'[i] = audit[i]
    BY <2>1
  <2>3. \A g \in Handlers : Auditing(g)' => Auditing(g) /\ local'[g].id = local[g].id
    BY DEF Auditing
  <2>4. requests' = requests
    OBVIOUS
  <2>5. QED
    BY <2>2, <2>3, <2>4, IdsFrame
<1>5. \A g \in Handlers : AuditOK(g)'
  <2>1. Auditing(h) /\ local[h].id \in AuditId
    BY DEF IdsOK, ControlOK, AuditId
  <2>2. ASSUME NEW g \in Handlers, g # h, Auditing(g) PROVE audit'[local[g].id] = audit[local[g].id]
    <3>1. local[g].id # local[h].id
      BY <2>1, <2>2 DEF IdsOK
    <3>2. audit' = [audit EXCEPT ![local[h].id] = [status |-> "TORN", before |-> 0, after |-> 0]]
      OBVIOUS
    <3>3. QED
      BY <3>1, <3>2
  <2>3. ASSUME NEW g \in Handlers, g # h PROVE AuditOK(g)'
    BY <2>2, <2>3 DEF AuditOK, Recording, Auditing, Bundle
  <2>4. audit'[local[h].id] = [status |-> "TORN", before |-> 0, after |-> 0]
    BY <2>1
  <2>5. AuditOK(h)'
    BY <2>1, <2>4 DEF AuditOK, Recording, Auditing, Bundle, ControlOK
  <2>6. QED
    BY <2>3, <2>5
<1>6. RecordsOK'
  <2>1. Auditing(h) /\ local[h].id \in AuditId
    BY DEF IdsOK, ControlOK, AuditId
  <2>2. audit[local[h].id] = None
    BY <2>1 DEF AuditOK
  <2>3. \A rec \in ReleaseRecord : Audited(rec) => Audited(rec)'
    BY <2>1, <2>2 DEF Audited, ReleaseRecord
  <2>4. QED
    BY <2>3 DEF RecordsOK, Decisions
<1> QED
  BY <1>1, <1>2, <1>3, <1>4, <1>5, <1>6

LEMMA WriteAuditIInv ==
  ASSUME IInv, NEW h \in Handlers, WriteAudit(h)
  PROVE  IInv'
<1> USE ParameterAssumption, NoneAssumption
        DEF ParameterAssumption, NoneAssumption, IInv, TypeOK, WriteAudit, Goto, At, files,
            control
<1>1. TypeOK'
  <2>1. local' \in [Handlers -> Local]
    OBVIOUS
  <2>2. pc' \in [Handlers -> Label]
    BY DEF Label
  <2>4. audit' \in [AuditId -> AuditBundle \cup {None}]
    BY BundleTyped DEF DataOK
  <2>3. QED
    BY <2>1, <2>2, <2>4
<1>2. \A g \in Handlers : ControlOK(g)'
  BY DEF Local, ControlOK, Reading, Writing, Recording, Auditing, Label, NoRequest, EndpointSet
<1>3. \A g \in Handlers : DataOK(g)'
  BY DEF Local, DataOK, ControlOK, Reading, Writing, Recording, Auditing, Stored
<1>4. IdsOK'
  <2>1. local[h].id \in 1 .. requests
    BY DEF IdsOK, ControlOK
  <2>2. \A i \in AuditId : i > requests => audit'[i] = audit[i]
    BY <2>1
  <2>3. \A g \in Handlers : Auditing(g)' => Auditing(g) /\ local'[g].id = local[g].id
    BY DEF Auditing
  <2>4. requests' = requests
    OBVIOUS
  <2>5. QED
    BY <2>2, <2>3, <2>4, IdsFrame
<1>5. \A g \in Handlers : AuditOK(g)'
  <2>1. Auditing(h) /\ local[h].id \in AuditId
    BY DEF IdsOK, ControlOK, AuditId
  <2>2. ASSUME NEW g \in Handlers, g # h, Auditing(g) PROVE audit'[local[g].id] = audit[local[g].id]
    BY <2>1, <2>2 DEF IdsOK
  <2>3. ASSUME NEW g \in Handlers, g # h PROVE AuditOK(g)'
    BY <2>2, <2>3 DEF AuditOK, Recording, Auditing, Bundle
  <2>4. audit'[local[h].id] = Bundle(h)
    BY <2>1
  <2>5. AuditOK(h)'
    BY <2>1, <2>4 DEF AuditOK, Recording, Auditing, Bundle, ControlOK
  <2>6. QED
    BY <2>3, <2>5
<1>6. RecordsOK'
  <2>1. Auditing(h) /\ local[h].id \in AuditId
    BY DEF IdsOK, ControlOK, AuditId
  <2>2. audit[local[h].id].status = "TORN"
    BY <2>1 DEF AuditOK
  <2>3. \A rec \in ReleaseRecord : Audited(rec) => Audited(rec)'
    BY <2>1, <2>2 DEF Audited, ReleaseRecord
  <2>4. QED
    BY <2>3 DEF RecordsOK, Decisions
<1> QED
  BY <1>1, <1>2, <1>3, <1>4, <1>5, <1>6

LEMMA StageRecordIInv ==
  ASSUME IInv, NEW h \in Handlers, StageRecord(h)
  PROVE  IInv'
<1> USE ParameterAssumption, NoneAssumption
        DEF ParameterAssumption, NoneAssumption, IInv, TypeOK, StageRecord, Goto, At, files,
            control
<1>1. TypeOK'
  <2>1. local' \in [Handlers -> Local]
    OBVIOUS
  <2>2. pc' \in [Handlers -> Label]
    BY DEF Label
  <2>4. recordTmp' \in [Releases -> RecordFile]
    BY DEF RecordFile, Unreadable
  <2>5. handle' \in [Handlers -> Handle]
    BY HandleTyped
  <2>3. QED
    BY <2>1, <2>2, <2>4, <2>5
<1>2. \A g \in Handlers : ControlOK(g)'
  BY DEF Local, ControlOK, Reading, Writing, Recording, Auditing, Label, NoRequest, EndpointSet
<1>3. \A g \in Handlers : DataOK(g)'
  BY DEF Local, DataOK, ControlOK, Reading, Writing, Recording, Auditing, Stored
<1>4. IdsOK'
  <2>1. \A g \in Handlers : Auditing(g)' => Auditing(g) /\ local'[g].id = local[g].id
    BY DEF Local, Auditing, EndpointSet
  <2>2. QED
    BY <2>1, IdsFrame
<1>5. \A g \in Handlers : AuditOK(g)'
  BY DEF Local, AuditOK, Auditing, Bundle, ControlOK, Reading, Writing, Recording, EndpointSet
<1>6. RecordsOK'
  BY FileAssumption DEF FileAssumption, RecordsOK, Decisions, Audited
<1> QED
  BY <1>1, <1>2, <1>3, <1>4, <1>5, <1>6

LEMMA FillRecordIInv ==
  ASSUME IInv, NEW h \in Handlers, FillRecord(h)
  PROVE  IInv'
<1> USE ParameterAssumption, NoneAssumption
        DEF ParameterAssumption, NoneAssumption, IInv, TypeOK, FillRecord, Goto, At, files,
            control
<1>1. TypeOK'
  <2>1. local' \in [Handlers -> Local]
    OBVIOUS
  <2>2. pc' \in [Handlers -> Label]
    BY DEF Label
  <2>4. local[h].doc.version \in 0 .. MaxVersion /\ local[h].outcome \in Outcome
    BY VersionOfDocument DEF DataOK, Recording
  <2>5. local[h].base \in Version
    BY DEF ControlOK, Recording
  <2>6. Decided(h) \in ReleaseRecord
    BY <2>4, <2>5 DEF Decided, ReleaseRecord, Status, Outcome, Local
  <2>7. local[h].release \in Releases
    BY DEF ControlOK, Recording, Local
  <2>8. \A old : Written(old, Decided(h)) \subseteq RecordFile
    BY <2>6 DEF Written, RecordFile, Unreadable
  <2>9. recordTmp' \in [Releases -> RecordFile]
    BY <2>7, <2>8
  <2>10. record' \in [Releases -> RecordFile]
    BY <2>7, <2>8
  <2>11. handle' \in [Handlers -> Handle]
    BY HandleTyped
  <2>3. QED
    BY <2>1, <2>2, <2>9, <2>10, <2>11
<1>2. \A g \in Handlers : ControlOK(g)'
  BY DEF Local, ControlOK, Reading, Writing, Recording, Auditing, Label, NoRequest, EndpointSet
<1>3. \A g \in Handlers : DataOK(g)'
  BY DEF Local, DataOK, ControlOK, Reading, Writing, Recording, Auditing, Stored
<1>4. IdsOK'
  <2>1. \A g \in Handlers : Auditing(g)' => Auditing(g) /\ local'[g].id = local[g].id
    BY DEF Local, Auditing, EndpointSet
  <2>2. QED
    BY <2>1, IdsFrame
<1>5. \A g \in Handlers : AuditOK(g)'
  BY DEF Local, AuditOK, Auditing, Bundle, ControlOK, Reading, Writing, Recording, EndpointSet
<1>6. RecordsOK'
  <2>1. Auditing(h) /\ local[h].op = "DECIDE" /\ local[h].id \in AuditId /\ local[h].outcome \in Outcome
    BY DEF IdsOK, ControlOK, AuditId, DataOK, Recording
  <2>2. audit[local[h].id] = Bundle(h)
    BY <2>1 DEF AuditOK, Recording
  <2>3. Bundle(h) \in AuditBundle
    BY <2>1, BundleTyped DEF DataOK, Recording
  <2>4. Audited(Decided(h))
    BY <2>1, <2>2, <2>3 DEF Audited, Decided, Bundle, Outcome
  <2>5. \A r \in Releases :
           /\ record'[r] \in {record[r], Decided(h), Torn}
           /\ recordTmp'[r] \in {recordTmp[r], Decided(h), Torn}
    BY WrittenFile
  <2>6. Torn \notin ReleaseRecord
    BY FileAssumption DEF FileAssumption
  <2>7. QED
    BY <2>4, <2>5, <2>6 DEF RecordsOK, Decisions, Audited
<1> QED
  BY <1>1, <1>2, <1>3, <1>4, <1>5, <1>6

LEMMA PublishRecordIInv ==
  ASSUME IInv, NEW h \in Handlers, PublishRecord(h)
  PROVE  IInv'
<1>r. CASE recordTmp[local[h].release] = None
  BY <1>r, RespondIInv DEF PublishRecord, files, control
<1> SUFFICES ASSUME recordTmp[local[h].release] # None PROVE IInv'
  BY <1>r
<1> USE ParameterAssumption, NoneAssumption
        DEF ParameterAssumption, NoneAssumption, IInv, TypeOK, PublishRecord, Respond,
            NoRequest, Goto, At, files, control
<1>1. TypeOK'
  <2>1. local' \in [Handlers -> Local]
    BY NoRequestTyped
  <2>2. pc' \in [Handlers -> Label]
    BY DEF Label
  <2>9. handle' \in [Handlers -> Handle]
    BY HandleTyped
  <2>3. QED
    BY <2>9, <2>1, <2>2 DEF RecordFile
<1>2. \A g \in Handlers : ControlOK(g)'
  BY DEF Local, ControlOK, Reading, Writing, Recording, Auditing, Label, NoRequest, EndpointSet
<1>3. \A g \in Handlers : DataOK(g)'
  BY DEF Local, DataOK, ControlOK, Reading, Writing, Recording, Auditing, Stored
<1>4. IdsOK'
  <2>1. \A g \in Handlers : Auditing(g)' => Auditing(g) /\ local'[g].id = local[g].id
    BY DEF Local, Auditing, EndpointSet
  <2>2. QED
    BY <2>1, IdsFrame
<1>5. \A g \in Handlers : AuditOK(g)'
  BY DEF Local, AuditOK, Auditing, Bundle, ControlOK, Reading, Writing, Recording, EndpointSet
<1>6. RecordsOK'
  <2>1. \A r \in Releases :
           /\ record'[r] \in {record[r], recordTmp[r]}
           /\ recordTmp'[r] \in {recordTmp[r], None}
    OBVIOUS
  <2>2. None \notin ReleaseRecord
    BY FileAssumption DEF FileAssumption
  <2>3. QED
    BY <2>1, <2>2 DEF RecordsOK, Decisions, Audited
<1> QED
  BY <1>1, <1>2, <1>3, <1>4, <1>5, <1>6

LEMMA FinishIInv ==
  ASSUME IInv, NEW h \in Handlers, Finish(h)
  PROVE  IInv'
BY RespondIInv DEF Finish

LEMMA RestartIInv ==
  ASSUME IInv, Restart
  PROVE  IInv'
<1> USE ParameterAssumption, NoneAssumption
    DEF ParameterAssumption, NoneAssumption, IInv, TypeOK, Restart, At, files
<1>1. TypeOK'
  BY NoRequestTyped DEF Label, Handle
<1>2. \A g \in Handlers : ControlOK(g)' /\ DataOK(g)'
  BY DEF ControlOK, DataOK, Reading, Writing, Recording, Auditing, NoRequest, EndpointSet
<1>3. \A g \in Handlers : ~Auditing(g)'
  BY DEF Auditing, NoRequest, EndpointSet
<1>4. IdsOK'
  BY <1>3 DEF IdsOK
<1>5. \A g \in Handlers : AuditOK(g)'
  BY <1>3 DEF AuditOK
<1>6. RecordsOK'
  BY DEF RecordsOK, Decisions, Audited
<1> QED
  BY <1>1, <1>2, <1>4, <1>5, <1>6

LEMMA StutterIInv ==
  ASSUME IInv, UNCHANGED vars
  PROVE  IInv'
BY DEF IInv, TypeOK, ControlOK, DataOK, IdsOK, AuditOK, RecordsOK, Decisions, Audited,
       Bundle, Stored, Reading, Writing, Recording, Auditing, At, vars, files, control

LEMMA NextIInv == IInv /\ [Next]_vars => IInv'
<1> SUFFICES ASSUME IInv, [Next]_vars PROVE IInv'
  OBVIOUS
<1>1. CASE Restart
  BY <1>1, RestartIInv
<1>2. ASSUME NEW h \in Handlers, Request(h) PROVE IInv'
  BY <1>2, StartRequestIInv, StartApplyIInv, StartDecisionIInv DEF Request
<1>3. ASSUME NEW h \in Handlers, Step(h) PROVE IInv'
  <2>1. CASE ListVersions(h) \/ ReadPointer(h) \/ TakePointer(h) \/ LoadLatest(h)
             \/ StagePointer(h) \/ FillPointer(h) \/ PublishPointer(h)
    BY <2>1, ListVersionsIInv, ReadPointerIInv, TakePointerIInv, LoadLatestIInv,
       StagePointerIInv, FillPointerIInv, PublishPointerIInv
  <2>2. CASE PrepareAgain(h) \/ \E r \in Releases, base \in Version : SaveRelease(h, r, base)
    BY <2>2, PrepareAgainIInv, SaveReleaseIInv
  <2>3. CASE Firewall(h) \/ NumberVersion(h) \/ StampVersion(h) \/ CheckVersion(h)
             \/ StageVersion(h) \/ FillVersion(h) \/ PublishVersion(h) \/ ResetState(h)
    BY <2>3, FirewallIInv, NumberVersionIInv, StampVersionIInv, CheckVersionIInv,
       StageVersionIInv, FillVersionIInv, PublishVersionIInv, ResetStateIInv
  <2>4. CASE Revalidate(h) \/ OpenAudit(h) \/ WriteAudit(h)
    BY <2>4, RevalidateIInv, OpenAuditIInv, WriteAuditIInv
  <2>5. CASE StageRecord(h) \/ FillRecord(h) \/ PublishRecord(h) \/ Finish(h)
    BY <2>5, StageRecordIInv, FillRecordIInv, PublishRecordIInv, FinishIInv
  <2>6. QED
    BY <1>3, <2>1, <2>2, <2>3, <2>4, <2>5 DEF Step
<1>4. CASE UNCHANGED vars
  BY <1>4, StutterIInv
<1>5. QED
  BY <1>1, <1>2, <1>3, <1>4 DEF Next

\* In every reachable state of the release gate, whatever requests run at the
\* same time and wherever restarts strike, IInv holds: the handlers' control
\* and data, the audit ids they own, their audit files and the records agree.
THEOREM InvariantHolds == Spec => []IInv
<1>1. Init => IInv
  BY InitIInv
<1>2. IInv /\ [Next]_vars => IInv'
  BY NextIInv
<1>3. QED
  BY <1>1, <1>2, PTL DEF Spec

-------------------------------------------------------------------------------
(***************************************************************************)
(* What a reader of the release gate wants to know.                        *)
(***************************************************************************)

\* Every file, every temporary file and every local variable of a handler
\* keeps its type.
THEOREM TypeCorrect == Spec => []TypeOK
<1>1. IInv => TypeOK
  BY DEF IInv
<1>2. QED
  BY <1>1, InvariantHolds, PTL

\* record_release_decision saves the audit bundle before the record: a decided
\* release always names a complete bundle with the verdict of the record, also
\* when decisions race and when the process restarts between the two files.
THEOREM DecisionsAreAudited == Spec => []DecisionAudited
<1>1. IInv => DecisionAudited
  BY DEF IInv, RecordsOK, DecisionAudited, Decisions
<1>2. QED
  BY <1>1, InvariantHolds, PTL

\* A step that writes an audit file writes the file of its own request, which
\* is missing or torn.
LEMMA AuditStep ==
  ASSUME IInv, [Next]_vars, NEW i \in AuditId, audit[i] # None, audit[i].status # "TORN"
  PROVE  audit'[i] = audit[i]
<1>1. CASE audit' = audit
  BY <1>1
<1>2. ASSUME NEW h \in Handlers, OpenAudit(h) PROVE audit'[i] = audit[i]
  <2>1. Auditing(h) /\ audit[local[h].id] = None
    BY <1>2 DEF IInv, ControlOK, AuditOK, Recording, OpenAudit, At
  <2>2. QED
    BY <1>2, <2>1 DEF OpenAudit, IInv, TypeOK
<1>3. ASSUME NEW h \in Handlers, WriteAudit(h) PROVE audit'[i] = audit[i]
  <2>1. Auditing(h) /\ audit[local[h].id].status = "TORN"
    BY <1>3 DEF IInv, ControlOK, AuditOK, WriteAudit, At
  <2>2. QED
    BY <1>3, <2>1 DEF WriteAudit, IInv, TypeOK
<1>4. \/ audit' = audit
      \/ \E h \in Handlers : OpenAudit(h) \/ WriteAudit(h)
  <2>1. CASE Restart \/ UNCHANGED vars
    BY <2>1 DEF Restart, vars, files
  <2>2. ASSUME NEW h \in Handlers, Request(h) PROVE audit' = audit
    BY <2>2 DEF Request, StartRequest, StartApply, StartDecision, files
  <2>3. ASSUME NEW h \in Handlers, Step(h) PROVE audit' = audit \/ OpenAudit(h) \/ WriteAudit(h)
    BY <2>3 DEF Step, ListVersions, ReadPointer, TakePointer, LoadLatest, StagePointer,
       FillPointer, PublishPointer, PrepareAgain, SaveRelease, Firewall, NumberVersion, StampVersion,
       CheckVersion, StageVersion, FillVersion, PublishVersion, ResetState, Revalidate, StageRecord, FillRecord, PublishRecord,
       Finish, files
  <2>4. QED
    BY <2>1, <2>2, <2>3 DEF Next
<1>5. QED
  BY <1>1, <1>2, <1>3, <1>4

\* Once complete, an audit bundle is never written again, by no decision and
\* no restart.
THEOREM AuditBundlesAreImmutable == Spec => AuditImmutable
<1>1. IInv /\ [Next]_vars =>
        [\A i \in AuditId : audit[i] # None /\ audit[i].status # "TORN" => audit'[i] = audit[i]]_vars
  BY AuditStep
<1>2. QED
  BY <1>1, InvariantHolds, PTL DEF Spec, AuditImmutable
-------------------------------------------------------------------------------
(***************************************************************************)
(* A released patch was applied to the version it was made for.  GateInv   *)
(* is inductive relative to IInv; the steps below take its conjuncts one   *)
(* at a time.                                                              *)
(***************************************************************************)

LEMMA InitGate == Init => GateInv
<1> SUFFICES ASSUME Init PROVE GateInv
  OBVIOUS
<1> USE NoneAssumption, FileAssumption DEF NoneAssumption, FileAssumption, Outcome
<1>1. \A h \in Handlers : OutcomeOK(h)
  BY DEF Init, OutcomeOK, NoRequest, At, Reading
<1>2. \A d \in Documents : d = SeedDocument
  BY DEF Init, Documents, NoRequest
<1>3. DocumentsTraced
  BY <1>2 DEF DocumentsTraced, Traced, SeedDocument
<1>4. RecordsBased
  BY DEF Init, RecordsBased
<1>5. QED
  BY <1>1, <1>3, <1>4 DEF GateInv

\* The outcome of a request is only given where it is not known yet.
LEMMA OutcomeStep ==
  ASSUME IInv, \A g \in Handlers : OutcomeOK(g), NEW h \in Handlers, Request(h) \/ Step(h)
  PROVE  \A g \in Handlers : OutcomeOK(g)'
<1> USE NoneAssumption
        DEF NoneAssumption, Outcome, IInv, TypeOK, Goto, At, Respond, Unnumbered, NoRequest
<1>1. ASSUME NEW op \in EndpointSet, StartRequest(h, op)
      PROVE  \A g \in Handlers : OutcomeOK(g)'
  BY <1>1 DEF StartRequest, CallGetCurrent, OutcomeOK, Reading, Recording, Local
<1>2. ASSUME NEW base \in Version, StartApply(h, base)
      PROVE  \A g \in Handlers : OutcomeOK(g)'
  BY <1>2 DEF StartApply, CallGetCurrent, OutcomeOK, Reading, Recording, Local
<1>3. ASSUME NEW r \in Releases, NEW decision \in Decision, StartDecision(h, r, decision)
      PROVE  \A g \in Handlers : OutcomeOK(g)'
  BY <1>3 DEF StartDecision, CallGetCurrent, OutcomeOK, Reading, Recording, Local
<1>4. ASSUME NEW r \in Releases, NEW base \in Version, SaveRelease(h, r, base)
      PROVE  \A g \in Handlers : OutcomeOK(g)'
  BY <1>4 DEF SaveRelease, CallGetCurrent, OutcomeOK, Reading, Recording, Local
<1>5. ASSUME ListVersions(h) PROVE \A g \in Handlers : OutcomeOK(g)'
  <2>1. \/ pc' = [pc EXCEPT ![h] = "point"] /\ \E n \in Stored : local' = [local EXCEPT ![h].seen = n]
        \/ pc' = [pc EXCEPT ![h] = "idle"] /\ local' = [local EXCEPT ![h] = NoRequest]
    BY <1>5 DEF ListVersions
  <2>2. CASE pc' = [pc EXCEPT ![h] = "point"] /\ \E n \in Stored : local' = [local EXCEPT ![h].seen = n]
    BY <1>5, <2>2 DEF OutcomeOK, ControlOK, Reading, Recording, Local, ListVersions
  <2>3. CASE pc' = [pc EXCEPT ![h] = "idle"] /\ local' = [local EXCEPT ![h] = NoRequest]
    BY <1>5, <2>3 DEF OutcomeOK, ControlOK, Reading, Recording, Local, ListVersions
  <2>4. QED
    BY <2>1, <2>2, <2>3
<1>6. ASSUME ReadPointer(h) PROVE \A g \in Handlers : OutcomeOK(g)'
  BY <1>6 DEF ReadPointer, CallGetCurrent, OutcomeOK, ControlOK, Reading, Recording, Local
<1>7. ASSUME TakePointer(h) PROVE \A g \in Handlers : OutcomeOK(g)'
  BY <1>7 DEF TakePointer, CallGetCurrent, OutcomeOK, ControlOK, Reading, Recording, Local
<1>8. ASSUME LoadLatest(h) PROVE \A g \in Handlers : OutcomeOK(g)'
  BY <1>8 DEF LoadLatest, CallGetCurrent, OutcomeOK, ControlOK, Reading, Recording, Local
<1>9. ASSUME StagePointer(h) PROVE \A g \in Handlers : OutcomeOK(g)'
  BY <1>9 DEF StagePointer, CallGetCurrent, OutcomeOK, ControlOK, Reading, Recording, Local
<1>10. ASSUME FillPointer(h) PROVE \A g \in Handlers : OutcomeOK(g)'
  BY <1>10 DEF FillPointer, CallGetCurrent, OutcomeOK, ControlOK, Reading, Recording, Local
<1>11. ASSUME PublishPointer(h) PROVE \A g \in Handlers : OutcomeOK(g)'
  BY <1>11 DEF PublishPointer, CallGetCurrent, OutcomeOK, ControlOK, Reading, Recording, Local
<1>12. ASSUME PrepareAgain(h) PROVE \A g \in Handlers : OutcomeOK(g)'
  BY <1>12 DEF PrepareAgain, CallGetCurrent, OutcomeOK, ControlOK, Reading, Recording, Local
<1>13. ASSUME Firewall(h) PROVE \A g \in Handlers : OutcomeOK(g)'
  BY <1>13 DEF Firewall, CallGetCurrent, OutcomeOK, ControlOK, Reading, Recording, Local
<1>14. ASSUME NumberVersion(h) PROVE \A g \in Handlers : OutcomeOK(g)'
  <2>1. \/ pc' = [pc EXCEPT ![h] = "numbered"] /\ \E n \in Stored : local' = [local EXCEPT ![h].seen = n]
        \/ pc' = [pc EXCEPT ![h] = "openAudit"] /\ local' = [local EXCEPT ![h].outcome = "INVALID"]
    BY <1>14 DEF NumberVersion
  <2>2. CASE pc' = [pc EXCEPT ![h] = "numbered"] /\ \E n \in Stored : local' = [local EXCEPT ![h].seen = n]
    BY <1>14, <2>2 DEF OutcomeOK, ControlOK, Reading, Recording, Local, NumberVersion
  <2>3. CASE pc' = [pc EXCEPT ![h] = "openAudit"] /\ local' = [local EXCEPT ![h].outcome = "INVALID"]
    BY <1>14, <2>3 DEF OutcomeOK, ControlOK, Reading, Recording, Local, NumberVersion
  <2>4. QED
    BY <2>1, <2>2, <2>3
<1>15. ASSUME StampVersion(h) PROVE \A g \in Handlers : OutcomeOK(g)'
  BY <1>15 DEF StampVersion, CallGetCurrent, OutcomeOK, ControlOK, Reading, Recording, Local
<1>16. ASSUME CheckVersion(h) PROVE \A g \in Handlers : OutcomeOK(g)'
  <2>1. \/ pc' = [pc EXCEPT ![h] = "stageVersion"] /\ local' = local
        \/ pc' = [pc EXCEPT ![h] = "idle"] /\ local' = [local EXCEPT ![h] = NoRequest]
    BY <1>16 DEF CheckVersion
  <2>2. CASE pc' = [pc EXCEPT ![h] = "stageVersion"] /\ local' = local
    BY <1>16, <2>2 DEF OutcomeOK, ControlOK, Reading, Recording, Local, CheckVersion
  <2>3. CASE pc' = [pc EXCEPT ![h] = "idle"] /\ local' = [local EXCEPT ![h] = NoRequest]
    BY <1>16, <2>3 DEF OutcomeOK, ControlOK, Reading, Recording, Local, CheckVersion
  <2>4. QED
    BY <2>1, <2>2, <2>3
<1>17. ASSUME StageVersion(h) PROVE \A g \in Handlers : OutcomeOK(g)'
  BY <1>17 DEF StageVersion, CallGetCurrent, OutcomeOK, ControlOK, Reading, Recording, Local
<1>18. ASSUME FillVersion(h) PROVE \A g \in Handlers : OutcomeOK(g)'
  BY <1>18 DEF FillVersion, CallGetCurrent, OutcomeOK, ControlOK, Reading, Recording, Local
<1>19. ASSUME PublishVersion(h) PROVE \A g \in Handlers : OutcomeOK(g)'
  <2>1. \/ pc' \in {[pc EXCEPT ![h] = "respond"], [pc EXCEPT ![h] = "stagePointer"]}
           /\ local' = [local EXCEPT ![h].return = "openAudit"]
        \/ pc' = [pc EXCEPT ![h] = "idle"] /\ local' = [local EXCEPT ![h] = NoRequest]
    BY <1>19 DEF PublishVersion
  <2>2. CASE pc' \in {[pc EXCEPT ![h] = "respond"], [pc EXCEPT ![h] = "stagePointer"]}
            /\ local' = [local EXCEPT ![h].return = "openAudit"]
    BY <1>19, <2>2 DEF OutcomeOK, ControlOK, Reading, Recording, Local, PublishVersion
  <2>3. CASE pc' = [pc EXCEPT ![h] = "idle"] /\ local' = [local EXCEPT ![h] = NoRequest]
    BY <1>19, <2>3 DEF OutcomeOK, ControlOK, Reading, Recording, Local, PublishVersion
  <2>4. QED
    BY <2>1, <2>2, <2>3
<1>20. ASSUME ResetState(h) PROVE \A g \in Handlers : OutcomeOK(g)'
  BY <1>20 DEF ResetState, CallGetCurrent, OutcomeOK, ControlOK, Reading, Recording, Local
<1>21. ASSUME Revalidate(h) PROVE \A g \in Handlers : OutcomeOK(g)'
  BY <1>21 DEF Revalidate, CallGetCurrent, OutcomeOK, ControlOK, Reading, Recording, Local
<1>22. ASSUME OpenAudit(h) PROVE \A g \in Handlers : OutcomeOK(g)'
  <2>1. \/ pc' = [pc EXCEPT ![h] = "writeAudit"] /\ local' = local
        \/ pc' = [pc EXCEPT ![h] = "idle"] /\ local' = [local EXCEPT ![h] = NoRequest]
    BY <1>22 DEF OpenAudit
  <2>2. CASE pc' = [pc EXCEPT ![h] = "writeAudit"] /\ local' = local
    BY <1>22, <2>2 DEF OutcomeOK, ControlOK, Reading, Recording, Local, OpenAudit
  <2>3. CASE pc' = [pc EXCEPT ![h] = "idle"] /\ local' = [local EXCEPT ![h] = NoRequest]
    BY <1>22, <2>3 DEF OutcomeOK, ControlOK, Reading, Recording, Local, OpenAudit
  <2>4. QED
    BY <2>1, <2>2, <2>3
<1>23. ASSUME WriteAudit(h) PROVE \A g \in Handlers : OutcomeOK(g)'
  BY <1>23 DEF WriteAudit, CallGetCurrent, OutcomeOK, ControlOK, Reading, Recording, Local
<1>24. ASSUME StageRecord(h) PROVE \A g \in Handlers : OutcomeOK(g)'
  BY <1>24 DEF StageRecord, CallGetCurrent, OutcomeOK, ControlOK, Reading, Recording, Local
<1>25. ASSUME FillRecord(h) PROVE \A g \in Handlers : OutcomeOK(g)'
  BY <1>25 DEF FillRecord, CallGetCurrent, OutcomeOK, ControlOK, Reading, Recording, Local
<1>26. ASSUME PublishRecord(h) PROVE \A g \in Handlers : OutcomeOK(g)'
  BY <1>26 DEF PublishRecord, CallGetCurrent, OutcomeOK, ControlOK, Reading, Recording, Local
<1>27. ASSUME Finish(h) PROVE \A g \in Handlers : OutcomeOK(g)'
  BY <1>27 DEF Finish, CallGetCurrent, OutcomeOK, ControlOK, Reading, Recording, Local
<1>28. QED
  BY <1>1, <1>2, <1>3, <1>4, <1>5, <1>6, <1>7, <1>8, <1>9, <1>10, <1>11, <1>12, <1>13, <1>14,
     <1>15, <1>16, <1>17, <1>18, <1>19, <1>20, <1>21, <1>22, <1>23, <1>24, <1>25, <1>26, <1>27
     DEF Request, Step

\* A request keeps its id, its verdict once it has stamped a document, and the
\* fact that it has; a new request has a new id.
KeepsStamp(g) ==
  Auditing(g)' =>
    \/ local'[g].id > requests
    \/ /\ Auditing(g) /\ local'[g].id = local[g].id
       /\ Unstamped(g) \/ (~Unstamped(g)' /\ local'[g].before = local[g].before)

LEMMA StampStep ==
  ASSUME IInv, NEW h \in Handlers, Request(h) \/ Step(h)
  PROVE  \A g \in Handlers : KeepsStamp(g)
<1>a. requests \in Nat
  BY ParameterAssumption DEF IInv, TypeOK, ParameterAssumption
<1> USE NoneAssumption
        DEF NoneAssumption, EndpointSet, IInv, TypeOK, Goto, At, Respond, Unnumbered, NoRequest,
            KeepsStamp, Unstamped, Auditing
<1>1. ASSUME NEW op \in EndpointSet, StartRequest(h, op)
      PROVE  \A g \in Handlers : KeepsStamp(g)
  BY <1>1, <1>a DEF StartRequest, CallGetCurrent, ControlOK, Reading, Local
<1>2. ASSUME NEW base \in Version, StartApply(h, base)
      PROVE  \A g \in Handlers : KeepsStamp(g)
  BY <1>2, <1>a DEF StartApply, CallGetCurrent, ControlOK, Reading, Local
<1>3. ASSUME NEW r \in Releases, NEW decision \in Decision, StartDecision(h, r, decision)
      PROVE  \A g \in Handlers : KeepsStamp(g)
  BY <1>3, <1>a DEF StartDecision, CallGetCurrent, ControlOK, Reading, Local
<1>4. ASSUME NEW r \in Releases, NEW base \in Version, SaveRelease(h, r, base)
      PROVE  \A g \in Handlers : KeepsStamp(g)
  BY <1>4, <1>a DEF SaveRelease, CallGetCurrent, ControlOK, Reading, Local
<1>5. ASSUME ListVersions(h) PROVE \A g \in Handlers : KeepsStamp(g)
  <2>1. \/ pc' = [pc EXCEPT ![h] = "point"] /\ \E n \in Stored : local' = [local EXCEPT ![h].seen = n]
        \/ pc' = [pc EXCEPT ![h] = "idle"] /\ local' = [local EXCEPT ![h] = NoRequest]
    BY <1>5 DEF ListVersions
  <2>2. CASE pc' = [pc EXCEPT ![h] = "point"] /\ \E n \in Stored : local' = [local EXCEPT ![h].seen = n]
    BY <1>5, <2>2 DEF ControlOK, Reading, Local, ListVersions
  <2>3. CASE pc' = [pc EXCEPT ![h] = "idle"] /\ local' = [local EXCEPT ![h] = NoRequest]
    BY <1>5, <2>3 DEF ControlOK, Reading, Local, ListVersions
  <2>4. QED
    BY <2>1, <2>2, <2>3
<1>6. ASSUME ReadPointer(h) PROVE \A g \in Handlers : KeepsStamp(g)
  BY <1>6 DEF ReadPointer, CallGetCurrent, ControlOK, Reading, Recording, Local
<1>7. ASSUME TakePointer(h) PROVE \A g \in Handlers : KeepsStamp(g)
  BY <1>7 DEF TakePointer, CallGetCurrent, ControlOK, Reading, Recording, Local
<1>8. ASSUME LoadLatest(h) PROVE \A g \in Handlers : KeepsStamp(g)
  BY <1>8 DEF LoadLatest, CallGetCurrent, ControlOK, Reading, Recording, Local
<1>9. ASSUME StagePointer(h) PROVE \A g \in Handlers : KeepsStamp(g)
  BY <1>9 DEF StagePointer, CallGetCurrent, ControlOK, Reading, Recording, Local
<1>10. ASSUME FillPointer(h) PROVE \A g \in Handlers : KeepsStamp(g)
  BY <1>10 DEF FillPointer, CallGetCurrent, ControlOK, Reading, Recording, Local
<1>11. ASSUME PublishPointer(h) PROVE \A g \in Handlers : KeepsStamp(g)
  BY <1>11 DEF PublishPointer, CallGetCurrent, ControlOK, Reading, Recording, Local
<1>12. ASSUME PrepareAgain(h) PROVE \A g \in Handlers : KeepsStamp(g)
  BY <1>12 DEF PrepareAgain, CallGetCurrent, ControlOK, Reading, Recording, Local
<1>13. ASSUME Firewall(h) PROVE \A g \in Handlers : KeepsStamp(g)
  <2>1. \A g \in Handlers : local'[g].id = local[g].id /\ local'[g].op = local[g].op
    BY <1>13 DEF Firewall, Local
  <2>2. \A g \in Handlers \ {h} : local'[g] = local[g] /\ pc'[g] = pc[g]
    BY <1>13 DEF Firewall, Local
  <2>3. Unstamped(h)
    BY <1>13 DEF Firewall
  <2>4. QED
    BY <2>1, <2>2, <2>3
<1>14. ASSUME NumberVersion(h) PROVE \A g \in Handlers : KeepsStamp(g)
  <2>1. \/ pc' = [pc EXCEPT ![h] = "numbered"] /\ \E n \in Stored : local' = [local EXCEPT ![h].seen = n]
        \/ pc' = [pc EXCEPT ![h] = "openAudit"] /\ local' = [local EXCEPT ![h].outcome = "INVALID"]
    BY <1>14 DEF NumberVersion
  <2>2. CASE pc' = [pc EXCEPT ![h] = "numbered"] /\ \E n \in Stored : local' = [local EXCEPT ![h].seen = n]
    BY <1>14, <2>2 DEF ControlOK, Reading, Local, NumberVersion
  <2>3. CASE pc' = [pc EXCEPT ![h] = "openAudit"] /\ local' = [local EXCEPT ![h].outcome = "INVALID"]
    BY <1>14, <2>3 DEF ControlOK, Reading, Local, NumberVersion
  <2>4. QED
    BY <2>1, <2>2, <2>3
<1>15. ASSUME StampVersion(h) PROVE \A g \in Handlers : KeepsStamp(g)
  BY <1>15 DEF StampVersion, CallGetCurrent, ControlOK, Reading, Recording, Local
<1>16. ASSUME CheckVersion(h) PROVE \A g \in Handlers : KeepsStamp(g)
  BY <1>16 DEF CheckVersion, CallGetCurrent, ControlOK, Reading, Recording, Local
<1>17. ASSUME StageVersion(h) PROVE \A g \in Handlers : KeepsStamp(g)
  BY <1>17 DEF StageVersion, CallGetCurrent, ControlOK, Reading, Recording, Local
<1>18. ASSUME FillVersion(h) PROVE \A g \in Handlers : KeepsStamp(g)
  BY <1>18 DEF FillVersion, CallGetCurrent, ControlOK, Reading, Recording, Local
<1>19. ASSUME PublishVersion(h) PROVE \A g \in Handlers : KeepsStamp(g)
  BY <1>19 DEF PublishVersion, CallGetCurrent, ControlOK, Reading, Recording, Local
<1>20. ASSUME ResetState(h) PROVE \A g \in Handlers : KeepsStamp(g)
  BY <1>20 DEF ResetState, CallGetCurrent, ControlOK, Reading, Recording, Local
<1>21. ASSUME Revalidate(h) PROVE \A g \in Handlers : KeepsStamp(g)
  BY <1>21 DEF Revalidate, CallGetCurrent, ControlOK, Reading, Recording, Local
<1>22. ASSUME OpenAudit(h) PROVE \A g \in Handlers : KeepsStamp(g)
  BY <1>22 DEF OpenAudit, CallGetCurrent, ControlOK, Reading, Recording, Local
<1>23. ASSUME WriteAudit(h) PROVE \A g \in Handlers : KeepsStamp(g)
  BY <1>23 DEF WriteAudit, CallGetCurrent, ControlOK, Reading, Recording, Local
<1>24. ASSUME StageRecord(h) PROVE \A g \in Handlers : KeepsStamp(g)
  BY <1>24 DEF StageRecord, CallGetCurrent, ControlOK, Reading, Recording, Local
<1>25. ASSUME FillRecord(h) PROVE \A g \in Handlers : KeepsStamp(g)
  BY <1>25 DEF FillRecord, CallGetCurrent, ControlOK, Reading, Recording, Local
<1>26. ASSUME PublishRecord(h) PROVE \A g \in Handlers : KeepsStamp(g)
  BY <1>26 DEF PublishRecord, CallGetCurrent, ControlOK, Reading, Recording, Local
<1>27. ASSUME Finish(h) PROVE \A g \in Handlers : KeepsStamp(g)
  BY <1>27 DEF Finish, CallGetCurrent, ControlOK, Reading, Recording, Local
<1>28. QED
  BY <1>1, <1>2, <1>3, <1>4, <1>5, <1>6, <1>7, <1>8, <1>9, <1>10, <1>11, <1>12, <1>13, <1>14,
     <1>15, <1>16, <1>17, <1>18, <1>19, <1>20, <1>21, <1>22, <1>23, <1>24, <1>25, <1>26, <1>27
     DEF Request, Step

\* A document is read, copied, or stamped by the request that makes it.
LEMMA DocumentsStep ==
  ASSUME IInv, NEW h \in Handlers, Request(h) \/ Step(h), NEW d \in Documents'
  PROVE  \/ \E e \in Documents : d.audit = e.audit /\ d.previous = e.previous
         \/ /\ StampVersion(h) /\ pc'[h] = "check" /\ local' = [local EXCEPT ![h].doc = d]
            /\ d = Patched(h, local[h].seen)
<1> DEFINE Copied == \E e \in Documents : d.audit = e.audit /\ d.previous = e.previous
           Stamped == /\ StampVersion(h) /\ pc'[h] = "check"
                      /\ local' = [local EXCEPT ![h].doc = d]
                      /\ d = Patched(h, local[h].seen)
           Goal == Copied \/ Stamped
<1>a. ASSUME d \in Documents PROVE Goal
  BY <1>a
<1> HIDE DEF Goal
<1>b. /\ d \in Document
      /\ \/ \E n \in Version : d = versionFile'[n]
         \/ \E n \in Version : d = versionTmp'[n]
         \/ d = pointer'
         \/ d = pointerTmp'
         \/ \E g \in Handlers : d = local'[g].doc
  BY DEF Documents
<1>c. /\ \A n \in Version : versionFile[n] \in Document => versionFile[n] \in Documents
      /\ \A n \in Version : versionTmp[n] \in Document => versionTmp[n] \in Documents
      /\ pointer \in Document => pointer \in Documents
      /\ pointerTmp \in Document => pointerTmp \in Documents
      /\ \A g \in Handlers : local[g].doc \in Document => local[g].doc \in Documents
  BY DEF Documents
<1>d. {None, Empty, Torn} \cap Document = {}
  BY FileAssumption DEF FileAssumption
<1>t. TypeOK /\ local \in [Handlers -> Local] /\ DataOK(h)
  BY DEF IInv, TypeOK
<1> USE DEF Goto, At, Respond, Unnumbered, NoRequest, files, control
<1>1. ASSUME NEW op \in EndpointSet, StartRequest(h, op)
      PROVE  Goal
  BY <1>1, <1>a, <1>b, <1>c, <1>d, <1>t DEF StartRequest, CallGetCurrent, Local
<1>2. ASSUME NEW base \in Version, StartApply(h, base)
      PROVE  Goal
  BY <1>2, <1>a, <1>b, <1>c, <1>d, <1>t DEF StartApply, CallGetCurrent, Local
<1>3. ASSUME NEW r \in Releases, NEW decision \in Decision, StartDecision(h, r, decision)
      PROVE  Goal
  BY <1>3, <1>a, <1>b, <1>c, <1>d, <1>t DEF StartDecision, CallGetCurrent, Local
<1>4. ASSUME NEW r \in Releases, NEW base \in Version, SaveRelease(h, r, base)
      PROVE  Goal
  BY <1>4, <1>a, <1>b, <1>c, <1>d, <1>t DEF SaveRelease, CallGetCurrent, Local
<1>5. ASSUME ListVersions(h) PROVE Goal
  BY <1>5, <1>a, <1>b, <1>c, <1>d, <1>t DEF ListVersions, CallGetCurrent, Local
<1>6. ASSUME ReadPointer(h) PROVE Goal
  BY <1>6, <1>a, <1>b, <1>c, <1>d, <1>t DEF ReadPointer, CallGetCurrent, Local
<1>7. ASSUME TakePointer(h) PROVE Goal
  BY <1>7, <1>a, <1>b, <1>c, <1>d, <1>t DEF TakePointer, CallGetCurrent, Local
<1>8. ASSUME LoadLatest(h) PROVE Goal
  <2>1. local[h].seen \in Version
    BY <1>8, <1>t DEF LoadLatest, At, DataOK, Stored
  <2>2. \/ /\ \A g \in Handlers \ {h} : local'[g].doc = local[g].doc
           /\ local'[h].doc \in {None, versionFile[local[h].seen]}
        \/ local' = local
    BY <1>8, <1>t DEF LoadLatest, Local
  <2>3. UNCHANGED <<versionFile, versionTmp, pointer, pointerTmp>>
    BY <1>8 DEF LoadLatest
  <2>4. QED
    BY <1>a, <1>b, <1>c, <1>d, <1>t, <2>1, <2>2, <2>3
<1>9. ASSUME StagePointer(h) PROVE Goal
  BY <1>9, <1>a, <1>b, <1>c, <1>d, <1>t DEF StagePointer, CallGetCurrent, Local
<1>10. ASSUME FillPointer(h) PROVE Goal
  BY <1>10, <1>a, <1>b, <1>c, <1>d, <1>t, WrittenFile DEF FillPointer
<1>11. ASSUME PublishPointer(h) PROVE Goal
  BY <1>11, <1>a, <1>b, <1>c, <1>d, <1>t DEF PublishPointer, CallGetCurrent, Local
<1>12. ASSUME PrepareAgain(h) PROVE Goal
  BY <1>12, <1>a, <1>b, <1>c, <1>d, <1>t DEF PrepareAgain, CallGetCurrent, Local
<1>13. ASSUME Firewall(h) PROVE Goal
  BY <1>13, <1>a, <1>b, <1>c, <1>d, <1>t DEF Firewall, CallGetCurrent, Local
<1>14. ASSUME NumberVersion(h) PROVE Goal
  BY <1>14, <1>a, <1>b, <1>c, <1>d, <1>t DEF NumberVersion, CallGetCurrent, Local
<1>15. ASSUME StampVersion(h) PROVE Goal
  <2>1. CASE ~Readable(pointer)
    BY <1>15, <1>a, <1>b, <1>c, <1>d, <1>t, <2>1 DEF StampVersion, Local
  <2>2. CASE Readable(pointer)
    <3>1. /\ local' = [local EXCEPT ![h].doc = Patched(h, local[h].seen)]
          /\ pc'[h] = "check" /\ UNCHANGED <<files, handle, control>>
      BY <1>15, <2>2 DEF StampVersion, IInv, TypeOK
    <3>2. CASE d = Patched(h, local[h].seen)
      BY <1>15, <3>1, <3>2 DEF Goal
    <3>3. CASE d # Patched(h, local[h].seen)
      <4>1. \A g \in Handlers : local'[g].doc = d => local[g].doc = d
        BY <1>t, <3>1, <3>3 DEF Local
      <4>2. QED
        BY <1>a, <1>b, <1>c, <3>1, <4>1
    <3>4. QED
      BY <3>2, <3>3
  <2>3. QED
    BY <2>1, <2>2
<1>16. ASSUME CheckVersion(h) PROVE Goal
  BY <1>16, <1>a, <1>b, <1>c, <1>d, <1>t DEF CheckVersion, CallGetCurrent, Local
<1>17. ASSUME StageVersion(h) PROVE Goal
  BY <1>17, <1>a, <1>b, <1>c, <1>d, <1>t DEF StageVersion, CallGetCurrent, Local
<1>18. ASSUME FillVersion(h) PROVE Goal
  <2>1. \A n \in Version : versionTmp'[n] \in {versionTmp[n], local[h].doc, Torn}
    BY <1>18, <1>t, WrittenFile DEF FillVersion, TypeOK
  <2>2. \A n \in Version : versionFile'[n] \in {versionFile[n], local[h].doc, Torn}
    BY <1>18, <1>t, WrittenFile DEF FillVersion, TypeOK
  <2>3. UNCHANGED <<pointer, pointerTmp, local>>
    BY <1>18 DEF FillVersion
  <2>4. QED
    BY <1>a, <1>b, <1>c, <1>d, <2>1, <2>2, <2>3
<1>19. ASSUME PublishVersion(h) PROVE Goal
  <2>1. \A n \in Version : /\ versionTmp'[n] \in {versionTmp[n], None}
                            /\ versionFile'[n] \in {versionFile[n], versionTmp[n]}
    BY <1>19, <1>t DEF PublishVersion, TypeOK
  <2>2. \A g \in Handlers : local'[g].doc \in {local[g].doc, None}
    BY <1>19, <1>t DEF PublishVersion, Local
  <2>3. UNCHANGED <<pointer, pointerTmp>>
    BY <1>19 DEF PublishVersion
  <2>4. QED
    BY <1>a, <1>b, <1>c, <1>d, <2>1, <2>2, <2>3
<1>20. ASSUME ResetState(h) PROVE Goal
  <2>1. local[h].doc \in Document
    BY <1>20, <1>t DEF ResetState, DataOK
  <2>2. local[h].doc \in Documents
    BY <1>c, <2>1
  <2>3. /\ \A g \in Handlers \ {h} : local'[g].doc = local[g].doc
        /\ local'[h].doc = [local[h].doc EXCEPT !.reset = TRUE]
        /\ UNCHANGED <<files, handle, control>>
    BY <1>20, <1>t DEF ResetState, Local
  <2>4. /\ [local[h].doc EXCEPT !.reset = TRUE].audit = local[h].doc.audit
        /\ [local[h].doc EXCEPT !.reset = TRUE].previous = local[h].doc.previous
    BY <2>1 DEF Document
  <2>5. CASE d = [local[h].doc EXCEPT !.reset = TRUE]
    BY <2>2, <2>4, <2>5 DEF Goal
  <2>6. QED
    BY <1>a, <1>b, <1>c, <2>3, <2>5
<1>21. ASSUME Revalidate(h) PROVE Goal
  BY <1>21, <1>a, <1>b, <1>c, <1>d, <1>t DEF Revalidate, CallGetCurrent, Local
<1>22. ASSUME OpenAudit(h) PROVE Goal
  BY <1>22, <1>a, <1>b, <1>c, <1>d, <1>t DEF OpenAudit, CallGetCurrent, Local
<1>23. ASSUME WriteAudit(h) PROVE Goal
  BY <1>23, <1>a, <1>b, <1>c, <1>d, <1>t DEF WriteAudit, CallGetCurrent, Local
<1>24. ASSUME StageRecord(h) PROVE Goal
  BY <1>24, <1>a, <1>b, <1>c, <1>d, <1>t DEF StageRecord, CallGetCurrent, Local
<1>25. ASSUME FillRecord(h) PROVE Goal
  BY <1>25, <1>a, <1>b, <1>c, <1>d, <1>t DEF FillRecord, CallGetCurrent, Local
<1>26. ASSUME PublishRecord(h) PROVE Goal
  BY <1>26, <1>a, <1>b, <1>c, <1>d, <1>t DEF PublishRecord, CallGetCurrent, Local
<1>27. ASSUME Finish(h) PROVE Goal
  BY <1>27, <1>a, <1>b, <1>c, <1>d, <1>t DEF Finish, CallGetCurrent, Local
<1>28. Goal
  BY <1>1, <1>2, <1>3, <1>4, <1>5, <1>6, <1>7, <1>8, <1>9, <1>10, <1>11, <1>12, <1>13, <1>14,
     <1>15, <1>16, <1>17, <1>18, <1>19, <1>20, <1>21, <1>22, <1>23, <1>24, <1>25, <1>26, <1>27
     DEF Request, Step
<1>29. QED
  BY <1>28 DEF Goal

\* What is traced stays traced: no request with another base takes the id, and
\* the bundle that is written under it names the base.
LEMMA TracedKept ==
  ASSUME IInv, NEW h \in Handlers, Request(h) \/ Step(h), NEW d \in Document, Traced(d)
  PROVE  Traced(d)'
<1> SUFFICES ASSUME d.audit # 0 PROVE Traced(d)'
  BY DEF Traced
<1>1. /\ d.audit <= requests /\ d.audit \in AuditId /\ d.audit \in Nat
      /\ requests \in Nat /\ audit \in [AuditId -> AuditBundle \cup {None}]
  BY ParameterAssumption DEF Traced, Document, IInv, TypeOK, AuditId, ParameterAssumption
<1>2. requests' \in Nat /\ requests <= requests'
  <2>1. requests' \in {requests, requests + 1}
    BY DEF Request, StartRequest, StartApply, StartDecision, Step, ListVersions, ReadPointer,
       TakePointer, LoadLatest, StagePointer, FillPointer, PublishPointer, PrepareAgain,
       SaveRelease, Firewall, NumberVersion, StampVersion, CheckVersion, StageVersion,
       FillVersion, PublishVersion, ResetState, Revalidate, OpenAudit, WriteAudit,
       StageRecord, FillRecord, PublishRecord, Finish, control
  <2>2. QED
    BY <1>1, <2>1
<1>3. \A g \in Handlers : KeepsStamp(g)
  BY StampStep
<1>4. ASSUME NEW g \in Handlers, Auditing(g)', local'[g].id = d.audit
      PROVE  ~Unstamped(g)' /\ local'[g].before = d.previous
  <2>1. Auditing(g) /\ local[g].id = d.audit
    BY <1>1, <1>3, <1>4 DEF KeepsStamp
  <2>2. ~Unstamped(g) /\ local[g].before = d.previous
    BY <2>1 DEF Traced
  <2>3. QED
    BY <1>1, <1>3, <1>4, <2>2 DEF KeepsStamp
<1>5. ASSUME audit'[d.audit] # None, audit'[d.audit].status # "TORN"
      PROVE  audit'[d.audit].before = d.previous
  <2>1. CASE audit'[d.audit] = audit[d.audit]
    BY <1>5, <2>1 DEF Traced
  <2>2. ASSUME WriteAudit(h), local[h].id = d.audit PROVE audit'[d.audit].before = d.previous
    <3>1. Auditing(h) /\ local[h].before = d.previous
      BY <2>2 DEF Traced, WriteAudit, At, IInv, ControlOK
    <3>2. audit'[d.audit] = Bundle(h)
      BY <1>1, <2>2 DEF WriteAudit
    <3>3. QED
      BY <3>1, <3>2 DEF Bundle
  <2>3. \/ audit'[d.audit] = audit[d.audit]
        \/ audit'[d.audit].status = "TORN"
        \/ WriteAudit(h) /\ local[h].id = d.audit
    <3>1. audit' = audit \/ OpenAudit(h) \/ WriteAudit(h)
      BY DEF Request, StartRequest, StartApply, StartDecision, Step, ListVersions,
         ReadPointer, TakePointer, LoadLatest, StagePointer, FillPointer, PublishPointer,
         PrepareAgain, SaveRelease, Firewall, NumberVersion, StampVersion, CheckVersion,
         StageVersion, FillVersion, PublishVersion, ResetState, Revalidate,
         StageRecord, FillRecord, PublishRecord, Finish, files
    <3>2. ASSUME OpenAudit(h)
          PROVE  audit'[d.audit] = audit[d.audit] \/ audit'[d.audit].status = "TORN"
      BY <1>1, <3>2 DEF OpenAudit
    <3>3. ASSUME WriteAudit(h) PROVE audit'[d.audit] = audit[d.audit] \/ local[h].id = d.audit
      BY <1>1, <3>3 DEF WriteAudit
    <3>4. QED
      BY <3>1, <3>2, <3>3
  <2>4. QED
    BY <1>5, <2>1, <2>2, <2>3
<1>6. QED
  BY <1>1, <1>2, <1>4, <1>5 DEF Traced

\* The document a request has just stamped: nobody else has its id.
LEMMA StampedIsTraced ==
  ASSUME IInv, \A g \in Handlers : OutcomeOK(g), NEW h \in Handlers, StampVersion(h),
         pc'[h] = "check", NEW d, local' = [local EXCEPT ![h].doc = d],
         d = Patched(h, local[h].seen)
  PROVE  Traced(d)'
<1>1. /\ Auditing(h) /\ local[h].id \in 1 .. requests /\ requests \in 0 .. MaxRequests
      /\ pc[h] = "numbered" /\ local \in [Handlers -> Local]
  BY DEF IInv, TypeOK, ControlOK, IdsOK, At, StampVersion
<1>2. local[h].id \in AuditId /\ audit[local[h].id] = None /\ local[h].before = local[h].doc.version
  BY <1>1, ParameterAssumption
  DEF IInv, AuditOK, Recording, OutcomeOK, At, AuditId, ParameterAssumption
<1>3. d.audit = local[h].id /\ d.previous = local[h].doc.version
  BY DEF Patched
<1>4. requests' = requests /\ audit' = audit
  BY DEF StampVersion, files, control
<1>5. ASSUME NEW g \in Handlers, Auditing(g)', local'[g].id = local[h].id
      PROVE  ~Unstamped(g)' /\ local'[g].before = local[h].before
  <2>1. Auditing(g) /\ local[g].id = local[h].id
    BY <1>1, <1>5 DEF Auditing, Local
  <2>2. g = h
    BY <1>1, <2>1 DEF IInv, IdsOK
  <2>3. local'[h].before = local[h].before
    BY <1>1 DEF Local
  <2>4. QED
    BY <2>2, <2>3 DEF Unstamped, Reading
<1>6. QED
  BY <1>1, <1>2, <1>3, <1>4, <1>5 DEF Traced

LEMMA TracedStep ==
  ASSUME IInv, \A g \in Handlers : OutcomeOK(g), DocumentsTraced,
         NEW h \in Handlers, Request(h) \/ Step(h)
  PROVE  DocumentsTraced'
<1> SUFFICES ASSUME NEW d \in Documents' PROVE Traced(d)'
  BY DEF DocumentsTraced
<1>1. ASSUME NEW e \in Documents, d.audit = e.audit, d.previous = e.previous PROVE Traced(d)'
  <2>1. Traced(e) /\ e \in Document
    BY DEF DocumentsTraced, Documents
  <2>2. Traced(e)'
    BY <2>1, TracedKept
  <2>3. QED
    BY <1>1, <2>2 DEF Traced
<1>2. QED
  BY <1>1, DocumentsStep, StampedIsTraced

\* What a record says of its bundle is true after the step as well.
StillBased(rec) == rec.status = "RELEASED" => audit'[rec.audit].before = rec.base

\* A complete bundle stays, so what a record says of it stays true.
LEMMA BasedFrame ==
  ASSUME IInv, [Next]_vars, NEW rec \in ReleaseRecord, rec.status # "PENDING_OPERATOR_DECISION",
         Audited(rec), Based(rec)
  PROVE  StillBased(rec)
<1>1. audit'[rec.audit] = audit[rec.audit]
  BY AuditStep DEF Audited
<1>2. QED
  BY <1>1 DEF Based, StillBased

LEMMA RecordsStep ==
  ASSUME IInv, \A g \in Handlers : OutcomeOK(g), RecordsBased, [Next]_vars
  PROVE  RecordsBased'
<1> USE DEF IInv, TypeOK
<1>1. ASSUME NEW r \in Releases, record[r] \in ReleaseRecord PROVE StillBased(record[r])
  <2>1. CASE record[r].status = "PENDING_OPERATOR_DECISION"
    BY <2>1 DEF StillBased
  <2>2. CASE record[r].status # "PENDING_OPERATOR_DECISION"
    <3>1. record[r] \in ReleaseRecord /\ Audited(record[r]) /\ Based(record[r])
      BY <1>1, <2>2 DEF RecordsOK, Decisions, RecordsBased
    <3>2. QED
      BY <2>2, <3>1, BasedFrame
  <2>3. QED
    BY <2>1, <2>2
<1>2. ASSUME NEW r \in Releases, recordTmp[r] \in ReleaseRecord PROVE StillBased(recordTmp[r])
  <2>1. CASE recordTmp[r].status = "PENDING_OPERATOR_DECISION"
    BY <2>1 DEF StillBased
  <2>2. CASE recordTmp[r].status # "PENDING_OPERATOR_DECISION"
    <3>1. recordTmp[r] \in ReleaseRecord /\ Audited(recordTmp[r]) /\ Based(recordTmp[r])
      BY <1>2 DEF RecordsOK, RecordsBased
    <3>2. QED
      BY <2>2, <3>1, BasedFrame
  <2>3. QED
    BY <2>1, <2>2
<1>3. ASSUME NEW h \in Handlers, FillRecord(h) PROVE StillBased(Decided(h))
  <2>1. /\ audit[local[h].id] = Bundle(h) /\ OutcomeOK(h) /\ local[h].outcome \in Outcome
        /\ UNCHANGED <<audit, local>>
    BY <1>3 DEF FillRecord, At, AuditOK, ControlOK, Auditing, DataOK, Recording
  <2>2. Decided(h).status = "RELEASED" => local[h].outcome = "ACCEPTED"
    BY <2>1 DEF Decided, Outcome
  <2>3. QED
    BY <2>1, <2>2 DEF StillBased, Decided, Bundle, OutcomeOK
<1>4. \A r \in Releases :
        /\ \/ record'[r] \in {record[r], recordTmp[r], Torn}
           \/ record'[r].status = "PENDING_OPERATOR_DECISION"
           \/ \E h \in Handlers : FillRecord(h) /\ record'[r] = Decided(h)
        /\ \/ recordTmp'[r] \in {recordTmp[r], None, Empty, Torn}
           \/ \E h \in Handlers : FillRecord(h) /\ recordTmp'[r] = Decided(h)
  <2>1. CASE Restart \/ UNCHANGED vars
    BY <2>1 DEF Restart, vars, files
  <2>2. ASSUME NEW h \in Handlers, Request(h) PROVE record' = record /\ recordTmp' = recordTmp
    BY <2>2 DEF Request, StartRequest, StartApply, StartDecision, files
  <2>3. ASSUME NEW h \in Handlers, Step(h)
        PROVE  \/ record' = record /\ recordTmp' = recordTmp
               \/ \E r \in Releases, base \in Version : SaveRelease(h, r, base)
               \/ StageRecord(h) \/ FillRecord(h) \/ PublishRecord(h)
    BY <2>3 DEF Step, ListVersions, ReadPointer, TakePointer, LoadLatest, StagePointer,
       FillPointer, PublishPointer, PrepareAgain, Firewall, NumberVersion, StampVersion,
       CheckVersion, StageVersion, FillVersion, PublishVersion, ResetState, Revalidate,
       OpenAudit, WriteAudit, Finish, files
  <2>4. ASSUME NEW h \in Handlers, NEW s \in Releases, NEW base \in Version, SaveRelease(h, s, base),
               NEW r \in Releases
        PROVE  /\ record'[r] = record[r] \/ record'[r].status = "PENDING_OPERATOR_DECISION"
               /\ recordTmp'[r] = recordTmp[r]
    BY <2>4 DEF SaveRelease
  <2>5. ASSUME NEW h \in Handlers, StageRecord(h), NEW r \in Releases
        PROVE  record'[r] = record[r] /\ recordTmp'[r] \in {recordTmp[r], Empty}
    BY <2>5 DEF StageRecord
  <2>6. ASSUME NEW h \in Handlers, FillRecord(h), NEW r \in Releases
        PROVE  /\ record'[r] \in {record[r], Decided(h), Torn}
               /\ recordTmp'[r] \in {recordTmp[r], Decided(h), Torn}
    BY <2>6, WrittenFile DEF FillRecord
  <2>7. ASSUME NEW h \in Handlers, PublishRecord(h), NEW r \in Releases
        PROVE  record'[r] \in {record[r], recordTmp[r]} /\ recordTmp'[r] \in {recordTmp[r], None}
    BY <2>7 DEF PublishRecord
  <2>8. QED
    BY <2>1, <2>2, <2>3, <2>4, <2>5, <2>6, <2>7 DEF Next
<1>n. {None, Empty, Torn} \cap ReleaseRecord = {}
  BY FileAssumption DEF FileAssumption
<1>5. ASSUME NEW r \in Releases, record'[r] \in ReleaseRecord PROVE Based(record[r])'
  <2>1. CASE record'[r] \in {record[r], recordTmp[r], Torn}
    BY <1>1, <1>2, <1>5, <1>n, <2>1 DEF Based, StillBased
  <2>2. CASE record'[r].status = "PENDING_OPERATOR_DECISION"
    BY <2>2 DEF Based
  <2>3. ASSUME NEW h \in Handlers, FillRecord(h), record'[r] = Decided(h) PROVE Based(record[r])'
    BY <1>3, <2>3 DEF Based, StillBased
  <2>4. QED
    BY <1>4, <2>1, <2>2, <2>3
<1>6. ASSUME NEW r \in Releases, recordTmp'[r] \in ReleaseRecord PROVE Based(recordTmp[r])'
  <2>1. CASE recordTmp'[r] \in {recordTmp[r], None, Empty, Torn}
    BY <1>2, <1>6, <1>n, <2>1 DEF Based, StillBased
  <2>2. ASSUME NEW h \in Handlers, FillRecord(h), recordTmp'[r] = Decided(h)
        PROVE  Based(recordTmp[r])'
    BY <1>3, <2>2 DEF Based, StillBased
  <2>3. QED
    BY <1>4, <2>1, <2>2
<1>7. QED
  BY <1>5, <1>6 DEF RecordsBased

\* A restart ends every request, and a stuttering step changes nothing.
LEMMA RestartGate ==
  ASSUME IInv, GateInv, Restart \/ UNCHANGED vars
  PROVE  /\ \A h \in Handlers : OutcomeOK(h)'
         /\ DocumentsTraced'
<1>1. /\ UNCHANGED <<files, requests>>
      /\ \/ local' = local /\ pc' = pc
         \/ local' = [h \in Handlers |-> NoRequest] /\ pc' = [h \in Handlers |-> "idle"]
  BY DEF Restart, vars, control
<1>2. \A h \in Handlers : Auditing(h)' => Auditing(h) /\ local'[h] = local[h]
  BY <1>1, NoneAssumption DEF Auditing, NoRequest, NoneAssumption, EndpointSet
<1>3. \A d : Traced(d) => Traced(d)'
  <2>1. \A h \in Handlers : Auditing(h)' => (Unstamped(h)' <=> Unstamped(h))
    BY <1>1, NoneAssumption
    DEF Auditing, Unstamped, At, NoRequest, NoneAssumption, EndpointSet
  <2>2. QED
    BY <1>1, <1>2, <2>1 DEF Traced, files
<1>4. \A d \in Documents' : d \in Documents
  <2>1. CASE local' = local
    BY <1>1, <2>1 DEF Documents, files
  <2>2. CASE local' = [h \in Handlers |-> NoRequest]
    <3>1. \A h \in Handlers : local'[h].doc = None
      BY <2>2 DEF NoRequest
    <3>2. QED
      BY <1>1, <3>1, FileAssumption DEF Documents, files, FileAssumption
  <2>3. QED
    BY <1>1, <2>1, <2>2
<1>6. DocumentsTraced'
  BY <1>3, <1>4 DEF GateInv, DocumentsTraced
<1>7. \A h \in Handlers : OutcomeOK(h)'
  BY <1>1, NoneAssumption
  DEF GateInv, OutcomeOK, NoRequest, At, Reading, NoneAssumption, Outcome
<1>8. QED
  BY <1>6, <1>7

LEMMA NextGate == IInv /\ GateInv /\ [Next]_vars => GateInv'
<1> SUFFICES ASSUME IInv, GateInv, [Next]_vars PROVE GateInv'
  OBVIOUS
<1>1. RecordsBased'
  BY RecordsStep DEF GateInv
<1>2. CASE Restart \/ UNCHANGED vars
  BY <1>1, <1>2, RestartGate DEF GateInv
<1>3. ASSUME NEW h \in Handlers, Request(h) \/ Step(h) PROVE GateInv'
  BY <1>1, <1>3, OutcomeStep, TracedStep DEF GateInv
<1>4. QED
  BY <1>2, <1>3 DEF Next

LEMMA GateHolds == Spec => []GateInv
BY InitGate, NextGate, InvariantHolds, PTL DEF Spec

\* A released record and every version stamped with the bundle it names were
\* made on the base its operator approved, also when another version was
\* released between the approval and the application.
THEOREM ReleasedOnItsBase == Spec => []AppliedToItsBase
<1>1. IInv /\ GateInv => AppliedToItsBase
  <2> SUFFICES ASSUME IInv, GateInv, NEW r \in Released PROVE
        /\ audit[record[r].audit].before = record[r].base
        /\ \A n \in Intact :
             versionFile[n].audit = record[r].audit => versionFile[n].previous = record[r].base
    BY DEF AppliedToItsBase
  <2>1. /\ audit[record[r].audit].before = record[r].base
        /\ Audited(record[r]) /\ record[r].audit \in AuditId
    BY DEF GateInv, RecordsBased, Based, Released, Decisions, IInv, RecordsOK, Audited
  <2>2. ASSUME NEW n \in Intact, versionFile[n].audit = record[r].audit
        PROVE  versionFile[n].previous = record[r].base
    <3>1. versionFile[n] \in Documents
      BY ReadableFile DEF Intact, Stored, Documents, IInv, TypeOK
    <3>2. Traced(versionFile[n]) /\ versionFile[n].audit # 0
      BY <2>1, <2>2, <3>1 DEF GateInv, DocumentsTraced, AuditId
    <3>3. QED
      BY <2>1, <2>2, <3>2 DEF Traced, Audited
  <2>3. QED
    BY <2>1, <2>2
<1>2. QED
  BY <1>1, InvariantHolds, GateHolds, PTL

-------------------------------------------------------------------------------
(***************************************************************************)
(* Requests that are served one at a time.                                 *)
(***************************************************************************)

Sequential == \A g, h \in Handlers : g = h

-------------------------------------------------------------------------------
(***************************************************************************)
(* The inductive invariant, on top of IInv and GateInv.                    *)
(***************************************************************************)

\* Document d is version n with edit e, as the next version.
Continues(d, n, e) ==
  /\ d.version = n + 1
  /\ d.previous = n
  /\ d.audit \in AuditId
  /\ e \notin versionFile[n].patches
  /\ d.patches = versionFile[n].patches \cup {e}

\* The versions on disk are whole and have no gap, and each is the one before
\* with one edit more.
Chain ==
  /\ Latest \in Version
  /\ Stored = 1 .. Latest
  /\ \A n \in Stored :
       /\ versionFile[n] \in Document
       /\ IF n = 1 THEN versionFile[n].version = n /\ versionFile[n].patches = {}
                   ELSE \E e \in Edits : Continues(versionFile[n], n - 1, e)

\* A document as its version file has it, but for the runtime state.
Copy(d) ==
  /\ d.version \in Stored
  /\ d.previous = versionFile[d.version].previous
  /\ d.audit = versionFile[d.version].audit
  /\ d.patches = versionFile[d.version].patches

PointerOK ==
  pointer # None => /\ pointer \in Document
                    /\ Copy(pointer)
                    /\ pointer.version \in {Latest - 1, Latest}

RecordsWhole == \A r \in Releases : record[r] \in ReleaseRecord \cup {None}

\* The edits of all versions: an edit of a release is there only after a version
\* that was released on the base of its record.
Present == UNION {versionFile[n].patches : n \in Stored}

PresentOK ==
  /\ IsFiniteSet(Present)
  /\ \A r \in Releases \cap Present : record[r] \in ReleaseRecord /\ record[r].base < Latest
  /\ \A i \in AuditId \cap Present : i <= requests

\* A read returns the latest version and leaves the pointer there; the request
\* still holds that version later on.
ReadsLatest(h) ==
  /\ pc[h] \in {"point", "load", "numbered"} => local[h].seen = Latest
  /\ pc[h] \in {"take", "firewall", "number", "numbered", "check"}
       \/ (pc[h] \in Writing /\ Auditing(h))
     => pointer # None /\ pointer.version = Latest

HoldsLatest(h) ==
  \/ pc[h] \in {"stagePointer", "fillPointer", "publishPointer", "resetState", "firewall",
                "number", "numbered", "revalidate", "openAudit", "writeAudit"}
  \/ pc[h] \in Writing /\ local[h].op = "RESET"
  => Copy(local[h].doc) /\ local[h].doc.version = Latest

\* An accepted patch is made into the next version, which is then on disk.
Building(h) == Auditing(h) /\ pc[h] \in {"check"} \cup Writing

Published(h) ==
  /\ Auditing(h)
  /\ local[h].outcome = "ACCEPTED"
  /\ pc[h] \notin {"number", "numbered", "check"} \cup Writing

EditOK(h) ==
  /\ Auditing(h) => /\ local[h].return \in {"firewall", "revalidate", "openAudit"}
                    /\ pc[h] \notin {"prepareAgain", "saveRelease"}
  /\ local[h].op = "APPLY" /\ ~Published(h) => local[h].id \notin Present
  /\ Building(h) => /\ local[h].outcome = "ACCEPTED"
                    /\ Continues(local[h].doc, Latest, Edit(h))
                    /\ local[h].doc.audit = local[h].id
                    /\ local[h].op = "DECIDE" => local[h].base = Latest
  /\ Published(h) => /\ local[h].doc \in Document
                     /\ local[h].doc.version = Latest
                     /\ versionFile[Latest].audit = local[h].id
                     /\ Edit(h) \in versionFile[Latest].patches

\* Nobody else has opened or written the temporary file, or the record, of a request.
StagedOK(h) ==
  /\ At(h, "fillVersion") => handle[h] = "tmp" /\ versionTmp[local[h].doc.version] = Empty
  /\ At(h, "publishVersion") => versionTmp[local[h].doc.version] = local[h].doc
  /\ At(h, "fillPointer") => handle[h] = "tmp" /\ pointerTmp = Empty
  /\ At(h, "publishPointer") => pointerTmp = local[h].doc
  /\ At(h, "fillRecord") => handle[h] = "tmp" /\ recordTmp[local[h].release] = Empty
  /\ At(h, "publishRecord") => recordTmp[local[h].release] = Decided(h)
  /\ local[h].op = "DECIDE" /\ ~At(h, "respond") =>
       /\ record[local[h].release] \in ReleaseRecord
       /\ record[local[h].release].status = "PENDING_OPERATOR_DECISION"
       /\ record[local[h].release].base = local[h].base

HandlerOK(h) == ReadsLatest(h) /\ HoldsLatest(h) /\ EditOK(h) /\ StagedOK(h)

\* A request has a version in hand that it has published and not audited yet,
\* or a release whose record it has not published yet.
InHand(h) == Published(h) /\ pc[h] \in Reading \cup {"openAudit", "writeAudit"}

Deciding(h) ==
  /\ Published(h)
  /\ local[h].op = "DECIDE"
  /\ pc[h] \in Reading \cup {"openAudit", "writeAudit"} \cup Recording

Releasing == IF \E h \in Handlers : InHand(h) THEN {Latest} ELSE {}

Orphans == Unaudited \ Releasing

\* Releases whose patch is in the TRT and whose record does not say so.
BeingDecided == {r \in Releases : \E h \in Handlers : Deciding(h) /\ local[h].release = r}

Cut == {r \in Releases \cap Present : record[r].status # "RELEASED"} \ BeingDecided

SequentialInv ==
  /\ Sequential
  /\ Chain
  /\ PointerOK
  /\ RecordsWhole
  /\ PresentOK
  /\ \A h \in Handlers : HandlerOK(h)
  /\ Cardinality(Orphans) <= crashes
  /\ Cardinality(Cut) <= crashes

-------------------------------------------------------------------------------
(***************************************************************************)
(* What a step does to the versions: it keeps them all, but for a runtime  *)
(* state, or it publishes the document of the request as the next one.     *)
(***************************************************************************)

VersionsKept ==
  /\ Stored' = Stored
  /\ Latest' = Latest
  /\ \A n \in Stored :
       /\ versionFile'[n].version = versionFile[n].version
       /\ versionFile'[n].previous = versionFile[n].previous
       /\ versionFile'[n].audit = versionFile[n].audit
       /\ versionFile'[n].patches = versionFile[n].patches
       /\ versionFile[n] \in Document => versionFile'[n] \in Document
  /\ Present' = Present

VersionAdded(h) ==
  /\ PublishVersion(h)
  /\ Building(h)
  /\ Latest + 1 \in Version
  /\ Stored' = 1 .. (Latest + 1)
  /\ Latest' = Latest + 1
  /\ \A n \in Stored : versionFile'[n] = versionFile[n]
  /\ versionFile'[Latest + 1] = local[h].doc
  /\ Present' = Present \cup {Edit(h)}

LEMMA LatestIs ==
  ASSUME NEW n \in Version, Stored = 1 .. n
  PROVE  Latest = n
<1>1. IsLatest(n) /\ n \in Stored
  BY ParameterAssumption DEF IsLatest, Version, ParameterAssumption
<1>2. \A m \in Stored : IsLatest(m) => m = n
  BY <1>1, ParameterAssumption DEF IsLatest, Version, ParameterAssumption
<1>3. QED
  BY <1>1, <1>2 DEF Latest

LEMMA LatestBecomes ==
  ASSUME NEW n \in Version, Stored' = 1 .. n
  PROVE  Latest' = n
<1>1. IsLatest(n)' /\ n \in Stored'
  BY ParameterAssumption DEF IsLatest, Version, ParameterAssumption
<1>2. \A m \in Stored' : IsLatest(m)' => m = n
  BY <1>1, ParameterAssumption DEF IsLatest, Version, ParameterAssumption
<1>3. QED
  BY <1>1, <1>2 DEF Latest

LEMMA SameFiles ==
  ASSUME versionFile' = versionFile
  PROVE  VersionsKept
BY DEF VersionsKept, Stored, Latest, IsLatest, Present

\* The version that a listing finds is Latest.
LEMMA ListedIsLatest ==
  ASSUME Chain, NEW n \in Stored, IsLatest(n)
  PROVE  n = Latest
BY ParameterAssumption DEF Chain, IsLatest, Version, ParameterAssumption

\* Every file on disk can be parsed.
LEMMA AllReadable ==
  ASSUME SequentialInv
  PROVE  /\ \A n \in Version : Readable(versionFile[n])
         /\ Readable(pointer)
         /\ \A r \in Releases : Readable(record[r])
<1>1. \A file : file \in Document \cup ReleaseRecord \cup {None} => Readable(file)
  BY FileAssumption DEF FileAssumption, Readable, Unreadable
<1>2. QED
  BY <1>1 DEF SequentialInv, Chain, PointerOK, RecordsWhole, Stored

\* Publishing rewrites the version that a reset has read, or adds one.
LEMMA PublishStep ==
  ASSUME IInv, SequentialInv, NEW h \in Handlers, PublishVersion(h)
  PROVE  IF local[h].op = "RESET" THEN VersionsKept ELSE VersionAdded(h)
<1> DEFINE d == local[h].doc
<1>1. /\ d \in Document /\ d.version \in Version
      /\ versionTmp[d.version] = d /\ d # None
      /\ versionFile' = [versionFile EXCEPT ![d.version] = d]
      /\ versionFile \in [Version -> TRTFile]
  BY FileAssumption DEF PublishVersion, IInv, TypeOK, DataOK, SequentialInv, HandlerOK, StagedOK,
     At, Reading, FileAssumption, Document
<1>2. CASE local[h].op = "RESET"
  <2>1. Copy(d) /\ d.version = Latest
    BY <1>2 DEF SequentialInv, HandlerOK, HoldsLatest, PublishVersion, At, Writing
  <2>2. Stored' = Stored
    BY <1>1, <2>1 DEF Stored, Copy
  <2>3. Latest' = Latest
    BY <2>2, LatestBecomes DEF SequentialInv, Chain
  <2>4. \A n \in Stored : versionFile'[n] = IF n = d.version THEN d ELSE versionFile[n]
    BY <1>1 DEF Stored
  <2>5. versionFile[d.version].version = d.version
    BY <2>1 DEF SequentialInv, Chain, Copy, Continues
  <2>6. \A n \in Stored : versionFile'[n].patches = versionFile[n].patches
    BY <2>1, <2>4 DEF Copy
  <2>7. Present' = Present
    BY <2>2, <2>6 DEF Present
  <2>8. QED
    BY <1>1, <1>2, <2>1, <2>2, <2>3, <2>4, <2>5, <2>6, <2>7 DEF VersionsKept, Copy
<1>3. CASE local[h].op # "RESET"
  <2>1. Building(h)
    BY <1>3 DEF PublishVersion, Building, IInv, ControlOK, At, Writing
  <2>2. /\ d.version = Latest + 1
        /\ d.patches = versionFile[Latest].patches \cup {Edit(h)}
    BY <2>1 DEF SequentialInv, HandlerOK, EditOK, Continues
  <2>3. Stored = 1 .. Latest /\ Latest \in Nat /\ Latest \in Stored
    BY ParameterAssumption DEF SequentialInv, Chain, Version, ParameterAssumption
  <2>4. Stored' = 1 .. (Latest + 1)
    <3>1. Stored' = Stored \cup {Latest + 1}
      BY <1>1, <2>2 DEF Stored
    <3>2. QED
      BY <2>3, <3>1
  <2>5. Latest' = Latest + 1
    BY <1>1, <2>2, <2>4, LatestBecomes
  <2>6. \A n \in Stored : versionFile'[n] = versionFile[n]
    BY <1>1, <2>2, <2>3
  <2>7. Present' = Present \cup {Edit(h)}
    <3>1. Present' = UNION {versionFile'[n].patches : n \in Stored'}
      BY DEF Present
    <3>2. Stored' = Stored \cup {Latest + 1}
      BY <2>3, <2>4
    <3>3. Present' = Present \cup versionFile'[Latest + 1].patches
      BY <2>6, <3>1, <3>2 DEF Present
    <3>4. versionFile'[Latest + 1].patches = versionFile[Latest].patches \cup {Edit(h)}
      BY <1>1, <2>2
    <3>5. versionFile[Latest].patches \subseteq Present
      BY <2>3 DEF Present
    <3>6. QED
      BY <3>3, <3>4, <3>5
  <2>8. QED
    BY <1>1, <1>3, <2>1, <2>2, <2>4, <2>5, <2>6, <2>7 DEF VersionAdded
<1>4. QED
  BY <1>2, <1>3

LEMMA VersionsStep ==
  ASSUME IInv, SequentialInv, NEW h \in Handlers, Request(h) \/ Step(h)
  PROVE  VersionsKept \/ VersionAdded(h)
<1>1. CASE FillVersion(h)
  <2>1. handle[h] = "tmp"
    BY <1>1 DEF FillVersion, SequentialInv, HandlerOK, StagedOK
  <2>2. versionFile' = versionFile
    BY <1>1, <2>1 DEF FillVersion
  <2>3. QED
    BY <2>2, SameFiles
<1>2. CASE PublishVersion(h)
  BY <1>2, PublishStep
<1>3. CASE ~FillVersion(h) /\ ~PublishVersion(h)
  <2>1. versionFile' = versionFile
    BY <1>3 DEF Request, Step, StartRequest, StartApply, StartDecision, ListVersions, ReadPointer,
           TakePointer, LoadLatest, StagePointer, FillPointer, PublishPointer, PrepareAgain,
           SaveRelease, Firewall, NumberVersion, StampVersion, CheckVersion, StageVersion,
           ResetState, Revalidate, OpenAudit, WriteAudit, StageRecord, FillRecord,
           PublishRecord, Finish, files
  <2>2. QED
    BY <2>1, SameFiles
<1>4. QED
  BY <1>1, <1>2, <1>3

-------------------------------------------------------------------------------
(***************************************************************************)
(* The versions and the pointer after a step.                              *)
(***************************************************************************)

\* Copy(d) after the step, of a document d from before it.
StillCopy(d) ==
  /\ d.version \in Stored'
  /\ d.previous = versionFile'[d.version].previous
  /\ d.audit = versionFile'[d.version].audit
  /\ d.patches = versionFile'[d.version].patches

LEMMA CopyStep ==
  ASSUME Chain, NEW h \in Handlers, VersionsKept \/ VersionAdded(h), NEW d, Copy(d)
  PROVE  StillCopy(d)
<1>1. CASE VersionsKept
  BY <1>1 DEF VersionsKept, Copy, StillCopy
<1>2. CASE VersionAdded(h)
  BY <1>2, ParameterAssumption
     DEF VersionAdded, Copy, StillCopy, Chain, Version, ParameterAssumption
<1>3. QED
  BY <1>1, <1>2

LEMMA EditTyped ==
  ASSUME IInv, NEW h \in Handlers, Auditing(h)
  PROVE  /\ Edit(h) \in Edits
         /\ local[h].op # "DECIDE" => Edit(h) \in AuditId /\ Edit(h) <= requests
         /\ local[h].op = "DECIDE" => Edit(h) = local[h].release /\ Edit(h) \in Releases
<1>1. local[h].id \in AuditId /\ local[h].id <= requests
  BY ParameterAssumption DEF IInv, IdsOK, TypeOK, AuditId, ParameterAssumption
<1>2. QED
  BY <1>1 DEF Edit, Edits, IInv, ControlOK

LEMMA ChainStep ==
  ASSUME IInv, SequentialInv, NEW h \in Handlers, Request(h) \/ Step(h)
  PROVE  Chain'
<1>1. VersionsKept \/ VersionAdded(h)
  BY VersionsStep
<1>2. Chain /\ Latest \in Nat /\ Latest >= 1 /\ Latest \in Stored
  BY ParameterAssumption DEF SequentialInv, Chain, Version, ParameterAssumption
<1>3. \A n \in Stored : n # 1 => n - 1 \in Stored
  BY <1>2 DEF Chain
<1>4. \A n \in Stored, e \in Edits :
        n # 1 /\ Continues(versionFile[n], n - 1, e) => Continues(versionFile[n], n - 1, e)'
  <2>1. \A n \in Stored : /\ versionFile'[n].version = versionFile[n].version
                         /\ versionFile'[n].previous = versionFile[n].previous
                         /\ versionFile'[n].audit = versionFile[n].audit
                         /\ versionFile'[n].patches = versionFile[n].patches
    BY <1>1 DEF VersionsKept, VersionAdded
  <2>2. QED
    BY <1>3, <2>1 DEF Continues
<1>5. CASE VersionsKept
  <2>1. ASSUME NEW n \in Stored
        PROVE  /\ versionFile'[n] \in Document
               /\ IF n = 1 THEN versionFile'[n].version = n /\ versionFile'[n].patches = {}
                           ELSE \E e \in Edits : Continues(versionFile[n], n - 1, e)'
    BY <1>2, <1>4, <1>5, <2>1 DEF VersionsKept, Chain
  <2>2. QED
    BY <1>2, <1>5, <2>1 DEF VersionsKept, Chain
<1>6. CASE VersionAdded(h)
  <2>1. Edit(h) \in Edits /\ local[h].doc \in Document
    BY <1>6, EditTyped DEF VersionAdded, Building, PublishVersion, IInv, DataOK, At, Reading
  <2>2. PICK e \in Edits : e = Edit(h)
    BY <2>1
  <2>3. Continues(local[h].doc, Latest, e)
    BY <1>6, <2>2 DEF VersionAdded, SequentialInv, HandlerOK, EditOK
  <2>4. ASSUME NEW n, n = Latest + 1 PROVE Continues(versionFile[n], n - 1, e)'
    BY <1>2, <1>6, <2>3, <2>4 DEF VersionAdded, Continues
  <2>5. ASSUME NEW n \in Stored'
        PROVE  /\ versionFile'[n] \in Document
               /\ IF n = 1 THEN versionFile'[n].version = n /\ versionFile'[n].patches = {}
                           ELSE \E f \in Edits : Continues(versionFile[n], n - 1, f)'
    <3>1. CASE n = Latest + 1
      BY <1>2, <1>6, <2>1, <2>4, <3>1 DEF VersionAdded
    <3>2. CASE n # Latest + 1
      <4>1. n \in Stored
        BY <1>2, <1>6, <2>5, <3>2 DEF VersionAdded, Chain
      <4>2. QED
        BY <1>4, <1>6, <4>1 DEF VersionAdded, SequentialInv, Chain
    <3>3. QED
      BY <3>1, <3>2
  <2>6. QED
    BY <1>2, <1>6, <2>5 DEF VersionAdded, Chain
<1>7. QED
  BY <1>1, <1>5, <1>6

LEMMA PointerStep ==
  ASSUME IInv, SequentialInv, NEW h \in Handlers, Request(h) \/ Step(h)
  PROVE  PointerOK'
<1>1. VersionsKept \/ VersionAdded(h)
  BY VersionsStep
<1>2. Chain /\ PointerOK /\ Latest \in Nat
  BY ParameterAssumption DEF SequentialInv, Chain, Version, ParameterAssumption
<1>3. CASE pointer' = pointer
  <2>1. pointer # None => StillCopy(pointer)
    BY <1>1, <1>2, CopyStep DEF PointerOK
  <2>2. pointer # None => pointer.version \in {Latest' - 1, Latest'}
    <3>1. CASE VersionsKept
      BY <1>2, <3>1 DEF VersionsKept, PointerOK
    <3>2. CASE VersionAdded(h)
      BY <1>2, <3>2 DEF VersionAdded, SequentialInv, HandlerOK, ReadsLatest, Building, PublishVersion, At, Writing
    <3>3. QED
      BY <1>1, <3>1, <3>2
  <2>3. QED
    BY <1>2, <1>3, <2>1, <2>2 DEF PointerOK, Copy, StillCopy
<1>4. CASE pointer' # pointer
  <2>1. PublishPointer(h) /\ pointer' = pointerTmp
    BY <1>4 DEF Request, Step, StartRequest, StartApply, StartDecision, ListVersions, ReadPointer,
           TakePointer, LoadLatest, StagePointer, FillPointer, PublishPointer, PrepareAgain,
           SaveRelease, Firewall, NumberVersion, StampVersion, CheckVersion, StageVersion,
           FillVersion, PublishVersion, ResetState, Revalidate, OpenAudit, WriteAudit,
           StageRecord, FillRecord, PublishRecord, Finish, files, SequentialInv, HandlerOK,
           StagedOK
  <2>2. /\ pointer' = local[h].doc /\ Copy(local[h].doc) /\ local[h].doc.version = Latest
        /\ local[h].doc \in Document
    BY <2>1 DEF PublishPointer, At, SequentialInv, HandlerOK, HoldsLatest, StagedOK, IInv, DataOK
  <2>3. VersionsKept
    BY <2>1, SameFiles DEF PublishPointer
  <2>4. StillCopy(local[h].doc)
    BY <1>2, <2>2, <2>3, CopyStep
  <2>5. QED
    BY <2>2, <2>3, <2>4 DEF PointerOK, Copy, StillCopy, VersionsKept
<1>5. QED
  BY <1>3, <1>4

-------------------------------------------------------------------------------
(***************************************************************************)
(* The records, and the edits in the TRT, after a step.                    *)
(***************************************************************************)

LEMMA DecidedTyped ==
  ASSUME IInv, NEW h \in Handlers, pc[h] \in Recording
  PROVE  Decided(h) \in ReleaseRecord /\ Decided(h).base = local[h].base
<1>1. /\ local[h].op = "DECIDE" /\ local[h].doc \in Document /\ local[h].outcome \in Outcome
      /\ local[h].base \in Version /\ local[h].id \in 0 .. MaxRequests
      /\ local[h].before \in 0 .. MaxVersion
  BY DEF IInv, TypeOK, Local, ControlOK, DataOK, Recording, Reading
<1>2. Decided(h).status \in Status
  BY <1>1 DEF Decided, Status, Outcome
<1>3. Decided(h).version \in 0 .. MaxVersion
  BY <1>1, VersionOfDocument, ParameterAssumption DEF Decided, ParameterAssumption
<1>4. Decided(h) = [status |-> Decided(h).status, base |-> local[h].base, audit |-> local[h].id,
                    version |-> Decided(h).version]
  BY DEF Decided
<1>5. QED
  BY <1>1, <1>2, <1>3, <1>4 DEF ReleaseRecord

\* A record is written when a release is prepared and when it is decided on.
LEMMA RecordBecomes ==
  ASSUME IInv, SequentialInv, NEW h \in Handlers, Request(h) \/ Step(h)
  PROVE  \/ record' = record /\ ~PublishRecord(h)
         \/ \E r \in Releases, base \in Version : SaveRelease(h, r, base)
         \/ /\ PublishRecord(h)
            /\ record' = [record EXCEPT ![local[h].release] = Decided(h)]
            /\ pc' = [pc EXCEPT ![h] = "respond"] /\ local' = local
            /\ versionFile' = versionFile /\ audit' = audit
<1>1. CASE FillRecord(h)
  BY <1>1 DEF FillRecord, PublishRecord, At, SequentialInv, HandlerOK, StagedOK
<1>2. CASE PublishRecord(h)
  BY <1>2, FileAssumption, DecidedTyped
  DEF PublishRecord, At, Goto, SequentialInv, HandlerOK, StagedOK, FileAssumption, Recording
<1>3. CASE ~FillRecord(h) /\ ~PublishRecord(h)
  BY <1>3 DEF Request, Step, StartRequest, StartApply, StartDecision, ListVersions, ReadPointer,
           TakePointer, LoadLatest, StagePointer, FillPointer, PublishPointer, PrepareAgain,
           Firewall, NumberVersion, StampVersion, CheckVersion, StageVersion, FillVersion,
           PublishVersion, ResetState, Revalidate, OpenAudit, WriteAudit, StageRecord, Finish,
           files
<1>4. QED
  BY <1>1, <1>2, <1>3

LEMMA WholeStep ==
  ASSUME IInv, SequentialInv, NEW h \in Handlers, Request(h) \/ Step(h)
  PROVE  RecordsWhole'
<1> SUFFICES ASSUME NEW r \in Releases PROVE record'[r] \in ReleaseRecord \cup {None}
  BY DEF RecordsWhole
<1>1. record[r] \in ReleaseRecord \cup {None} /\ record \in [Releases -> RecordFile]
  BY DEF SequentialInv, RecordsWhole, IInv, TypeOK
<1>2. ASSUME NEW s \in Releases, NEW base \in Version, SaveRelease(h, s, base)
      PROVE  record'[r] \in ReleaseRecord \cup {None}
  BY <1>1, <1>2, ParameterAssumption DEF SaveRelease, ReleaseRecord, Status, ParameterAssumption
<1>3. PublishRecord(h) => Decided(h) \in ReleaseRecord
  BY DecidedTyped DEF PublishRecord, At, Recording
<1>4. QED
  BY <1>1, <1>2, <1>3, RecordBecomes

LEMMA PresentStep ==
  ASSUME IInv, SequentialInv, NEW h \in Handlers, Request(h) \/ Step(h)
  PROVE  PresentOK'
<1>1. VersionsKept \/ VersionAdded(h)
  BY VersionsStep
<1>2. /\ PresentOK /\ Latest \in Nat /\ record \in [Releases -> RecordFile]
      /\ local[h] \in Local /\ requests \in Nat /\ \A i \in AuditId : i \in Nat
  BY ParameterAssumption
  DEF SequentialInv, Chain, Version, AuditId, ParameterAssumption, IInv, TypeOK
<1>3. requests' \in {requests, requests + 1}
  BY DEF Request, StartRequest, StartApply, StartDecision, Step, ListVersions, ReadPointer,
     TakePointer, LoadLatest, StagePointer, FillPointer, PublishPointer, PrepareAgain,
     SaveRelease, Firewall, NumberVersion, StampVersion, CheckVersion, StageVersion,
     FillVersion, PublishVersion, ResetState, Revalidate, OpenAudit, WriteAudit,
     StageRecord, FillRecord, PublishRecord, Finish, control
<1>4. CASE VersionsKept
  <2>1. ASSUME NEW r \in Releases \cap Present
        PROVE  record'[r] \in ReleaseRecord /\ record'[r].base < Latest
    <3>1. record[r] \in ReleaseRecord /\ record[r].base < Latest
      BY <1>2 DEF PresentOK
    <3>2. ASSUME NEW s \in Releases, NEW base \in Version, SaveRelease(h, s, base)
          PROVE  record'[r] = record[r]
      BY <1>2, <3>1, <3>2, FileAssumption DEF SaveRelease, FileAssumption
    <3>3. ASSUME PublishRecord(h), r = local[h].release
          PROVE  Decided(h) \in ReleaseRecord /\ Decided(h).base = record[r].base
      BY <3>3, DecidedTyped
      DEF PublishRecord, At, Recording, SequentialInv, HandlerOK, StagedOK, IInv, ControlOK
    <3>4. QED
      BY <1>2, <3>1, <3>2, <3>3, RecordBecomes
  <2>2. QED
    BY <1>2, <1>3, <1>4, <2>1 DEF PresentOK, VersionsKept
<1>5. CASE VersionAdded(h)
  <2>1. /\ record' = record /\ Auditing(h) /\ pc[h] = "publishVersion"
        /\ Present' = Present \cup {Edit(h)} /\ Latest' = Latest + 1
    BY <1>5 DEF VersionAdded, PublishVersion, Building, At
  <2>2. local[h].op = "DECIDE" => /\ record[local[h].release] \in ReleaseRecord
                                  /\ record[local[h].release].base = Latest
    BY <1>5, <2>1 DEF VersionAdded, SequentialInv, HandlerOK, StagedOK, EditOK, At
  <2>3. IsFiniteSet(Present')
    BY <1>2, <2>1, FS_AddElement DEF PresentOK
  <2>4. /\ local[h].op # "DECIDE" => Edit(h) \in AuditId /\ Edit(h) <= requests
        /\ local[h].op = "DECIDE" => Edit(h) = local[h].release /\ Edit(h) \in Releases
    BY <2>1, EditTyped
  <2>5. \A r \in Releases \cap Present' : record[r] \in ReleaseRecord /\ record[r].base < Latest + 1
    <3>1. ASSUME NEW r \in Releases \cap Present
          PROVE  record[r] \in ReleaseRecord /\ record[r].base < Latest + 1
      <4>1. record[r] \in ReleaseRecord /\ record[r].base < Latest
        BY <1>2 DEF PresentOK
      <4>2. record[r].base \in Nat
        BY <4>1, ParameterAssumption DEF ReleaseRecord, Version, ParameterAssumption
      <4>3. QED
        BY <1>2, <4>1, <4>2
    <3>2. ASSUME Edit(h) \in Releases
          PROVE  record[Edit(h)] \in ReleaseRecord /\ record[Edit(h)].base < Latest + 1
      BY <1>2, <2>2, <2>4, <3>2, EditAssumption DEF EditAssumption
    <3>3. QED
      BY <2>1, <3>1, <3>2
  <2>6. \A i \in AuditId \cap Present' : i <= requests
    BY <1>2, <2>1, <2>4, EditAssumption DEF PresentOK, EditAssumption
  <2>7. requests' = requests
    BY <1>5 DEF VersionAdded, PublishVersion, control
  <2>8. QED
    BY <2>1, <2>3, <2>5, <2>6, <2>7 DEF PresentOK
<1>6. QED
  BY <1>1, <1>4, <1>5

-------------------------------------------------------------------------------
(***************************************************************************)
(* The handler after a step: one step of the proof per action.             *)
(***************************************************************************)

\* The idle handler has nothing to hold.
LEMMA IdleOK ==
  ASSUME NEW h \in Handlers, pc'[h] = "idle", local'[h] = NoRequest
  PROVE  HandlerOK(h)'
<1>1. ~Auditing(h)' /\ local'[h].op \notin {"DECIDE", "RESET", "APPLY"}
  BY NoneAssumption DEF NoneAssumption, Auditing, NoRequest, EndpointSet
<1>2. QED
  BY <1>1 DEF HandlerOK, ReadsLatest, HoldsLatest, EditOK, StagedOK, Building, Published, At,
     Writing

LEMMA HandlerStep ==
  ASSUME IInv, GateInv, SequentialInv, NEW h \in Handlers, Request(h) \/ Step(h)
  PROVE  HandlerOK(h)'
<1>1. VersionsKept \/ VersionAdded(h)
  BY VersionsStep
<1>2. /\ HandlerOK(h) /\ Chain /\ PointerOK /\ ControlOK(h) /\ DataOK(h) /\ OutcomeOK(h)
      /\ AuditOK(h)
  BY DEF SequentialInv, IInv, GateInv
<1>3. /\ TypeOK /\ local \in [Handlers -> Local] /\ pc \in [Handlers -> Label]
      /\ handle \in [Handlers -> Handle]
  BY DEF IInv, TypeOK
<1>4. /\ Latest \in Stored /\ Latest \in Nat
      /\ versionFile[Latest] \in Document
      /\ Copy(versionFile[Latest]) /\ versionFile[Latest].version = Latest
  BY <1>2, <1>3, ParameterAssumption
     DEF Chain, Version, ParameterAssumption, Copy, Continues, Stored
<1>5. requests < MaxRequests => requests + 1 \notin Present
  BY ParameterAssumption DEF SequentialInv, PresentOK, IInv, TypeOK, AuditId, ParameterAssumption
<1>p. \A r \in Releases : Pending(r) => record[r] \in ReleaseRecord
  BY DEF Pending
<1>r. (\A n \in Version : Readable(versionFile[n])) /\ Readable(pointer)
  BY AllReadable
<1>q. \A r \in Releases \cap Present : record[r].base < Latest
  BY DEF SequentialInv, PresentOK
<1> USE DEF At, Goto, CallGetCurrent, files, control, Writing
<1>6. ASSUME NEW op \in EndpointSet, StartRequest(h, op) PROVE HandlerOK(h)'
  <2>1. VersionsKept
    BY <1>6, SameFiles DEF StartRequest
  <2>2. ReadsLatest(h)'
    BY <1>2, <1>3, <1>4, <1>6, <2>1
       DEF StartRequest, Local, HandlerOK, ReadsLatest, Auditing, VersionsKept
  <2>3. HoldsLatest(h)'
    BY <1>2, <1>3, <1>4, <1>6, <2>1
       DEF StartRequest, Local, HandlerOK, HoldsLatest, Copy, VersionsKept
  <2>4. EditOK(h)'
    BY <1>2, <1>3, <1>4, <1>6, <2>1, NoneAssumption
       DEF StartRequest, Local, HandlerOK, EditOK, Building, Published, Auditing, Continues,
           VersionsKept, Edit, EndpointSet
  <2>5. StagedOK(h)'
    BY <1>2, <1>3, <1>4, <1>6, <2>1
       DEF StartRequest, Local, HandlerOK, StagedOK
  <2>6. QED
    BY <2>2, <2>3, <2>4, <2>5 DEF HandlerOK
<1>7. ASSUME NEW base \in Version, StartApply(h, base) PROVE HandlerOK(h)'
  <2>1. VersionsKept
    BY <1>7, SameFiles DEF StartApply
  <2>2. ReadsLatest(h)'
    BY <1>2, <1>3, <1>4, <1>7, <2>1
       DEF StartApply, Local, HandlerOK, ReadsLatest, Auditing, VersionsKept
  <2>3. HoldsLatest(h)'
    BY <1>2, <1>3, <1>4, <1>7, <2>1
       DEF StartApply, Local, HandlerOK, HoldsLatest, Copy, VersionsKept
  <2>4. EditOK(h)'
    BY <1>2, <1>3, <1>4, <1>7, <2>1, <1>5, NoneAssumption
       DEF StartApply, Local, HandlerOK, EditOK, Building, Published, Auditing, Continues,
           VersionsKept, Edit, NoRequest, NoneAssumption, Outcome
  <2>5. StagedOK(h)'
    BY <1>2, <1>3, <1>4, <1>7, <2>1
       DEF StartApply, Local, HandlerOK, StagedOK
  <2>6. QED
    BY <2>2, <2>3, <2>4, <2>5 DEF HandlerOK
<1>8. ASSUME NEW r \in Releases, NEW decision \in Decision,
             StartDecision(h, r, decision) PROVE HandlerOK(h)'
  <2>1. VersionsKept
    BY <1>8, SameFiles DEF StartDecision
  <2>2. ReadsLatest(h)'
    BY <1>2, <1>3, <1>4, <1>8, <2>1
       DEF StartDecision, Local, HandlerOK, ReadsLatest, Auditing, VersionsKept
  <2>3. HoldsLatest(h)'
    BY <1>2, <1>3, <1>4, <1>8, <2>1
       DEF StartDecision, Local, HandlerOK, HoldsLatest, Copy, VersionsKept
  <2>4. EditOK(h)'
    BY <1>2, <1>3, <1>4, <1>8, <2>1, <1>5, NoneAssumption
       DEF StartDecision, Local, HandlerOK, EditOK, Building, Published, Auditing, Continues,
           VersionsKept, Edit, NoRequest, NoneAssumption, Outcome
  <2>5. StagedOK(h)'
    BY <1>2, <1>3, <1>4, <1>8, <2>1, <1>p
       DEF StartDecision, Local, HandlerOK, StagedOK, NoRequest, Pending
  <2>6. QED
    BY <2>2, <2>3, <2>4, <2>5 DEF HandlerOK
<1>9. ASSUME NEW r \in Releases, NEW base \in Version,
             SaveRelease(h, r, base) PROVE HandlerOK(h)'
  <2>1. VersionsKept
    BY <1>9, SameFiles DEF SaveRelease
  <2>2. ReadsLatest(h)'
    BY <1>2, <1>3, <1>4, <1>9, <2>1
       DEF SaveRelease, Local, HandlerOK, ReadsLatest, Auditing, VersionsKept
  <2>3. HoldsLatest(h)'
    BY <1>2, <1>3, <1>4, <1>9, <2>1
       DEF SaveRelease, Local, HandlerOK, HoldsLatest, Copy, VersionsKept
  <2>4. EditOK(h)'
    BY <1>2, <1>3, <1>4, <1>9, <2>1
       DEF SaveRelease, Local, HandlerOK, EditOK, Building, Published, Auditing, Continues,
           VersionsKept, Edit
  <2>5. StagedOK(h)'
    BY <1>2, <1>3, <1>4, <1>9, <2>1
       DEF SaveRelease, Local, HandlerOK, StagedOK, EditOK, Auditing
  <2>6. QED
    BY <2>2, <2>3, <2>4, <2>5 DEF HandlerOK
<1>10. ASSUME ListVersions(h) PROVE HandlerOK(h)'
  <2>1. /\ local' = [local EXCEPT ![h].seen = Latest] /\ pc' = [pc EXCEPT ![h] = "point"]
        /\ UNCHANGED <<files, handle, control>>
    BY <1>2, <1>10, <1>r, ListedIsLatest DEF ListVersions, Stored
  <2>2. VersionsKept
    BY <2>1, SameFiles
  <2>3. ReadsLatest(h)'
    BY <1>10, <1>2, <1>3, <1>4, <2>1, <2>2
       DEF Local, HandlerOK, ReadsLatest, Auditing, VersionsKept, ListVersions
  <2>4. HoldsLatest(h)'
    BY <1>10, <1>2, <1>3, <1>4, <2>1, <2>2
       DEF Local, HandlerOK, HoldsLatest, Copy, VersionsKept, ListVersions
  <2>5. EditOK(h)'
    BY <1>10, <1>2, <1>3, <1>4, <2>1, <2>2
       DEF Local, HandlerOK, EditOK, Building, Published, Auditing, Continues, VersionsKept,
           Edit, ListVersions
  <2>6. StagedOK(h)'
    BY <1>10, <1>2, <1>3, <1>4, <2>1, <2>2
       DEF Local, HandlerOK, StagedOK, ListVersions
  <2>7. QED
    BY <2>3, <2>4, <2>5, <2>6 DEF HandlerOK
<1>11. ASSUME ReadPointer(h) PROVE HandlerOK(h)'
  <2>1. /\ pc'[h] \in {"take", "load"} /\ (pc'[h] = "take" => pointer # None /\ pointer.version = Latest)
        /\ \E label \in {"take", "load"} : pc' = [pc EXCEPT ![h] = label]
        /\ UNCHANGED <<files, local, handle, control>>
    BY <1>2, <1>3, <1>11, <1>r DEF ReadPointer, IsConsistent, HandlerOK, ReadsLatest
  <2>2. VersionsKept
    BY <2>1, SameFiles
  <2>3. ReadsLatest(h)'
    BY <1>11, <1>2, <1>3, <1>4, <2>1, <2>2
       DEF Local, HandlerOK, ReadsLatest, Auditing, VersionsKept, ReadPointer
  <2>4. HoldsLatest(h)'
    BY <1>11, <1>2, <1>3, <1>4, <2>1, <2>2
       DEF Local, HandlerOK, HoldsLatest, Copy, VersionsKept, ReadPointer
  <2>5. EditOK(h)'
    BY <1>11, <1>2, <1>3, <1>4, <2>1, <2>2
       DEF Local, HandlerOK, EditOK, Building, Published, Auditing, Continues, VersionsKept,
           Edit, ReadPointer
  <2>6. StagedOK(h)'
    BY <1>11, <1>2, <1>3, <1>4, <2>1, <2>2
       DEF Local, HandlerOK, StagedOK, ReadPointer
  <2>7. QED
    BY <2>3, <2>4, <2>5, <2>6 DEF HandlerOK
<1>12. ASSUME TakePointer(h) PROVE HandlerOK(h)'
  <2>1. /\ local' = [local EXCEPT ![h].doc = pointer] /\ pc' = [pc EXCEPT ![h] = local[h].return]
        /\ UNCHANGED <<files, handle, control>>
    BY <1>12, <1>r DEF TakePointer
  <2>2. VersionsKept
    BY <2>1, SameFiles
  <2>3. ReadsLatest(h)'
    BY <1>12, <1>2, <1>3, <1>4, <2>1, <2>2
       DEF Local, HandlerOK, ReadsLatest, Auditing, VersionsKept, ControlOK, Reading, Recording,
           DataOK, TakePointer
  <2>4. HoldsLatest(h)'
    BY <1>12, <1>2, <1>3, <1>4, <2>1, <2>2
       DEF Local, HandlerOK, HoldsLatest, Copy, VersionsKept, ControlOK, Reading, Recording,
           DataOK, PointerOK, ReadsLatest, TakePointer
  <2>5. EditOK(h)'
    BY <1>12, <1>2, <1>3, <1>4, <2>1, <2>2
       DEF Local, HandlerOK, EditOK, Building, Published, Auditing, Continues, VersionsKept,
           Edit, ControlOK, Reading, Recording, DataOK, PointerOK, ReadsLatest, OutcomeOK,
           TakePointer
  <2>6. StagedOK(h)'
    BY <1>12, <1>2, <1>3, <1>4, <2>1, <2>2
       DEF Local, HandlerOK, StagedOK, ControlOK, Reading, Recording, DataOK, TakePointer
  <2>7. QED
    BY <2>3, <2>4, <2>5, <2>6 DEF HandlerOK
<1>13. ASSUME LoadLatest(h) PROVE HandlerOK(h)'
  <2>1. /\ local' = [local EXCEPT ![h].doc = versionFile[Latest]]
        /\ pc' = [pc EXCEPT ![h] = "stagePointer"]
        /\ UNCHANGED <<files, handle, control>>
    BY <1>2, <1>4, <1>13, <1>r DEF LoadLatest, HandlerOK, ReadsLatest, Stored
  <2>2. VersionsKept
    BY <2>1, SameFiles
  <2>3. ReadsLatest(h)'
    BY <1>13, <1>2, <1>3, <1>4, <2>1, <2>2
       DEF Local, HandlerOK, ReadsLatest, Auditing, VersionsKept, ControlOK, Reading, Recording,
           DataOK, LoadLatest
  <2>4. HoldsLatest(h)'
    BY <1>13, <1>2, <1>3, <1>4, <2>1, <2>2
       DEF Local, HandlerOK, HoldsLatest, Copy, VersionsKept, ControlOK, Reading, Recording,
           DataOK, LoadLatest
  <2>5. EditOK(h)'
    BY <1>13, <1>2, <1>3, <1>4, <2>1, <2>2
       DEF Local, HandlerOK, EditOK, Building, Published, Auditing, Continues, VersionsKept,
           Edit, ControlOK, Reading, Recording, DataOK, LoadLatest
  <2>6. StagedOK(h)'
    BY <1>13, <1>2, <1>3, <1>4, <2>1, <2>2
       DEF Local, HandlerOK, StagedOK, ControlOK, Reading, Recording, DataOK, LoadLatest
  <2>7. QED
    BY <2>3, <2>4, <2>5, <2>6 DEF HandlerOK
<1>14. ASSUME StagePointer(h) PROVE HandlerOK(h)'
  <2>1. VersionsKept
    BY <1>14, SameFiles DEF StagePointer
  <2>2. ReadsLatest(h)'
    BY <1>2, <1>3, <1>4, <1>14, <2>1
       DEF StagePointer, Local, HandlerOK, ReadsLatest, Auditing, VersionsKept
  <2>3. HoldsLatest(h)'
    BY <1>2, <1>3, <1>4, <1>14, <2>1
       DEF StagePointer, Local, HandlerOK, HoldsLatest, Copy, VersionsKept
  <2>4. EditOK(h)'
    BY <1>2, <1>3, <1>4, <1>14, <2>1
       DEF StagePointer, Local, HandlerOK, EditOK, Building, Published, Auditing, Continues,
           VersionsKept, Edit
  <2>5. StagedOK(h)'
    BY <1>2, <1>3, <1>4, <1>14, <2>1
       DEF StagePointer, Local, HandlerOK, StagedOK, Opened
  <2>6. QED
    BY <2>2, <2>3, <2>4, <2>5 DEF HandlerOK
<1>15. ASSUME FillPointer(h) PROVE HandlerOK(h)'
  <2>1. /\ pointer' = pointer /\ pointerTmp' = local[h].doc
        /\ pc' = [pc EXCEPT ![h] = "publishPointer"] /\ Closed(h)
        /\ UNCHANGED <<versionFile, versionTmp, record, recordTmp, audit, local, control>>
    BY <1>2, <1>15 DEF FillPointer, HandlerOK, StagedOK, Written
  <2>2. VersionsKept
    BY <2>1, SameFiles
  <2>3. ReadsLatest(h)'
    BY <1>15, <1>2, <1>3, <1>4, <2>1, <2>2
       DEF Local, HandlerOK, ReadsLatest, Auditing, VersionsKept, FillPointer
  <2>4. HoldsLatest(h)'
    BY <1>15, <1>2, <1>3, <1>4, <2>1, <2>2
       DEF Local, HandlerOK, HoldsLatest, Copy, VersionsKept, FillPointer
  <2>5. EditOK(h)'
    BY <1>15, <1>2, <1>3, <1>4, <2>1, <2>2
       DEF Local, HandlerOK, EditOK, Building, Published, Auditing, Continues, VersionsKept,
           Edit, FillPointer
  <2>6. StagedOK(h)'
    BY <1>15, <1>2, <1>3, <1>4, <2>1, <2>2
       DEF Local, HandlerOK, StagedOK, FillPointer
  <2>7. QED
    BY <2>3, <2>4, <2>5, <2>6 DEF HandlerOK
<1>16. ASSUME PublishPointer(h) PROVE HandlerOK(h)'
  <2>1. /\ pointer' = local[h].doc /\ pc' = [pc EXCEPT ![h] = local[h].return] /\ local' = local
        /\ UNCHANGED <<versionFile, versionTmp, record, recordTmp, audit, control>>
    BY <1>2, <1>16, FileAssumption
       DEF PublishPointer, HandlerOK, StagedOK, DataOK, Reading, FileAssumption
  <2>2. VersionsKept
    BY <2>1, SameFiles
  <2>3. ReadsLatest(h)'
    BY <1>16, <1>2, <1>3, <1>4, <2>1, <2>2, FileAssumption
       DEF Local, HandlerOK, ReadsLatest, Auditing, VersionsKept, ControlOK, Reading, Recording,
           DataOK, HoldsLatest, FileAssumption, PublishPointer
  <2>4. HoldsLatest(h)'
    BY <1>16, <1>2, <1>3, <1>4, <2>1, <2>2
       DEF Local, HandlerOK, HoldsLatest, Copy, VersionsKept, ControlOK, Reading, Recording,
           DataOK, PublishPointer
  <2>5. EditOK(h)'
    BY <1>16, <1>2, <1>3, <1>4, <2>1, <2>2
       DEF Local, HandlerOK, EditOK, Building, Published, Auditing, Continues, VersionsKept,
           Edit, ControlOK, Reading, Recording, DataOK, PublishPointer
  <2>6. StagedOK(h)'
    BY <1>16, <1>2, <1>3, <1>4, <2>1, <2>2
       DEF Local, HandlerOK, StagedOK, ControlOK, Reading, Recording, DataOK, PublishPointer
  <2>7. QED
    BY <2>3, <2>4, <2>5, <2>6 DEF HandlerOK
<1>17. ASSUME PrepareAgain(h) PROVE HandlerOK(h)'
  <2>1. VersionsKept
    BY <1>17, SameFiles DEF PrepareAgain
  <2>2. ReadsLatest(h)'
    BY <1>2, <1>3, <1>4, <1>17, <2>1
       DEF PrepareAgain, Local, HandlerOK, ReadsLatest, Auditing, VersionsKept
  <2>3. HoldsLatest(h)'
    BY <1>2, <1>3, <1>4, <1>17, <2>1
       DEF PrepareAgain, Local, HandlerOK, HoldsLatest, Copy, VersionsKept
  <2>4. EditOK(h)'
    BY <1>2, <1>3, <1>4, <1>17, <2>1, NoneAssumption
       DEF PrepareAgain, Local, HandlerOK, EditOK, Building, Published, Auditing, Continues,
           VersionsKept, Edit, NoneAssumption
  <2>5. StagedOK(h)'
    BY <1>2, <1>3, <1>4, <1>17, <2>1
       DEF PrepareAgain, Local, HandlerOK, StagedOK
  <2>6. QED
    BY <2>2, <2>3, <2>4, <2>5 DEF HandlerOK
<1>18. ASSUME Firewall(h) PROVE HandlerOK(h)'
  <2>1. VersionsKept
    BY <1>18, SameFiles DEF Firewall
  <2>2. ReadsLatest(h)'
    BY <1>2, <1>3, <1>4, <1>18, <2>1
       DEF Firewall, Local, HandlerOK, ReadsLatest, Auditing, VersionsKept
  <2>3. HoldsLatest(h)'
    BY <1>2, <1>3, <1>4, <1>18, <2>1
       DEF Firewall, Local, HandlerOK, HoldsLatest, Copy, VersionsKept
  <2>4. EditOK(h)'
    BY <1>2, <1>3, <1>4, <1>18, <2>1, NoneAssumption
       DEF Firewall, Local, HandlerOK, EditOK, Building, Published, Auditing, Continues,
           VersionsKept, Edit, OutcomeOK, NoneAssumption, Outcome, ControlOK
  <2>5. StagedOK(h)'
    BY <1>2, <1>3, <1>4, <1>18, <2>1
       DEF Firewall, Local, HandlerOK, StagedOK
  <2>6. QED
    BY <2>2, <2>3, <2>4, <2>5 DEF HandlerOK
<1>19. ASSUME NumberVersion(h) PROVE HandlerOK(h)'
  <2>1. /\ local' = [local EXCEPT ![h].seen = Latest] /\ pc' = [pc EXCEPT ![h] = "numbered"]
        /\ UNCHANGED <<files, handle, control>>
    BY <1>2, <1>19, <1>r, ListedIsLatest DEF NumberVersion, Stored
  <2>2. VersionsKept
    BY <2>1, SameFiles
  <2>3. ReadsLatest(h)'
    BY <1>19, <1>2, <1>3, <1>4, <2>1, <2>2
       DEF Local, HandlerOK, ReadsLatest, Auditing, VersionsKept, NumberVersion
  <2>4. HoldsLatest(h)'
    BY <1>19, <1>2, <1>3, <1>4, <2>1, <2>2
       DEF Local, HandlerOK, HoldsLatest, Copy, VersionsKept, NumberVersion
  <2>5. EditOK(h)'
    BY <1>19, <1>2, <1>3, <1>4, <2>1, <2>2
       DEF Local, HandlerOK, EditOK, Building, Published, Auditing, Continues, VersionsKept,
           Edit, NumberVersion
  <2>6. StagedOK(h)'
    BY <1>19, <1>2, <1>3, <1>4, <2>1, <2>2
       DEF Local, HandlerOK, StagedOK, NumberVersion
  <2>7. QED
    BY <2>3, <2>4, <2>5, <2>6 DEF HandlerOK
<1>20. ASSUME StampVersion(h) PROVE HandlerOK(h)'
  <2>1. /\ local' = [local EXCEPT ![h].doc = Patched(h, Latest)]
        /\ pc' = [pc EXCEPT ![h] = "check"]
        /\ UNCHANGED <<files, handle, control>>
    BY <1>2, <1>20, <1>r DEF StampVersion, HandlerOK, ReadsLatest
  <2>2. VersionsKept
    BY <2>1, SameFiles
  <2>3. ReadsLatest(h)'
    BY <1>20, <1>2, <1>3, <1>4, <2>1, <2>2
       DEF Local, HandlerOK, ReadsLatest, Auditing, VersionsKept, StampVersion
  <2>4. HoldsLatest(h)'
    BY <1>20, <1>2, <1>3, <1>4, <2>1, <2>2
       DEF Local, HandlerOK, HoldsLatest, Copy, VersionsKept, StampVersion
  <2>5. EditOK(h)'
    <3>1. /\ Auditing(h) /\ local[h].outcome = "ACCEPTED" /\ local[h].doc \in Document
          /\ local[h].before = local[h].base /\ local[h].before = local[h].doc.version
          /\ Copy(local[h].doc) /\ local[h].doc.version = Latest
      BY <1>2, <1>20 DEF StampVersion, ControlOK, DataOK, OutcomeOK, HandlerOK, HoldsLatest, Reading
    <3>2. Edit(h) \notin versionFile[Latest].patches
      <4>1. versionFile[Latest].patches \subseteq Present
        BY <1>4 DEF Present
      <4>2. CASE local[h].op = "DECIDE"
        <5>1. record[local[h].release].base = Latest /\ local[h].release \in Releases
          BY <1>2, <1>20, <3>1, <4>2 DEF StampVersion, HandlerOK, StagedOK, ControlOK
        <5>2. QED
          BY <1>4, <1>q, <4>1, <4>2, <5>1 DEF Edit
      <4>3. CASE local[h].op # "DECIDE"
        BY <1>2, <1>20, <3>1, <4>1, <4>3
           DEF StampVersion, HandlerOK, EditOK, Published, Auditing, Edit
      <4>4. QED
        BY <4>2, <4>3
    <3>3. /\ local'[h].doc = Patched(h, Latest) /\ local'[h].outcome = local[h].outcome
          /\ local'[h].op = local[h].op /\ local'[h].id = local[h].id
          /\ local'[h].base = local[h].base /\ local'[h].release = local[h].release
          /\ local'[h].return = local[h].return /\ pc'[h] = "check"
      BY <1>3, <2>1 DEF Local
    <3>4. Edit(h)' = Edit(h) /\ local[h].id \in AuditId /\ Auditing(h)'
      BY <3>1, <3>3, ParameterAssumption
      DEF Edit, Auditing, IInv, IdsOK, TypeOK, AuditId, ParameterAssumption
    <3>5. Continues(local[h].doc, Latest, Edit(h))'
      BY <2>2, <3>1, <3>2, <3>3, <3>4, <1>4 DEF Continues, Patched, Copy, VersionsKept
    <3>6. local[h].op = "APPLY" => local[h].id \notin Present
      BY <1>2, <1>20 DEF StampVersion, HandlerOK, EditOK, Published
    <3>7. /\ local'[h].outcome = "ACCEPTED" /\ local'[h].doc.audit = local'[h].id
          /\ local'[h].base = Latest'
      <4>1. local'[h].doc.audit = local'[h].id
        BY <3>3 DEF Patched
      <4>2. Latest' = Latest
        BY <2>2 DEF VersionsKept
      <4>3. QED
        BY <3>1, <3>3, <4>1, <4>2
    <3>8. ~Published(h)'
      BY <3>3 DEF Published
    <3>9. Auditing(h)' => local'[h].return \in {"firewall", "revalidate", "openAudit"}
      BY <1>2, <3>1, <3>3 DEF EditOK, HandlerOK
    <3>10. local'[h].op = "APPLY" => local'[h].id \notin Present'
      BY <2>2, <3>3, <3>6 DEF VersionsKept
    <3>11. QED
      BY <3>3, <3>5, <3>7, <3>8, <3>9, <3>10 DEF EditOK
  <2>6. StagedOK(h)'
    BY <1>20, <1>2, <1>3, <1>4, <2>1, <2>2
       DEF Local, HandlerOK, StagedOK, StampVersion
  <2>7. QED
    BY <2>3, <2>4, <2>5, <2>6 DEF HandlerOK
<1>21. ASSUME CheckVersion(h) PROVE HandlerOK(h)'
  <2>1. /\ pc' = [pc EXCEPT ![h] = "stageVersion"] /\ local' = local
        /\ UNCHANGED <<files, handle, control>>
    BY <1>2, <1>3, <1>4, <1>21
       DEF CheckVersion, HandlerOK, EditOK, Building, Continues, Chain, ControlOK, DataOK, Stored,
           Document, Reading
  <2>2. VersionsKept
    BY <2>1, SameFiles
  <2>3. ReadsLatest(h)'
    BY <1>21, <1>2, <1>3, <1>4, <2>1, <2>2
       DEF Local, HandlerOK, ReadsLatest, Auditing, VersionsKept, CheckVersion
  <2>4. HoldsLatest(h)'
    BY <1>21, <1>2, <1>3, <1>4, <2>1, <2>2
       DEF Local, HandlerOK, HoldsLatest, Copy, VersionsKept, ControlOK, Auditing, CheckVersion
  <2>5. EditOK(h)'
    BY <1>21, <1>2, <1>3, <1>4, <2>1, <2>2
       DEF Local, HandlerOK, EditOK, Building, Published, Auditing, Continues, VersionsKept,
           Edit, CheckVersion
  <2>6. StagedOK(h)'
    BY <1>21, <1>2, <1>3, <1>4, <2>1, <2>2
       DEF Local, HandlerOK, StagedOK, CheckVersion
  <2>7. QED
    BY <2>3, <2>4, <2>5, <2>6 DEF HandlerOK
<1>22. ASSUME StageVersion(h) PROVE HandlerOK(h)'
  <2>1. VersionsKept
    BY <1>22, SameFiles DEF StageVersion
  <2>2. ReadsLatest(h)'
    BY <1>2, <1>3, <1>4, <1>22, <2>1
       DEF StageVersion, Local, HandlerOK, ReadsLatest, Auditing, VersionsKept
  <2>3. HoldsLatest(h)'
    BY <1>2, <1>3, <1>4, <1>22, <2>1
       DEF StageVersion, Local, HandlerOK, HoldsLatest, Copy, VersionsKept
  <2>4. EditOK(h)'
    BY <1>2, <1>3, <1>4, <1>22, <2>1
       DEF StageVersion, Local, HandlerOK, EditOK, Building, Published, Auditing, Continues,
           VersionsKept, Edit
  <2>5. StagedOK(h)'
    BY <1>2, <1>3, <1>4, <1>22, <2>1
       DEF StageVersion, Local, HandlerOK, StagedOK, ControlOK, Reading, Recording, DataOK,
           TypeOK, Document, Opened
  <2>6. QED
    BY <2>2, <2>3, <2>4, <2>5 DEF HandlerOK
<1>23. ASSUME FillVersion(h) PROVE HandlerOK(h)'
  <2>1. /\ versionFile' = versionFile
        /\ versionTmp' = [versionTmp EXCEPT ![local[h].doc.version] = local[h].doc]
        /\ pc' = [pc EXCEPT ![h] = "publishVersion"] /\ Closed(h)
        /\ UNCHANGED <<pointer, pointerTmp, record, recordTmp, audit, local, control>>
    BY <1>2, <1>23 DEF FillVersion, HandlerOK, StagedOK, Written
  <2>2. VersionsKept
    BY <2>1, SameFiles
  <2>3. ReadsLatest(h)'
    BY <1>23, <1>2, <1>3, <1>4, <2>1, <2>2
       DEF Local, HandlerOK, ReadsLatest, Auditing, VersionsKept, FillVersion
  <2>4. HoldsLatest(h)'
    BY <1>23, <1>2, <1>3, <1>4, <2>1, <2>2
       DEF Local, HandlerOK, HoldsLatest, Copy, VersionsKept, FillVersion
  <2>5. EditOK(h)'
    BY <1>23, <1>2, <1>3, <1>4, <2>1, <2>2
       DEF Local, HandlerOK, EditOK, Building, Published, Auditing, Continues, VersionsKept,
           Edit, FillVersion
  <2>6. StagedOK(h)'
    BY <1>23, <1>2, <1>3, <1>4, <2>1, <2>2
       DEF Local, HandlerOK, StagedOK, ControlOK, Reading, Recording, DataOK, TypeOK, Document,
           FillVersion
  <2>7. QED
    BY <2>3, <2>4, <2>5, <2>6 DEF HandlerOK
<1>24. ASSUME ResetState(h) PROVE HandlerOK(h)'
  <2>1. VersionsKept
    BY <1>24, SameFiles DEF ResetState
  <2>2. ReadsLatest(h)'
    BY <1>2, <1>3, <1>4, <1>24, <2>1
       DEF ResetState, Local, HandlerOK, ReadsLatest, Auditing, VersionsKept, ControlOK, Reading,
           Recording, DataOK, Document
  <2>3. HoldsLatest(h)'
    BY <1>2, <1>3, <1>4, <1>24, <2>1
       DEF ResetState, Local, HandlerOK, HoldsLatest, Copy, VersionsKept, ControlOK, Reading,
           Recording, DataOK, Document
  <2>4. EditOK(h)'
    BY <1>2, <1>3, <1>4, <1>24, <2>1
       DEF ResetState, Local, HandlerOK, EditOK, Building, Published, Auditing, Continues,
           VersionsKept, Edit, ControlOK, Reading, Recording, DataOK, Document
  <2>5. StagedOK(h)'
    BY <1>2, <1>3, <1>4, <1>24, <2>1
       DEF ResetState, Local, HandlerOK, StagedOK, ControlOK, Reading, Recording, DataOK,
           Document
  <2>6. QED
    BY <2>2, <2>3, <2>4, <2>5 DEF HandlerOK
<1>25. ASSUME Revalidate(h) PROVE HandlerOK(h)'
  <2>1. VersionsKept
    BY <1>25, SameFiles DEF Revalidate
  <2>2. ReadsLatest(h)'
    BY <1>2, <1>3, <1>4, <1>25, <2>1
       DEF Revalidate, Local, HandlerOK, ReadsLatest, Auditing, VersionsKept
  <2>3. HoldsLatest(h)'
    BY <1>2, <1>3, <1>4, <1>25, <2>1
       DEF Revalidate, Local, HandlerOK, HoldsLatest, Copy, VersionsKept
  <2>4. EditOK(h)'
    BY <1>2, <1>3, <1>4, <1>25, <2>1
       DEF Revalidate, Local, HandlerOK, EditOK, Building, Published, Auditing, Continues,
           VersionsKept, Edit, OutcomeOK
  <2>5. StagedOK(h)'
    BY <1>2, <1>3, <1>4, <1>25, <2>1
       DEF Revalidate, Local, HandlerOK, StagedOK
  <2>6. QED
    BY <2>2, <2>3, <2>4, <2>5 DEF HandlerOK
<1>26. ASSUME OpenAudit(h) PROVE HandlerOK(h)'
  <2>1. /\ pc' = [pc EXCEPT ![h] = "writeAudit"] /\ local' = local
        /\ UNCHANGED <<versionFile, versionTmp, pointer, pointerTmp, record, recordTmp, handle, control>>
    BY <1>2, <1>26 DEF OpenAudit, ControlOK, AuditOK, Recording
  <2>2. VersionsKept
    BY <2>1, SameFiles
  <2>3. ReadsLatest(h)'
    BY <1>26, <1>2, <1>3, <1>4, <2>1, <2>2
       DEF Local, HandlerOK, ReadsLatest, Auditing, VersionsKept, OpenAudit
  <2>4. HoldsLatest(h)'
    BY <1>26, <1>2, <1>3, <1>4, <2>1, <2>2
       DEF Local, HandlerOK, HoldsLatest, Copy, VersionsKept, OpenAudit
  <2>5. EditOK(h)'
    BY <1>26, <1>2, <1>3, <1>4, <2>1, <2>2
       DEF Local, HandlerOK, EditOK, Building, Published, Auditing, Continues, VersionsKept,
           Edit, OpenAudit
  <2>6. StagedOK(h)'
    BY <1>26, <1>2, <1>3, <1>4, <2>1, <2>2
       DEF Local, HandlerOK, StagedOK, OpenAudit
  <2>7. QED
    BY <2>3, <2>4, <2>5, <2>6 DEF HandlerOK
<1>27. ASSUME WriteAudit(h) PROVE HandlerOK(h)'
  <2>1. VersionsKept
    BY <1>27, SameFiles DEF WriteAudit
  <2>2. ReadsLatest(h)'
    BY <1>2, <1>3, <1>4, <1>27, <2>1
       DEF WriteAudit, Local, HandlerOK, ReadsLatest, Auditing, VersionsKept
  <2>3. HoldsLatest(h)'
    BY <1>2, <1>3, <1>4, <1>27, <2>1
       DEF WriteAudit, Local, HandlerOK, HoldsLatest, Copy, VersionsKept
  <2>4. EditOK(h)'
    BY <1>2, <1>3, <1>4, <1>27, <2>1
       DEF WriteAudit, Local, HandlerOK, EditOK, Building, Published, Auditing, Continues,
           VersionsKept, Edit
  <2>5. StagedOK(h)'
    BY <1>2, <1>3, <1>4, <1>27, <2>1
       DEF WriteAudit, Local, HandlerOK, StagedOK
  <2>6. QED
    BY <2>2, <2>3, <2>4, <2>5 DEF HandlerOK
<1>28. ASSUME StageRecord(h) PROVE HandlerOK(h)'
  <2>1. VersionsKept
    BY <1>28, SameFiles DEF StageRecord
  <2>2. ReadsLatest(h)'
    BY <1>2, <1>3, <1>4, <1>28, <2>1
       DEF StageRecord, Local, HandlerOK, ReadsLatest, Auditing, VersionsKept
  <2>3. HoldsLatest(h)'
    BY <1>2, <1>3, <1>4, <1>28, <2>1
       DEF StageRecord, Local, HandlerOK, HoldsLatest, Copy, VersionsKept
  <2>4. EditOK(h)'
    BY <1>2, <1>3, <1>4, <1>28, <2>1
       DEF StageRecord, Local, HandlerOK, EditOK, Building, Published, Auditing, Continues,
           VersionsKept, Edit
  <2>5. StagedOK(h)'
    BY <1>2, <1>3, <1>4, <1>28, <2>1
       DEF StageRecord, Local, HandlerOK, StagedOK, ControlOK, Reading, Recording, DataOK,
           TypeOK, Auditing, Opened
  <2>6. QED
    BY <2>2, <2>3, <2>4, <2>5 DEF HandlerOK
<1>29. ASSUME FillRecord(h) PROVE HandlerOK(h)'
  <2>1. /\ record' = record
        /\ recordTmp' = [recordTmp EXCEPT ![local[h].release] = Decided(h)]
        /\ pc' = [pc EXCEPT ![h] = "publishRecord"] /\ Closed(h)
        /\ UNCHANGED <<versionFile, versionTmp, pointer, pointerTmp, audit, local, control>>
    BY <1>2, <1>29 DEF FillRecord, HandlerOK, StagedOK, Written
  <2>2. VersionsKept
    BY <2>1, SameFiles
  <2>3. ReadsLatest(h)'
    BY <1>29, <1>2, <1>3, <1>4, <2>1, <2>2
       DEF Local, HandlerOK, ReadsLatest, Auditing, VersionsKept, FillRecord
  <2>4. HoldsLatest(h)'
    BY <1>29, <1>2, <1>3, <1>4, <2>1, <2>2
       DEF Local, HandlerOK, HoldsLatest, Copy, VersionsKept, FillRecord
  <2>5. EditOK(h)'
    BY <1>29, <1>2, <1>3, <1>4, <2>1, <2>2
       DEF Local, HandlerOK, EditOK, Building, Published, Auditing, Continues, VersionsKept,
           Edit, FillRecord
  <2>6. StagedOK(h)'
    BY <1>29, <1>2, <1>3, <1>4, <2>1, <2>2
       DEF Local, HandlerOK, StagedOK, ControlOK, Reading, Recording, DataOK, TypeOK, Auditing,
           Decided, FillRecord
  <2>7. QED
    BY <2>3, <2>4, <2>5, <2>6 DEF HandlerOK
<1>30. ASSUME PublishRecord(h) PROVE HandlerOK(h)'
  <2>1. /\ record' = [record EXCEPT ![local[h].release] = Decided(h)]
        /\ pc' = [pc EXCEPT ![h] = "respond"] /\ local' = local
        /\ UNCHANGED <<versionFile, versionTmp, pointer, pointerTmp, audit, control>>
    BY <1>2, <1>3, <1>30, FileAssumption, DecidedTyped
       DEF PublishRecord, HandlerOK, StagedOK, FileAssumption, Recording
  <2>2. VersionsKept
    BY <2>1, SameFiles
  <2>3. ReadsLatest(h)'
    BY <1>30, <1>2, <1>3, <1>4, <2>1, <2>2
       DEF Local, HandlerOK, ReadsLatest, Auditing, VersionsKept, PublishRecord
  <2>4. HoldsLatest(h)'
    BY <1>30, <1>2, <1>3, <1>4, <2>1, <2>2
       DEF Local, HandlerOK, HoldsLatest, Copy, VersionsKept, PublishRecord
  <2>5. EditOK(h)'
    BY <1>30, <1>2, <1>3, <1>4, <2>1, <2>2
       DEF Local, HandlerOK, EditOK, Building, Published, Auditing, Continues, VersionsKept,
           Edit, PublishRecord
  <2>6. StagedOK(h)'
    BY <1>30, <1>2, <1>3, <1>4, <2>1, <2>2
       DEF Local, HandlerOK, StagedOK, PublishRecord
  <2>7. QED
    BY <2>3, <2>4, <2>5, <2>6 DEF HandlerOK
<1>31. ASSUME Finish(h) PROVE HandlerOK(h)'
  BY <1>3, <1>31, IdleOK DEF Finish, Respond
<1>32. ASSUME PublishVersion(h) PROVE HandlerOK(h)'
  <2>1. /\ versionTmp[local[h].doc.version] = local[h].doc
        /\ local[h].doc \in Document /\ local[h].doc # None
    BY <1>2, <1>32, FileAssumption
       DEF PublishVersion, HandlerOK, StagedOK, DataOK, FileAssumption, Reading
  <2>2. /\ pc'[h] = IF local[h].op = "RESET" THEN "respond" ELSE "stagePointer"
        /\ local'[h] = [local[h] EXCEPT !.return = "openAudit"]
        /\ UNCHANGED <<pointer, pointerTmp, record, recordTmp>>
    BY <1>3, <1>32, <2>1 DEF PublishVersion
  <2>3. CASE local[h].op = "RESET"
    BY <1>3, <2>2, <2>3 DEF HandlerOK, ReadsLatest, HoldsLatest, EditOK, StagedOK, Building,
       Published, Auditing, Local
  <2>4. CASE local[h].op # "RESET"
    <3>1. VersionAdded(h) /\ Building(h)
      BY <1>32, <2>4, PublishStep DEF VersionAdded
    <3>2. /\ local[h].outcome = "ACCEPTED"
          /\ Continues(local[h].doc, Latest, Edit(h)) /\ local[h].doc.audit = local[h].id
      BY <1>2, <3>1 DEF HandlerOK, EditOK
    <3>3. ReadsLatest(h)' /\ StagedOK(h)'
      BY <1>2, <1>3, <1>32, <2>2, <2>4 DEF PublishVersion, HandlerOK, ReadsLatest, StagedOK, Local
    <3>4. HoldsLatest(h)'
      BY <1>3, <1>4, <2>2, <2>4, <3>1, <3>2 DEF HoldsLatest, VersionAdded, Copy, Continues, Local
    <3>5. Edit(h)' = Edit(h) /\ Auditing(h)
      BY <1>3, <2>2, <3>1 DEF Edit, Local, Building
    <3>6. EditOK(h)'
      BY <1>3, <1>4, <2>1, <2>2, <2>4, <3>1, <3>2, <3>5
         DEF EditOK, VersionAdded, Building, Published, Auditing, Continues, Local
    <3>7. QED
      BY <3>3, <3>4, <3>6 DEF HandlerOK
  <2>5. QED
    BY <2>3, <2>4
<1>33. QED
  BY <1>6, <1>7, <1>8, <1>9, <1>10, <1>11, <1>12, <1>13, <1>14, <1>15, <1>16, <1>17, <1>18,
     <1>19, <1>20, <1>21, <1>22, <1>23, <1>24, <1>25, <1>26, <1>27, <1>28, <1>29, <1>30, <1>31,
     <1>32
     DEF Request, Step

-------------------------------------------------------------------------------
(***************************************************************************)
(* Versions without an audit bundle, and releases in the TRT whose record  *)
(* does not say so.  A step adds none to those that no running request has *)
(* in hand; a restart adds the one that was in hand.                       *)
(***************************************************************************)

LEMMA OrphansFinite ==
  IsFiniteSet(Orphans) /\ Cardinality(Orphans) \in Nat
<1>1. IsFiniteSet(Version)
  BY FS_Interval, ParameterAssumption DEF Version, ParameterAssumption
<1>2. Orphans \subseteq Version
  BY DEF Orphans, Unaudited, Stored
<1>3. QED
  BY <1>1, <1>2, FS_Subset, FS_CardinalityType

LEMMA AuditOfVersion ==
  ASSUME SequentialInv, NEW n \in Stored \ {1}
  PROVE  versionFile[n].audit \in AuditId
BY DEF SequentialInv, Chain, Continues

\* The request keeps its version in hand until it writes the bundle.
\* It keeps its release in hand until it publishes the record.
LEMMA InHandStep ==
  ASSUME IInv, GateInv, SequentialInv, NEW h \in Handlers, Request(h) \/ Step(h)
  PROVE  /\ InHand(h) /\ ~WriteAudit(h) => InHand(h)'
         /\ Deciding(h) /\ ~PublishRecord(h) => Deciding(h)' /\ local'[h].release = local[h].release
<1> SUFFICES ASSUME InHand(h) \/ Deciding(h)
             PROVE  /\ InHand(h) /\ ~WriteAudit(h) => InHand(h)'
                    /\ Deciding(h) /\ ~PublishRecord(h) =>
                         Deciding(h)' /\ local'[h].release = local[h].release
  OBVIOUS
<1>1. /\ pc[h] \in Reading \cup {"openAudit", "writeAudit"} \cup Recording
      /\ Auditing(h) /\ local[h].outcome = "ACCEPTED"
      /\ pc[h] \in Reading => local[h].return = "openAudit"
  BY DEF InHand, Deciding, Published, SequentialInv, HandlerOK, EditOK, GateInv, OutcomeOK
<1>2. local \in [Handlers -> Local] /\ pc \in [Handlers -> Label]
  BY DEF IInv, TypeOK
<1>3. (\A n \in Version : Readable(versionFile[n])) /\ Readable(pointer)
  BY AllReadable
<1> USE DEF InHand, Deciding, Published, Auditing, Reading, Recording, Writing, Local, At, Goto,
            files, control
<1>4. CASE ListVersions(h)
  <2>1. /\ \E n \in Version : local' = [local EXCEPT ![h].seen = n]
        /\ pc' = [pc EXCEPT ![h] = "point"]
    BY <1>3, <1>4 DEF ListVersions, Stored
  <2>2. QED
    BY <1>1, <1>2, <1>4, <2>1 DEF ListVersions
<1>5. CASE ReadPointer(h)
  BY <1>1, <1>2, <1>3, <1>5 DEF ReadPointer
<1>6. CASE TakePointer(h)
  BY <1>1, <1>2, <1>3, <1>6 DEF TakePointer
<1>7. CASE LoadLatest(h)
  <2>1. local[h].seen \in Version
    BY <1>7 DEF LoadLatest, IInv, DataOK, Stored
  <2>2. /\ local' = [local EXCEPT ![h].doc = versionFile[local[h].seen]]
        /\ pc' = [pc EXCEPT ![h] = "stagePointer"]
    BY <1>3, <1>7, <2>1 DEF LoadLatest
  <2>3. QED
    BY <1>1, <1>2, <1>7, <2>2 DEF LoadLatest
<1>8. CASE StagePointer(h)
  BY <1>1, <1>2, <1>8 DEF StagePointer
<1>9. CASE FillPointer(h)
  BY <1>1, <1>2, <1>9 DEF FillPointer
<1>10. CASE PublishPointer(h)
  <2>1. pointerTmp # None
    BY <1>1, <1>10, FileAssumption
       DEF PublishPointer, SequentialInv, HandlerOK, StagedOK, IInv, DataOK, FileAssumption
  <2>2. QED
    BY <1>1, <1>2, <1>10, <2>1 DEF PublishPointer
<1>11. CASE OpenAudit(h)
  <2>1. audit[local[h].id] = None
    BY <1>11 DEF OpenAudit, IInv, ControlOK, AuditOK
  <2>2. QED
    BY <1>1, <1>2, <1>11, <2>1 DEF OpenAudit
<1>12. CASE WriteAudit(h)
  BY <1>1, <1>2, <1>12 DEF WriteAudit
<1>13. CASE StageRecord(h) \/ FillRecord(h)
  BY <1>1, <1>2, <1>13 DEF StageRecord, FillRecord
<1>14. CASE PublishRecord(h)
  BY <1>1, <1>14 DEF PublishRecord
<1>15. QED
  BY <1>1, <1>4, <1>5, <1>6, <1>7, <1>8, <1>9, <1>10, <1>11, <1>12, <1>13, <1>14
     DEF Request, Step, StartRequest, StartApply, StartDecision, PrepareAgain, SaveRelease,
         Firewall, NumberVersion, StampVersion, CheckVersion, StageVersion, FillVersion,
         PublishVersion, ResetState, Revalidate, Finish

\* The orphans that a step leaves were orphans before.
LEMMA OrphansStep ==
  ASSUME IInv, GateInv, SequentialInv, NEW h \in Handlers, Request(h) \/ Step(h)
  PROVE  Cardinality(Orphans)' <= crashes'
<1>1. local \in [Handlers -> Local] /\ pc \in [Handlers -> Label] /\ audit \in [AuditId -> AuditBundle \cup {None}]
  BY DEF IInv, TypeOK
<1>2. Latest \in Nat /\ Stored = 1 .. Latest
  BY ParameterAssumption DEF SequentialInv, Chain, Version, ParameterAssumption
<1>3. \A n \in Stored \ {1} : versionFile[n].audit \in AuditId
  BY AuditOfVersion
<1>4. ASSUME ~WriteAudit(h), VersionsKept PROVE Releasing \subseteq Releasing'
  <2>1. InHand(h) => InHand(h)'
    BY <1>4, InHandStep
  <2>2. QED
    BY <1>4, <2>1 DEF Releasing, VersionsKept, SequentialInv, Sequential
<1>5. ASSUME OpenAudit(h) \/ WriteAudit(h)
      PROVE  /\ VersionsKept
             /\ OpenAudit(h) => audit[local[h].id] = None
             /\ WriteAudit(h) => audit[local[h].id].status = "TORN"
             /\ local[h].id \in AuditId
  BY <1>5, SameFiles, ParameterAssumption
     DEF OpenAudit, WriteAudit, IInv, ControlOK, AuditOK, IdsOK, TypeOK, At, AuditId, Recording,
         ParameterAssumption
<1>6. Orphans' \subseteq Orphans
  <2>1. CASE VersionAdded(h)
    <3>1. local[h].doc # None /\ versionTmp[local[h].doc.version] # None
      BY <2>1, FileAssumption DEF VersionAdded, PublishVersion, At, IInv, DataOK, Reading,
         SequentialInv, HandlerOK, StagedOK, FileAssumption
    <3>2. local[h].outcome = "ACCEPTED" /\ local[h].op # "RESET" /\ Auditing(h)
      BY <2>1 DEF VersionAdded, Building, SequentialInv, HandlerOK, EditOK, Auditing
    <3>3. InHand(h)'
      BY <1>1, <2>1, <3>1, <3>2
         DEF VersionAdded, PublishVersion, Goto, InHand, Published, Auditing, Reading, Writing,
             Local
    <3>4. Releasing' = {Latest + 1}
      BY <2>1, <3>3 DEF VersionAdded, Releasing
    <3>5. Releasing = {}
      BY <2>1 DEF VersionAdded, Building, InHand, Published, Releasing, SequentialInv, Sequential,
                Writing
    <3>6. Unaudited' \ {Latest + 1} \subseteq Unaudited
      BY <1>2, <2>1 DEF VersionAdded, PublishVersion, Unaudited
    <3>7. QED
      BY <3>4, <3>5, <3>6 DEF Orphans
  <2>2. CASE VersionsKept /\ audit' = audit /\ ~WriteAudit(h)
    <3>1. Unaudited' = Unaudited
      BY <2>2 DEF VersionsKept, Unaudited
    <3>2. QED
      BY <1>4, <2>2, <3>1 DEF Orphans
  <2>3. CASE OpenAudit(h)
    <3>1. audit' = [audit EXCEPT ![local[h].id] = [status |-> "TORN", before |-> 0, after |-> 0]]
      BY <1>5, <2>3 DEF OpenAudit
    <3>2. Unaudited' \subseteq Unaudited
      BY <1>1, <1>3, <1>5, <2>3, <3>1 DEF VersionsKept, Unaudited
    <3>3. ~WriteAudit(h)
      BY <2>3 DEF OpenAudit, WriteAudit, At
    <3>4. QED
      BY <1>4, <1>5, <2>3, <3>2, <3>3 DEF Orphans
  <2>4. CASE WriteAudit(h)
    <3>1. audit' = [audit EXCEPT ![local[h].id] = Bundle(h)]
      BY <2>4 DEF WriteAudit
    <3>2. Unaudited' \subseteq Unaudited
      BY <1>1, <1>3, <1>5, <2>4, <3>1 DEF VersionsKept, Unaudited
    <3>3. CASE InHand(h)
      <4>1. versionFile[Latest].audit = local[h].id /\ Bundle(h).status = "ACCEPTED"
        BY <3>3 DEF InHand, Published, SequentialInv, HandlerOK, EditOK, Bundle
      <4>2. Bundle(h) # None
        BY <2>4, BundleTyped, NoneAssumption
           DEF WriteAudit, At, IInv, DataOK, Reading, NoneAssumption
      <4>3. Latest \notin Unaudited'
        BY <1>1, <1>2, <1>5, <2>4, <3>1, <4>1, <4>2 DEF VersionsKept, Unaudited
      <4>4. QED
        BY <3>2, <4>3 DEF Orphans, Releasing
    <3>4. CASE ~InHand(h)
      BY <3>2, <3>4 DEF Orphans, Releasing, SequentialInv, Sequential
    <3>5. QED
      BY <3>3, <3>4
  <2>5. audit' = audit \/ OpenAudit(h) \/ WriteAudit(h)
    BY DEF Request, Step, StartRequest, StartApply, StartDecision, ListVersions, ReadPointer,
           TakePointer, LoadLatest, StagePointer, FillPointer, PublishPointer, PrepareAgain,
           SaveRelease, Firewall, NumberVersion, StampVersion, CheckVersion, StageVersion,
           FillVersion, PublishVersion, ResetState, Revalidate, StageRecord, FillRecord,
           PublishRecord, Finish, files
  <2>6. QED
    BY <2>1, <2>2, <2>3, <2>4, <2>5, VersionsStep
<1>7. crashes' = crashes
  BY DEF Request, Step, StartRequest, StartApply, StartDecision, ListVersions, ReadPointer,
         TakePointer, LoadLatest, StagePointer, FillPointer, PublishPointer, PrepareAgain,
         SaveRelease, Firewall, NumberVersion, StampVersion, CheckVersion, StageVersion,
         FillVersion, PublishVersion, ResetState, Revalidate, OpenAudit, WriteAudit,
         StageRecord, FillRecord, PublishRecord, Finish, control
<1>8. Cardinality(Orphans') \in Nat /\ Cardinality(Orphans') <= Cardinality(Orphans)
  BY <1>6, OrphansFinite, FS_Subset, FS_CardinalityType
<1>9. QED
  BY <1>7, <1>8, OrphansFinite, ParameterAssumption
     DEF SequentialInv, IInv, TypeOK, ParameterAssumption

LEMMA CutFinite ==
  ASSUME PresentOK
  PROVE  IsFiniteSet(Cut) /\ Cardinality(Cut) \in Nat
<1>1. Cut \subseteq Present /\ IsFiniteSet(Present)
  BY DEF Cut, PresentOK
<1>2. QED
  BY <1>1, FS_Subset, FS_CardinalityType

\* The releases that a step leaves cut off were cut off before.
LEMMA CutStep ==
  ASSUME IInv, GateInv, SequentialInv, NEW h \in Handlers, Request(h) \/ Step(h)
  PROVE  Cardinality(Cut)' <= crashes'
<1>1. /\ local \in [Handlers -> Local] /\ pc \in [Handlers -> Label]
      /\ record \in [Releases -> RecordFile]
      /\ \A g \in Handlers : g = h
      /\ \A r \in Releases \cap Present : record[r] \in ReleaseRecord
  BY DEF IInv, TypeOK, SequentialInv, Sequential, PresentOK
<1>2. ASSUME NEW r \in Cut' PROVE r \in Cut
  <2>1. r \in Releases /\ r \in Present' /\ record'[r].status # "RELEASED" /\ r \notin BeingDecided'
    BY <1>2 DEF Cut
  <2>2. ~(Deciding(h)' /\ local'[h].release = r)
    BY <1>1, <2>1 DEF BeingDecided
  <2>3. CASE VersionAdded(h)
    <3>1. record' = record /\ Present' = Present \cup {Edit(h)} /\ Building(h)
      BY <2>3 DEF VersionAdded, PublishVersion
    <3>2. ~Deciding(h)
      BY <3>1 DEF Building, Deciding, Published
    <3>3. r \in Present
      <4>1. SUFFICES ASSUME r = Edit(h) PROVE FALSE
        BY <2>1, <3>1
      <4>2. local[h].op = "DECIDE" /\ local[h].release = r
        BY <2>1, <3>1, <4>1, EditTyped, EditAssumption DEF Building, EditAssumption
      <4>3. /\ local[h].doc # None /\ versionTmp[local[h].doc.version] # None
            /\ local[h].outcome = "ACCEPTED"
        BY <2>3, FileAssumption DEF VersionAdded, PublishVersion, At, IInv, DataOK, Reading,
           SequentialInv, HandlerOK, StagedOK, EditOK, FileAssumption
      <4>4. /\ pc' = [pc EXCEPT ![h] = "stagePointer"]
            /\ local' = [local EXCEPT ![h].return = "openAudit"]
        BY <2>3, <4>2, <4>3 DEF VersionAdded, PublishVersion, Goto
      <4>5. Deciding(h)' /\ local'[h].release = r
        BY <1>1, <4>2, <4>3, <4>4 DEF Deciding, Published, Auditing, Reading, Writing, Local
      <4>6. QED
        BY <2>2, <4>5
    <3>4. r \notin BeingDecided
      BY <1>1, <3>2 DEF BeingDecided
    <3>5. QED
      BY <2>1, <3>1, <3>3, <3>4 DEF Cut
  <2>4. CASE VersionsKept /\ record' = record /\ ~PublishRecord(h)
    <3>1. r \notin BeingDecided
      BY <1>1, <2>2, <2>4, InHandStep DEF BeingDecided
    <3>2. QED
      BY <2>1, <2>4, <3>1 DEF Cut, VersionsKept
  <2>5. ASSUME NEW s \in Releases, NEW base \in Version, SaveRelease(h, s, base), VersionsKept
        PROVE  r \in Cut
    <3>1. r \in Present /\ record[r] \in ReleaseRecord
      BY <1>1, <2>1, <2>5 DEF VersionsKept
    <3>2. record'[r] = record[r]
      BY <1>1, <2>1, <2>5, <3>1, FileAssumption DEF SaveRelease, FileAssumption
    <3>3. ~Deciding(h)
      BY <2>5 DEF SaveRelease, At, Deciding, Reading, Recording
    <3>4. QED
      BY <1>1, <2>1, <3>1, <3>2, <3>3 DEF Cut, BeingDecided
  <2>6. ASSUME PublishRecord(h), record' = [record EXCEPT ![local[h].release] = Decided(h)], VersionsKept
        PROVE  r \in Cut
    <3>1. r \in Present
      BY <2>1, <2>6 DEF VersionsKept
    <3>2. CASE r = local[h].release
      <4>1. record[r].status = "PENDING_OPERATOR_DECISION"
        BY <2>6, <3>2 DEF PublishRecord, At, SequentialInv, HandlerOK, StagedOK, IInv, ControlOK,
           Recording
      <4>2. record'[r] = Decided(h)
        BY <1>1, <2>1, <2>6, <3>2
      <4>3. local[h].outcome # "ACCEPTED"
        BY <2>1, <4>2 DEF Decided
      <4>4. ~Deciding(h)
        BY <4>3 DEF Deciding, Published
      <4>5. QED
        BY <1>1, <2>1, <3>1, <4>1, <4>4 DEF Cut, BeingDecided
    <3>3. CASE r # local[h].release
      BY <1>1, <2>1, <2>6, <3>1, <3>3 DEF Cut, BeingDecided
    <3>4. QED
      BY <3>2, <3>3
  <2>7. QED
    BY <2>3, <2>4, <2>5, <2>6, VersionsStep, RecordBecomes DEF VersionAdded, PublishVersion,
       PublishRecord, SaveRelease, At
<1>3. crashes' = crashes
  BY DEF Request, Step, StartRequest, StartApply, StartDecision, ListVersions, ReadPointer,
         TakePointer, LoadLatest, StagePointer, FillPointer, PublishPointer, PrepareAgain,
         SaveRelease, Firewall, NumberVersion, StampVersion, CheckVersion, StageVersion,
         FillVersion, PublishVersion, ResetState, Revalidate, OpenAudit, WriteAudit,
         StageRecord, FillRecord, PublishRecord, Finish, control
<1>4. IsFiniteSet(Cut) /\ Cardinality(Cut) \in Nat
  BY CutFinite DEF SequentialInv
<1>5. Cardinality(Cut') \in Nat /\ Cardinality(Cut') <= Cardinality(Cut)
  BY <1>2, <1>4, FS_Subset, FS_CardinalityType
<1>6. QED
  BY <1>3, <1>4, <1>5, ParameterAssumption
     DEF SequentialInv, IInv, TypeOK, ParameterAssumption

-------------------------------------------------------------------------------
(***************************************************************************)
(* SequentialInv is an invariant.                                          *)
(***************************************************************************)

LEMMA RestartSequential ==
  ASSUME IInv, SequentialInv, Restart
  PROVE  SequentialInv'
<1>1. /\ VersionsKept /\ versionFile' = versionFile /\ pointer' = pointer /\ audit' = audit
      /\ record' = record /\ requests' = requests
  BY SameFiles DEF Restart, files
<1>2. Chain'
  BY <1>1 DEF SequentialInv, Chain, Continues, VersionsKept
<1>3. PointerOK' /\ RecordsWhole' /\ PresentOK'
  BY <1>1 DEF SequentialInv, PointerOK, RecordsWhole, PresentOK, Copy, VersionsKept
<1>4. ASSUME NEW h \in Handlers PROVE HandlerOK(h)'
  <2>1. pc'[h] = "idle" /\ local'[h] = NoRequest
    BY DEF Restart
  <2>2. QED
    BY <2>1, IdleOK
<1>5. crashes' = crashes + 1 /\ crashes \in Nat
  BY ParameterAssumption DEF Restart, IInv, TypeOK, ParameterAssumption
<1>6. Cardinality(Orphans)' <= crashes'
  <2>1. Unaudited' = Unaudited
    BY <1>1 DEF Unaudited, VersionsKept
  <2>2. Orphans' \subseteq Orphans \cup {Latest}
    BY <2>1 DEF Orphans, Releasing
  <2>3. /\ IsFiniteSet(Orphans \cup {Latest})
        /\ Cardinality(Orphans \cup {Latest}) \in Nat
        /\ Cardinality(Orphans \cup {Latest}) <= Cardinality(Orphans) + 1
    BY OrphansFinite, FS_AddElement, FS_CardinalityType
  <2>4. Cardinality(Orphans') \in Nat /\ Cardinality(Orphans') <= Cardinality(Orphans) + 1
    BY <2>2, <2>3, OrphansFinite, FS_Subset, FS_CardinalityType
  <2>5. QED
    BY <1>5, <2>4, OrphansFinite DEF SequentialInv
<1>7. Cardinality(Cut)' <= crashes'
  <2>1. PICK h \in Handlers : \A g \in Handlers : g = h
    BY DEF Restart, SequentialInv, Sequential
  <2>2. PICK q : q = local[h].release
    OBVIOUS
  <2>3. BeingDecided \subseteq {q}
    BY <2>1, <2>2 DEF BeingDecided
  <2>4. Cut' \subseteq Cut \cup {q}
    BY <1>1, <2>3 DEF Cut, VersionsKept
  <2>5. IsFiniteSet(Cut) /\ Cardinality(Cut) \in Nat
    BY CutFinite DEF SequentialInv
  <2>6. /\ IsFiniteSet(Cut \cup {q}) /\ Cardinality(Cut \cup {q}) \in Nat
        /\ Cardinality(Cut \cup {q}) <= Cardinality(Cut) + 1
    BY <2>5, FS_AddElement, FS_CardinalityType
  <2>7. Cardinality(Cut') \in Nat /\ Cardinality(Cut') <= Cardinality(Cut) + 1
    BY <2>4, <2>5, <2>6, FS_Subset, FS_CardinalityType
  <2>8. QED
    BY <1>5, <2>5, <2>7 DEF SequentialInv
<1>8. QED
  BY <1>2, <1>3, <1>4, <1>6, <1>7 DEF SequentialInv, Sequential

LEMMA StutterSequential ==
  ASSUME SequentialInv, UNCHANGED vars
  PROVE  SequentialInv'
<1>1. VersionsKept
  BY SameFiles DEF vars, files
<1>2. Chain' /\ PointerOK' /\ RecordsWhole' /\ PresentOK'
  BY <1>1 DEF SequentialInv, Chain, Continues, PointerOK, RecordsWhole, PresentOK, Copy,
     VersionsKept, vars, files, control
<1>3. ASSUME NEW h \in Handlers PROVE HandlerOK(h)'
  <2>1. HandlerOK(h) /\ Latest' = Latest /\ Stored' = Stored
    BY <1>1 DEF SequentialInv, VersionsKept
  <2>2. ReadsLatest(h)'
    BY <2>1 DEF HandlerOK, ReadsLatest, Auditing, At, vars, files
  <2>3. HoldsLatest(h)'
    BY <2>1 DEF HandlerOK, HoldsLatest, Copy, vars, files
  <2>4. EditOK(h)'
    BY <1>1, <2>1 DEF HandlerOK, EditOK, Building, Published, Auditing, Continues, Edit,
       VersionsKept, vars, files
  <2>5. StagedOK(h)'
    BY <2>1 DEF HandlerOK, StagedOK, Decided, At, vars, files
  <2>6. QED
    BY <2>2, <2>3, <2>4, <2>5 DEF HandlerOK
<1>4. Orphans' = Orphans
  BY <1>1 DEF Orphans, Unaudited, Releasing, InHand, Published, Auditing, VersionsKept, vars, files
<1>5. Cut' = Cut
  BY <1>1 DEF Cut, BeingDecided, Deciding, Published, Auditing, VersionsKept, vars, files
<1>6. QED
  BY <1>2, <1>3, <1>4, <1>5 DEF SequentialInv, Sequential, vars, control

LEMMA InitSequential == Sequential /\ Init => SequentialInv
<1> SUFFICES ASSUME Sequential, Init PROVE SequentialInv
  OBVIOUS
<1>0. SeedDocument \in Document
  BY ParameterAssumption DEF ParameterAssumption, SeedDocument, Document, Version, Edits
<1>1. Stored = 1 .. 1
  <2>1. SeedDocument # None
    BY <1>0, FileAssumption DEF FileAssumption
  <2>2. Stored = {1}
    BY <2>1, ParameterAssumption DEF Init, Stored, ParameterAssumption, Version
  <2>3. QED
    BY <2>2
<1>2. Latest = 1 /\ 1 \in Version
  BY <1>1, LatestIs, ParameterAssumption DEF Version, ParameterAssumption
<1>3. Chain
  BY <1>0, <1>1, <1>2 DEF Chain, Init, SeedDocument
<1>4. PointerOK
  <2>1. versionFile[1] = SeedDocument /\ SeedDocument.version = 1
    BY <1>2 DEF Init, SeedDocument
  <2>2. Copy(SeedDocument)
    BY <1>1, <2>1 DEF Copy
  <2>3. pointer # None => pointer = SeedDocument
    BY DEF Init
  <2>4. QED
    BY <1>0, <1>2, <2>1, <2>2, <2>3 DEF PointerOK
<1>5. \A h \in Handlers : HandlerOK(h)
  BY NoneAssumption DEF NoneAssumption, Init, HandlerOK, ReadsLatest, HoldsLatest, EditOK, StagedOK,
     Building, Published, Auditing, At, NoRequest, EndpointSet, Writing
<1>6. Orphans = {}
  BY <1>1 DEF Orphans, Unaudited
<1>7. Present = {}
  BY <1>1, <1>2 DEF Present, Init, SeedDocument
<1>8. PresentOK /\ Cut = {} /\ RecordsWhole
  BY <1>7, FS_EmptySet DEF PresentOK, Cut, RecordsWhole, Init
<1>9. QED
  BY <1>3, <1>4, <1>5, <1>6, <1>8, FS_EmptySet DEF SequentialInv, Init

LEMMA NextSequential == IInv /\ GateInv /\ SequentialInv /\ [Next]_vars => SequentialInv'
<1> SUFFICES ASSUME IInv, GateInv, SequentialInv, [Next]_vars PROVE SequentialInv'
  OBVIOUS
<1>1. CASE Restart \/ UNCHANGED vars
  BY <1>1, RestartSequential, StutterSequential
<1>2. ASSUME NEW h \in Handlers, Request(h) \/ Step(h) PROVE SequentialInv'
  BY <1>2, ChainStep, PointerStep, WholeStep, PresentStep, HandlerStep, OrphansStep,
     CutStep DEF SequentialInv, Sequential
<1>3. QED
  BY <1>1, <1>2 DEF Next

LEMMA SequentialHolds == Sequential /\ Spec => []SequentialInv
BY InitSequential, NextSequential, InvariantHolds, GateHolds, PTL DEF Spec

\* While requests are served one at a time, restarts leave the pointer at the
\* latest version or at the one before it, and never ahead.
THEOREM PointerNeverFarBehind == Sequential /\ Spec => []PointerLag
<1>1. SequentialInv => PointerLag
  BY DEF SequentialInv, PointerOK, PointerLag
<1>2. QED
  BY <1>1, SequentialHolds, PTL

\* While requests are served one at a time, every version was made from the
\* version before it: no edit is lost.
THEOREM VersionsFormAChain == Sequential /\ Spec => []BaseIsPredecessor
<1>1. SequentialInv => BaseIsPredecessor
  BY DEF SequentialInv, Chain, Continues, BaseIsPredecessor, Intact
<1>2. QED
  BY <1>1, SequentialHolds, PTL

\* While requests are served one at a time, a restart leaves at most one version
\* without its audit bundle, over any number of restarts and requests.
THEOREM OneOrphanPerRestart == Sequential /\ Spec => []UnauditedOnlyByRestart
<1>1. ASSUME IInv, SequentialInv PROVE UnauditedOnlyByRestart
  <2>1. Releasing \subseteq InFlight
    BY <1>1, FileAssumption
       DEF Releasing, InHand, Published, Auditing, InFlight, SequentialInv, HandlerOK, EditOK,
           Chain, FileAssumption
  <2>2. Unaudited \ InFlight \subseteq Orphans
    BY <2>1 DEF Orphans
  <2>3. /\ Cardinality(Unaudited \ InFlight) \in Nat
        /\ Cardinality(Unaudited \ InFlight) <= Cardinality(Orphans)
    BY <2>2, OrphansFinite, FS_Subset, FS_CardinalityType
  <2>4. QED
    BY <1>1, <2>3, OrphansFinite, ParameterAssumption
       DEF UnauditedOnlyByRestart, SequentialInv, IInv, TypeOK, ParameterAssumption
<1>2. QED
  BY <1>1, SequentialHolds, InvariantHolds, PTL

\* While requests are served one at a time, a release that its record turns down
\* is in the TRT only as the work of a restart between its version and its
\* record, and each restart makes one such release at most.
THEOREM TurnedDownNeedsARestart == Sequential /\ Spec => []TurnedDownOnlyByRestart
<1>1. ASSUME IInv, SequentialInv PROVE TurnedDownOnlyByRestart
  <2> DEFINE Down == {r \in Decisions \ Released : InTRT(r)}
  <2>1. ASSUME NEW r \in Down PROVE r \in Cut
    <3>1. /\ r \in Releases /\ record[r].status # "PENDING_OPERATOR_DECISION"
          /\ record[r].status # "RELEASED" /\ r \in Present
      BY DEF Decisions, Released, InTRT, Intact, Present
    <3>2. r \notin BeingDecided
      BY <1>1, <3>1 DEF BeingDecided, Deciding, Reading, Recording, SequentialInv, HandlerOK,
         StagedOK, At
    <3>3. QED
      BY <3>1, <3>2 DEF Cut
  <2>2. IsFiniteSet(Cut) /\ Cardinality(Cut) \in Nat
    BY <1>1, CutFinite DEF SequentialInv
  <2>3. Cardinality(Down) \in Nat /\ Cardinality(Down) <= Cardinality(Cut)
    BY <2>1, <2>2, FS_Subset, FS_CardinalityType
  <2>4. QED
    BY <1>1, <2>2, <2>3, ParameterAssumption
       DEF TurnedDownOnlyByRestart, SequentialInv, IInv, TypeOK, ParameterAssumption
<1>2. QED
  BY <1>1, SequentialHolds, InvariantHolds, PTL

\* While requests are served one at a time, a restart between the opening of a
\* file and its rename leaves every file of the repository whole.
THEOREM RestartsTearNothing == Sequential /\ Spec => []NothingTorn
<1>1. SequentialInv => NothingTorn
  BY AllReadable DEF NothingTorn
<1>2. QED
  BY <1>1, SequentialHolds, PTL

-------------------------------------------------------------------------------
(***************************************************************************)
(* TRTRelease implements TRTLedger: Propose when the record is saved,      *)
(* Release when the version is published, Decide when the decided record   *)
(* is published, and a stutter otherwise.                                  *)
(***************************************************************************)

Contents == [n \in Stored |-> versionFile[n].patches]
Verdicts == [r \in Releases |-> IF record[r] = None THEN None ELSE record[r].status]

LEMMA ContentsLength ==
  ASSUME IInv, Chain
  PROVE  /\ Contents \in Seq(SUBSET Edits)
         /\ Len(Contents) = Latest
         /\ \A n \in Stored : Contents[n] = versionFile[n].patches
<1>1. \A n \in Stored : versionFile[n].patches \in SUBSET Edits
  BY DEF Chain, Document
<1>2. Stored = 1 .. Latest /\ Latest \in Nat
  BY ParameterAssumption DEF Chain, Version, ParameterAssumption
<1>3. QED
  BY <1>1, <1>2 DEF Contents

LEMMA InitLedger == Init => Ledger!Init
<1> SUFFICES ASSUME Init PROVE Ledger!Init
  OBVIOUS
<1>1. Contents = << {} >>
  <2>1. SeedDocument # None /\ SeedDocument.patches = {}
    <3>1. SeedDocument \in Document
      BY ParameterAssumption DEF ParameterAssumption, SeedDocument, Document, Version, Edits
    <3>2. QED
      BY <3>1, FileAssumption DEF FileAssumption, SeedDocument
  <2>2. Stored = {1}
    BY <2>1, ParameterAssumption DEF Init, Stored, Version, ParameterAssumption
  <2>3. Contents = [n \in {1} |-> {}]
    BY <2>1, <2>2, ParameterAssumption DEF Contents, Init, Version, ParameterAssumption
  <2>4. QED
    BY <2>3
<1>2. Verdicts = [r \in Releases |-> None]
  BY DEF Verdicts, Init
<1>3. QED
  BY <1>1, <1>2 DEF Ledger!Init, Contents, Verdicts

LEMMA LedgerStutter ==
  ASSUME VersionsKept, record' = record
  PROVE  UNCHANGED Ledger!ledger
<1>1. Contents' = Contents
  BY DEF VersionsKept, Contents
<1>2. Verdicts' = Verdicts
  BY DEF Verdicts
<1>3. QED
  BY <1>1, <1>2 DEF Ledger!ledger, Contents, Verdicts

LEMMA ProposeStep ==
  ASSUME IInv, NEW h \in Handlers, NEW r \in Releases, NEW base \in Version,
         SaveRelease(h, r, base)
  PROVE  Ledger!Propose(r)
<1>1. VersionsKept /\ record \in [Releases -> RecordFile]
  BY SameFiles DEF SaveRelease, IInv, TypeOK
<1>2. Contents' = Contents
  BY <1>1 DEF VersionsKept, Contents
<1>3. record' = [record EXCEPT ![r] = [status |-> "PENDING_OPERATOR_DECISION",
                                       base |-> base, audit |-> 0, version |-> 0]]
  BY DEF SaveRelease
<1>4. record'[r] # None /\ record'[r].status = "PENDING_OPERATOR_DECISION"
  <2>1. record'[r] \in ReleaseRecord
    BY <1>1, <1>3, ParameterAssumption DEF ReleaseRecord, Status, ParameterAssumption
  <2>2. QED
    BY <1>1, <1>3, <2>1, FileAssumption DEF FileAssumption
<1>5. Verdicts[r] = None /\ Verdicts' = [Verdicts EXCEPT ![r] = "PENDING_OPERATOR_DECISION"]
  BY <1>1, <1>3, <1>4 DEF Verdicts, SaveRelease
<1>6. QED
  BY <1>2, <1>5 DEF Ledger!Propose, Contents, Verdicts

\* A sequence is the function of its elements.
LEMMA SequenceIsFunction ==
  ASSUME NEW S, NEW s \in Seq(S), NEW n \in Nat, Len(s) = n
  PROVE  s = [i \in 1 .. n |-> s[i]]
OBVIOUS

LEMMA ReleaseStep ==
  ASSUME IInv, SequentialInv, NEW h \in Handlers, VersionAdded(h),
         NEW e \in Edits, e = Edit(h)
  PROVE  Ledger!Release(e)
<1> DEFINE next == versionFile[Latest].patches \cup {e}
<1>1. Stored = 1 .. Latest /\ Latest \in Nat /\ Latest \in Stored /\ Chain
  BY ParameterAssumption DEF SequentialInv, Chain, Version, ParameterAssumption
<1>2. /\ local[h].doc.patches = next
      /\ e \notin versionFile[Latest].patches
  BY DEF VersionAdded, SequentialInv, HandlerOK, EditOK, Continues
<1>3. /\ Contents \in Seq(SUBSET Edits) /\ Len(Contents) = Latest
      /\ Contents[Latest] = versionFile[Latest].patches
  BY <1>1, ContentsLength
<1>4. next \in SUBSET Edits
  BY <1>1 DEF Chain, Document
<1>5. Contents' = Append(Contents, next)
  <2>1. Contents' = [n \in 1 .. (Latest + 1) |-> versionFile'[n].patches]
    BY DEF Contents, VersionAdded
  <2>2. \A n \in 1 .. Latest : versionFile'[n].patches = Contents[n]
    BY <1>1 DEF VersionAdded, Contents
  <2>3. versionFile'[Latest + 1].patches = next
    BY <1>2 DEF VersionAdded
  <2> HIDE DEF next
  <2>4. Append(Contents, next) \in Seq(SUBSET Edits) /\ Len(Append(Contents, next)) = Latest + 1
    BY <1>3, <1>4
  <2>5. \A n \in 1 .. (Latest + 1) :
          Append(Contents, next)[n] = IF n = Latest + 1 THEN next ELSE Contents[n]
    BY <1>1, <1>3, <1>4
  <2>6. Append(Contents, next) = [n \in 1 .. (Latest + 1) |-> Append(Contents, next)[n]]
    <3>1. Latest + 1 \in Nat
      BY <1>1
    <3>2. QED
      BY ONLY <2>4, <3>1, SequenceIsFunction
  <2>7. ASSUME NEW n \in 1 .. (Latest + 1)
        PROVE  versionFile'[n].patches = Append(Contents, next)[n]
    <3>1. CASE n = Latest + 1
      BY <1>1, <2>3, <2>5, <3>1
    <3>2. CASE n # Latest + 1
      <4>1. n \in 1 .. Latest
        BY <1>1, <3>2
      <4>2. QED
        BY ONLY <2>2, <2>5, <3>2, <4>1, n \in 1 .. (Latest + 1)
    <3>3. QED
      BY <3>1, <3>2
  <2>8. QED
    BY <2>1, <2>6, <2>7
<1>6. record' = record
  BY DEF VersionAdded, PublishVersion
<1>7. Verdicts' = Verdicts
  BY <1>6 DEF Verdicts
<1>8. QED
  BY <1>2, <1>3, <1>5, <1>7 DEF Ledger!Release, Ledger!Newest, Contents, Verdicts

LEMMA DecideStep ==
  ASSUME IInv, SequentialInv, NEW h \in Handlers, PublishRecord(h),
         record' = [record EXCEPT ![local[h].release] = Decided(h)], VersionsKept,
         NEW r \in Releases, r = local[h].release, NEW v, v = Decided(h).status
  PROVE  v \in Ledger!Verdict \ {"PENDING_OPERATOR_DECISION"} /\ Ledger!Decide(r, v)
<1>1. /\ At(h, "publishRecord") /\ Auditing(h) /\ local[h].op = "DECIDE"
      /\ local[h].outcome \in Outcome /\ record \in [Releases -> RecordFile]
  BY DEF PublishRecord, IInv, ControlOK, DataOK, Reading, Recording, TypeOK, At
<1>2. record[r] # None /\ record[r].status = "PENDING_OPERATOR_DECISION"
  BY <1>1, FileAssumption DEF SequentialInv, HandlerOK, StagedOK, At, FileAssumption
<1>3. Decided(h) # None
  BY <1>1, DecidedTyped, FileAssumption DEF FileAssumption, At, Recording
<1>4. /\ v \in Ledger!Verdict \ {"PENDING_OPERATOR_DECISION"}
      /\ v = "RELEASED" => local[h].outcome = "ACCEPTED"
  BY <1>1 DEF Decided, Outcome, Ledger!Verdict
<1>5. Contents' = Contents
  BY DEF VersionsKept, Contents
<1>6. Verdicts[r] = "PENDING_OPERATOR_DECISION" /\ Verdicts' = [Verdicts EXCEPT ![r] = v]
  BY <1>1, <1>2, <1>3 DEF Verdicts
<1>7. v = "RELEASED" => r \in versionFile[Latest].patches
  BY <1>1, <1>4 DEF SequentialInv, HandlerOK, EditOK, Published, At, Edit, Writing
<1>8. Contents[Len(Contents)] = versionFile[Latest].patches
  BY ContentsLength, ParameterAssumption DEF SequentialInv, Chain, Version, ParameterAssumption
<1>9. QED
  BY <1>4, <1>5, <1>6, <1>7, <1>8 DEF Ledger!Decide, Ledger!Newest, Contents, Verdicts

LEMMA LedgerStep ==
  ASSUME IInv, SequentialInv, [Next]_vars
  PROVE  [Ledger!Next]_Ledger!ledger
<1>1. CASE Restart \/ UNCHANGED vars
  <2>1. VersionsKept /\ record' = record
    BY <1>1, SameFiles DEF Restart, vars, files
  <2>2. QED
    BY <2>1, LedgerStutter
<1>2. ASSUME NEW h \in Handlers, Request(h) \/ Step(h)
      PROVE  [Ledger!Next]_Ledger!ledger
  <2>1. CASE VersionAdded(h)
    <3>1. PICK e \in Edits : e = Edit(h)
      BY <2>1, EditTyped DEF VersionAdded, Building
    <3>2. QED
      BY <2>1, <3>1, ReleaseStep DEF Ledger!Next
  <2>2. ASSUME PublishRecord(h), record' = [record EXCEPT ![local[h].release] = Decided(h)],
               versionFile' = versionFile
        PROVE  [Ledger!Next]_Ledger!ledger
    <3>1. PICK r \in Releases : r = local[h].release
      BY <2>2 DEF PublishRecord, At, IInv, ControlOK, Recording
    <3>2. PICK v : v = Decided(h).status
      OBVIOUS
    <3>3. VersionsKept
      BY <2>2, SameFiles
    <3>4. QED
      BY <2>2, <3>1, <3>2, <3>3, DecideStep DEF Ledger!Next
  <2>3. ASSUME NEW r \in Releases, NEW base \in Version, SaveRelease(h, r, base)
        PROVE  [Ledger!Next]_Ledger!ledger
    BY <2>3, ProposeStep DEF Ledger!Next
  <2>4. CASE VersionsKept /\ record' = record
    BY <2>4, LedgerStutter
  <2>5. QED
    BY <1>2, <2>1, <2>2, <2>3, <2>4, VersionsStep, RecordBecomes
<1>3. QED
  BY <1>1, <1>2 DEF Next

\* While requests are served one at a time, restarts included, the release gate
\* implements TRTLedger.
THEOREM GateImplementsLedger == Sequential /\ Spec => ImplementsLedger
<1>1. IInv /\ SequentialInv /\ [Next]_vars => [Ledger!Next]_Ledger!ledger
  BY LedgerStep
<1>2. QED
  BY <1>1, InitLedger, InvariantHolds, SequentialHolds, PTL DEF Spec, ImplementsLedger, Ledger!Spec

===============================================================================
