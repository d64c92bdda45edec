------------------------------ MODULE TRTRelease ------------------------------
(***************************************************************************)
(* The versioned Task Requirement Table (TRT) and its release gate:        *)
(* trt_core/repository.py, trt_core/release.py and trt_core/patch_apply.py *)
(* as the FastAPI endpoints of trt_core/api.py call them.                  *)
(*                                                                         *)
(* The endpoints are plain functions, so the server runs each request in   *)
(* a thread of its pool; the repository keeps every document in a file and *)
(* takes no lock.  A handler is therefore a process that goes from one     *)
(* file access to the next, and the accesses of several handlers           *)
(* interleave.  _atomic_write_json opens ".<name>.tmp", which empties it,  *)
(* fills it and renames it: three steps, and the temporary file of a path  *)
(* is shared by all the writers of that path.  A restart ends every        *)
(* handler where it is and keeps the files.                                *)
(***************************************************************************)
EXTENDS Integers, FiniteSets

CONSTANTS
  Handlers,     \* requests the thread pool serves at the same time
  Releases,     \* release ids that prepare_release may draw (uuid4)
  Endpoints,    \* the endpoints that clients call in this instance
  MaxVersion,   \* bound: TRT versions v1 .. v<MaxVersion>
  MaxRequests,  \* bound: POST /patch/apply and POST /release/decision calls
  MaxCrashes,   \* bound: restarts of the API process
  None,         \* no such file, or a field that is null
  Empty,        \* a file that was opened for writing and not written to
  Torn          \* a file in which two writers have mixed their documents

Version    == 1 .. MaxVersion
AuditId    == 1 .. MaxRequests
EndpointSet == {"READ", "REPAIR", "RESET", "PREPARE", "APPLY", "DECIDE"}
Decision   == {"APPROVE", "REJECT", "REQUEST_REVISION"}
Status     == {"PENDING_OPERATOR_DECISION", "RELEASED", "FAILED_STALE_VERSION",
               "NEEDS_REVISION", "REJECTED_BY_OPERATOR"}
Outcome    == {"ACCEPTED", "STALE", "INVALID", "REJECTED_BY_OPERATOR", "NEEDS_REVISION"}

(***************************************************************************)
(* A TRT document keeps what the properties tell apart: its version and    *)
(* previous_version, the release and audit ids stamped on it, the patches  *)
(* its content contains (named by the release they are the candidate of,   *)
(* or by the audit id of a direct application), and whether the runtime    *)
(* state of line_2 is the one the demo reset writes.                       *)
(***************************************************************************)
Edits == Releases \cup AuditId

Document == [version: Version, previous: 0 .. MaxVersion, release: Releases \cup {None},
             audit: 0 .. MaxRequests, patches: SUBSET Edits, reset: BOOLEAN]

SeedDocument == [version |-> 1, previous |-> 0, release |-> None,
                 audit |-> 0, patches |-> {}, reset |-> FALSE]

ReleaseRecord == [status: Status, base: Version, audit: 0 .. MaxRequests,
                  version: 0 .. MaxVersion]

Unreadable == {Empty, Torn}
TRTFile == Document \cup {None} \cup Unreadable
RecordFile == ReleaseRecord \cup {None} \cup Unreadable

\* An audit bundle; "TORN" is the file that write_text has opened and not filled.
AuditBundle == [status: {"TORN", "ACCEPTED", "REJECTED", "REJECTED_BY_OPERATOR",
                         "NEEDS_REVISION"},
                before: 0 .. MaxVersion, after: 0 .. MaxVersion]

ASSUME ParameterAssumption ==
  /\ MaxVersion \in Nat \ {0}
  /\ MaxRequests \in Nat
  /\ MaxCrashes \in Nat
  /\ Endpoints \subseteq EndpointSet

ASSUME NoneAssumption ==
  /\ None \notin AuditBundle
  /\ None \notin Releases
  /\ None \notin EndpointSet \cup Outcome

ASSUME FileAssumption ==
  /\ {None, Empty, Torn} \cap (Document \cup ReleaseRecord) = {}
  /\ None \notin Unreadable
  /\ Empty # Torn

\* A release id is not an audit id.
ASSUME EditAssumption == Releases \cap AuditId = {}

VARIABLES
  versionFile,  \* data/trt_versions/<trt_id>_v<n>.json
  versionTmp,   \* data/trt_versions/.<trt_id>_v<n>.json.tmp
  pointer,      \* data/trt/current_trt.json
  pointerTmp,   \* data/trt/.current_trt.json.tmp
  record,       \* data/releases/<release_id>.json
  recordTmp,    \* data/releases/.<release_id>.json.tmp
  audit,        \* data/audit_bundles/<audit_id>.json
  pc,           \* the next file access of each handler
  local,        \* the local variables of each handler
  handle,       \* where the file is that a handler has open for writing
  requests,     \* audit ids drawn so far
  crashes       \* restarts so far

files   == <<versionFile, versionTmp, pointer, pointerTmp, record, recordTmp, audit>>
control == <<requests, crashes>>
vars    == <<files, pc, local, handle, control>>

Label == {"idle", "list", "point", "take", "load",
          "stagePointer", "fillPointer", "publishPointer",
          "prepareAgain", "saveRelease", "firewall", "number", "numbered", "check",
          "stageVersion", "fillVersion", "publishVersion",
          "resetState", "revalidate", "openAudit", "writeAudit",
          "stageRecord", "fillRecord", "publishRecord", "respond"}

\* The open file is still the temporary one, was renamed to its path by another
\* handler, or has been replaced there since.
Handle == {"closed", "tmp", "file", "gone"}

\* return: where get_current_trt or save_current_trt_snapshot comes back to.
Local == [op: EndpointSet \cup {None}, decision: Decision \cup {None},
          release: Releases \cup {None}, base: 0 .. MaxVersion, id: 0 .. MaxRequests,
          return: Label, seen: 0 .. MaxVersion, doc: Document \cup {None},
          before: 0 .. MaxVersion, outcome: Outcome \cup {None}]

NoRequest == [op |-> None, decision |-> None, release |-> None, base |-> 0, id |-> 0,
              return |-> "idle", seen |-> 0, doc |-> None, before |-> 0, outcome |-> None]

TypeOK ==
  /\ versionFile \in [Version -> TRTFile]
  /\ versionTmp \in [Version -> TRTFile]
  /\ pointer \in TRTFile
  /\ pointerTmp \in TRTFile
  /\ record \in [Releases -> RecordFile]
  /\ recordTmp \in [Releases -> RecordFile]
  /\ audit \in [AuditId -> AuditBundle \cup {None}]
  /\ pc \in [Handlers -> Label]
  /\ local \in [Handlers -> Local]
  /\ handle \in [Handlers -> Handle]
  /\ requests \in 0 .. MaxRequests
  /\ crashes \in 0 .. MaxCrashes

\* The repository may come without a pointer file: the versions alone are enough.
Init ==
  /\ versionFile = [n \in Version |-> IF n = 1 THEN SeedDocument ELSE None]
  /\ versionTmp = [n \in Version |-> None]
  /\ pointer \in {None, SeedDocument}
  /\ pointerTmp = None
  /\ record = [r \in Releases |-> None]
  /\ recordTmp = [r \in Releases |-> None]
  /\ audit = [i \in AuditId |-> None]
  /\ pc = [h \in Handlers |-> "idle"]
  /\ local = [h \in Handlers |-> NoRequest]
  /\ handle = [h \in Handlers |-> "closed"]
  /\ requests = 0
  /\ crashes = 0

-------------------------------------------------------------------------------
(***************************************************************************)
(* Control flow of a handler.  An operator whose name ends in _Fault is a  *)
(* plausible mistake in the definition that follows it; no action uses it. *)
(***************************************************************************)

At(h, label) == pc[h] = label

Goto(h, label) == pc' = [pc EXCEPT ![h] = label]

\* The request ends: its result, or its exception, goes to the client.
Respond(h) ==
  /\ Goto(h, "idle")
  /\ local' = [local EXCEPT ![h] = NoRequest]

(***************************************************************************)
(* The three steps of _atomic_write_json.  The file that a handler has     *)
(* opened stays the one it writes to, wherever another handler's rename    *)
(* moves it.  A document is written from the start of the file: over one   *)
(* that is there already, the longer of the two leaves its tail.           *)
(***************************************************************************)

Opened(h) == handle' = [handle EXCEPT ![h] = "tmp"]
Closed(h) == handle' = [handle EXCEPT ![h] = "closed"]

Written(old, document) == {document} \cup (IF old = Empty THEN {} ELSE {Torn})

Moved(place) == CASE place = "tmp" -> "file" [] place = "file" -> "gone" [] OTHER -> place

\* A rename takes along the open files of the handlers that write there.
Renamed(writers) ==
  handle' = [h \in Handlers |-> IF h \in writers THEN Moved(handle[h]) ELSE handle[h]]

PointerWriters == {h \in Handlers : At(h, "fillPointer")}
VersionWriters(n) == {h \in Handlers : At(h, "fillVersion") /\ local[h].doc.version = n}
RecordWriters(r) == {h \in Handlers : At(h, "fillRecord") /\ local[h].release = r}

\* Parsing an existing file raises when it is empty or torn.
Readable(file) == file \notin Unreadable

\* Versions with a file, and the number trt_version_state calls the latest.
Stored == {n \in Version : versionFile[n] # None}
IsLatest(n) == n \in Stored /\ \A m \in Stored : m <= n

\* Enter get_current_trt and come back to label.
CallGetCurrent(h, label, request) ==
  /\ Goto(h, "list")
  /\ local' = [local EXCEPT ![h] = [request EXCEPT !.return = label]]

-------------------------------------------------------------------------------
(***************************************************************************)
(* Requests.                                                               *)
(***************************************************************************)

\* Bound: no more requests to prepare than there are release ids.
ReleaseIdLeft ==
  Cardinality({h \in Handlers : local[h].op = "PREPARE"})
    < Cardinality({r \in Releases : record[r] = None})

\* GET /trt/current, POST /debug/repair-current-trt, POST
\* /debug/reset-demo-trt-state and POST /release/prepare, which all start by
\* reading the current version.
StartRequest(h, op) ==
  /\ At(h, "idle")
  /\ op \in Endpoints \cap {"READ", "REPAIR", "RESET", "PREPARE"}
  /\ op = "PREPARE" => ReleaseIdLeft
  /\ CallGetCurrent(h,
       CASE op = "PREPARE" -> "prepareAgain"
         [] op = "RESET"   -> "resetState"
         [] OTHER          -> "respond",
       [NoRequest EXCEPT !.op = op])
  /\ UNCHANGED <<files, handle, control>>

\* POST /patch/apply with a patch made for version base.
StartApply(h, base) ==
  /\ At(h, "idle")
  /\ "APPLY" \in Endpoints
  /\ requests < MaxRequests
  /\ requests' = requests + 1
  /\ CallGetCurrent(h, "firewall",
       [NoRequest EXCEPT !.op = "APPLY", !.base = base, !.id = requests + 1])
  /\ UNCHANGED <<files, handle, crashes>>

Pending(r) == record[r] \in ReleaseRecord /\ record[r].status = "PENDING_OPERATOR_DECISION"

\* POST /release/decision: the record is loaded and refused unless pending.
StartDecision(h, r, decision) ==
  /\ At(h, "idle")
  /\ "DECIDE" \in Endpoints
  /\ Pending(r)
  /\ requests < MaxRequests
  /\ requests' = requests + 1
  /\ CallGetCurrent(h, IF decision = "APPROVE" THEN "firewall" ELSE "revalidate",
       [NoRequest EXCEPT !.op = "DECIDE", !.decision = decision, !.release = r,
                         !.base = record[r].base, !.id = requests + 1])
  /\ UNCHANGED <<files, handle, crashes>>

-------------------------------------------------------------------------------
(***************************************************************************)
(* get_current_trt and save_current_trt_snapshot.                          *)
(***************************************************************************)

\* trt_version_state parses the version files first ...
ListVersions(h) ==
  /\ At(h, "list")
  /\ IF \A n \in Stored : Readable(versionFile[n])
     THEN /\ \E n \in Stored :
               /\ IsLatest(n)
               /\ local' = [local EXCEPT ![h].seen = n]
          /\ Goto(h, "point")
     ELSE Respond(h)
  /\ UNCHANGED <<files, handle, control>>

\* ... and then the pointer; a mismatch is taken for a stale pointer.
IsConsistent(h) == pointer # None /\ pointer.version = local[h].seen

ReadPointer_Trusting_Fault(h) ==
  /\ At(h, "point")
  /\ IF Readable(pointer)
     THEN /\ Goto(h, IF local[h].op # "REPAIR" /\ pointer # None THEN "take" ELSE "load")
          /\ UNCHANGED local
     ELSE Respond(h)
  /\ UNCHANGED <<files, handle, control>>

ReadPointer(h) ==
  /\ At(h, "point")
  /\ IF Readable(pointer)
     THEN /\ Goto(h, IF local[h].op # "REPAIR" /\ IsConsistent(h) THEN "take" ELSE "load")
          /\ UNCHANGED local
     ELSE Respond(h)
  /\ UNCHANGED <<files, handle, control>>

\* get_current_trt then reads the pointer once more.
TakePointer(h) ==
  /\ At(h, "take")
  /\ IF Readable(pointer)
     THEN /\ local' = [local EXCEPT ![h].doc = pointer]
          /\ Goto(h, local[h].return)
     ELSE Respond(h)
  /\ UNCHANGED <<files, handle, control>>

\* The repair loads the version it listed, whatever was released since.
LoadLatest(h) ==
  /\ At(h, "load")
  /\ IF Readable(versionFile[local[h].seen])
     THEN /\ local' = [local EXCEPT ![h].doc = versionFile[local[h].seen]]
          /\ Goto(h, "stagePointer")
     ELSE Respond(h)
  /\ UNCHANGED <<files, handle, control>>

StagePointer(h) ==
  /\ At(h, "stagePointer")
  /\ pointerTmp' = Empty
  /\ Opened(h)
  /\ Goto(h, "fillPointer")
  /\ UNCHANGED <<versionFile, versionTmp, pointer, record, recordTmp, audit, local, control>>

FillPointer(h) ==
  /\ At(h, "fillPointer")
  /\ IF handle[h] = "tmp"
     THEN pointerTmp' \in Written(pointerTmp, local[h].doc)
     ELSE UNCHANGED pointerTmp
  /\ IF handle[h] = "file"
     THEN pointer' \in Written(pointer, local[h].doc)
     ELSE UNCHANGED pointer
  /\ Closed(h)
  /\ Goto(h, "publishPointer")
  /\ UNCHANGED <<versionFile, versionTmp, record, recordTmp, audit, local, control>>

\* os.replace: without the temporary file it raises FileNotFoundError.
PublishPointer(h) ==
  /\ At(h, "publishPointer")
  /\ IF pointerTmp # None
     THEN /\ pointer' = pointerTmp
          /\ pointerTmp' = None
          /\ Renamed(PointerWriters)
          /\ Goto(h, local[h].return)
          /\ UNCHANGED local
     ELSE /\ Respond(h)
          /\ UNCHANGED <<pointer, pointerTmp, handle>>
  /\ UNCHANGED <<versionFile, versionTmp, record, recordTmp, audit, control>>

-------------------------------------------------------------------------------
(***************************************************************************)
(* prepare_release.                                                        *)
(***************************************************************************)

\* validate_intent_patch has read the current TRT; prepare_release reads it again.
PrepareAgain(h) ==
  /\ At(h, "prepareAgain")
  /\ CallGetCurrent(h, "saveRelease", local[h])
  /\ UNCHANGED <<files, handle, control>>

\* The record goes to a fresh path, whatever the validation said; the
\* response then reads the current TRT once more.
SaveRelease(h, r, base) ==
  /\ At(h, "saveRelease")
  /\ record[r] = None
  /\ record' = [record EXCEPT ![r] = [status |-> "PENDING_OPERATOR_DECISION",
                                      base |-> base, audit |-> 0, version |-> 0]]
  /\ CallGetCurrent(h, "respond", local[h])
  /\ UNCHANGED <<versionFile, versionTmp, pointer, pointerTmp, recordTmp, audit, handle, control>>

-------------------------------------------------------------------------------
(***************************************************************************)
(* apply_intent_patch, called by POST /patch/apply and by an approval.     *)
(***************************************************************************)

\* validate_firewall on the TRT just read: the base version, and all the
\* checks of schema, whitelist and semantics taken together.
Firewall_NoBaseCheck_Fault(h) ==
  /\ At(h, "firewall")
  /\ local' = [local EXCEPT ![h].before = local[h].doc.version,
                            ![h].outcome = "ACCEPTED"]
  /\ Goto(h, "number")
  /\ UNCHANGED <<files, handle, control>>

Firewall_AppliesStale_Fault(h) ==
  /\ At(h, "firewall")
  /\ local' = [local EXCEPT ![h].before = local[h].doc.version,
                            ![h].outcome = IF local[h].doc.version = local[h].base
                                           THEN "ACCEPTED" ELSE "STALE"]
  /\ Goto(h, "number")
  /\ UNCHANGED <<files, handle, control>>

Firewall(h) ==
  /\ At(h, "firewall")
  /\ \/ /\ local[h].doc.version # local[h].base
        /\ local' = [local EXCEPT ![h].before = local[h].doc.version,
                                  ![h].outcome = "STALE"]
        /\ Goto(h, "openAudit")
     \/ /\ local[h].doc.version = local[h].base
        /\ local' = [local EXCEPT ![h].before = local[h].doc.version,
                                  ![h].outcome = "INVALID"]
        /\ Goto(h, "openAudit")
     \/ /\ local[h].doc.version = local[h].base
        /\ local' = [local EXCEPT ![h].before = local[h].doc.version,
                                  ![h].outcome = "ACCEPTED"]
        /\ Goto(h, "number")
  /\ UNCHANGED <<files, handle, control>>

\* Without a release the patched TRT keeps the release id of its base.
ReleaseOf(h) == IF local[h].release # None THEN local[h].release ELSE local[h].doc.release

\* The patch of a release is one patch, however often it is decided on.
Edit(h) == IF local[h].op = "DECIDE" THEN local[h].release ELSE local[h].id

Patched_FromSeed_Fault(h, latest) ==
  [version |-> latest + 1, previous |-> local[h].doc.version, release |-> ReleaseOf(h),
   audit |-> local[h].id, patches |-> {Edit(h)}, reset |-> local[h].doc.reset]

Patched(h, latest) ==
  [version |-> latest + 1, previous |-> local[h].doc.version, release |-> ReleaseOf(h),
   audit |-> local[h].id, patches |-> local[h].doc.patches \cup {Edit(h)},
   reset |-> local[h].doc.reset]

\* The exception of a file that cannot be parsed is caught around
\* next_released_version and turns the patch down.
Unnumbered(h) ==
  /\ local' = [local EXCEPT ![h].outcome = "INVALID"]
  /\ Goto(h, "openAudit")

\* next_released_version parses the versions again, then the pointer, and the
\* patched TRT gets the number after the latest.
NumberVersion(h) ==
  /\ At(h, "number")
  /\ IF \A n \in Stored : Readable(versionFile[n])
     THEN /\ \E n \in Stored :
               /\ IsLatest(n)
               /\ n < MaxVersion
               /\ local' = [local EXCEPT ![h].seen = n]
          /\ Goto(h, "numbered")
     ELSE Unnumbered(h)
  /\ UNCHANGED <<files, handle, control>>

StampVersion(h) ==
  /\ At(h, "numbered")
  /\ IF Readable(pointer)
     THEN /\ local' = [local EXCEPT ![h].doc = Patched(h, local[h].seen)]
          /\ Goto(h, "check")
     ELSE Unnumbered(h)
  /\ UNCHANGED <<files, handle, control>>

\* _atomic_write_json(overwrite=False): the existence check, a step of its own.
CheckVersion(h) ==
  /\ At(h, "check")
  /\ IF versionFile[local[h].doc.version] = None
     THEN Goto(h, "stageVersion") /\ UNCHANGED local
     ELSE Respond(h)
  /\ UNCHANGED <<files, handle, control>>

StageVersion(h) ==
  /\ At(h, "stageVersion")
  /\ versionTmp' = [versionTmp EXCEPT ![local[h].doc.version] = Empty]
  /\ Opened(h)
  /\ Goto(h, "fillVersion")
  /\ UNCHANGED <<versionFile, pointer, pointerTmp, record, recordTmp, audit, local, control>>

FillVersion(h) ==
  LET n == local[h].doc.version IN
  /\ At(h, "fillVersion")
  /\ IF handle[h] = "tmp"
     THEN \E file \in Written(versionTmp[n], local[h].doc) :
            versionTmp' = [versionTmp EXCEPT ![n] = file]
     ELSE UNCHANGED versionTmp
  /\ IF handle[h] = "file"
     THEN \E file \in Written(versionFile[n], local[h].doc) :
            versionFile' = [versionFile EXCEPT ![n] = file]
     ELSE UNCHANGED versionFile
  /\ Closed(h)
  /\ Goto(h, "publishVersion")
  /\ UNCHANGED <<pointer, pointerTmp, record, recordTmp, audit, local, control>>

\* save_released_trt_version goes on to the pointer, save_trt does not.
PublishVersion_NoAudit_Fault(h) ==
  LET n == local[h].doc.version IN
  /\ At(h, "publishVersion")
  /\ versionTmp[n] # None
  /\ versionFile' = [versionFile EXCEPT ![n] = versionTmp[n]]
  /\ versionTmp' = [versionTmp EXCEPT ![n] = None]
  /\ Renamed(VersionWriters(n))
  /\ Goto(h, IF local[h].op = "RESET" THEN "respond" ELSE "stagePointer")
  /\ local' = [local EXCEPT ![h].return =
                  IF local[h].op = "DECIDE" THEN "stageRecord" ELSE "respond"]
  /\ UNCHANGED <<pointer, pointerTmp, record, recordTmp, audit, control>>

PublishVersion(h) ==
  LET n == local[h].doc.version IN
  /\ At(h, "publishVersion")
  /\ IF versionTmp[n] # None
     THEN /\ versionFile' = [versionFile EXCEPT ![n] = versionTmp[n]]
          /\ versionTmp' = [versionTmp EXCEPT ![n] = None]
          /\ Renamed(VersionWriters(n))
          /\ Goto(h, IF local[h].op = "RESET" THEN "respond" ELSE "stagePointer")
          /\ local' = [local EXCEPT ![h].return = "openAudit"]
     ELSE /\ Respond(h)
          /\ UNCHANGED <<versionFile, versionTmp, handle>>
  /\ UNCHANGED <<pointer, pointerTmp, record, recordTmp, audit, control>>

\* POST /debug/reset-demo-trt-state rewrites the file of the version it read.
ResetState(h) ==
  /\ At(h, "resetState")
  /\ local' = [local EXCEPT ![h].doc.reset = TRUE]
  /\ Goto(h, "stageVersion")
  /\ UNCHANGED <<files, handle, control>>

-------------------------------------------------------------------------------
(***************************************************************************)
(* Audit bundles and release records.                                      *)
(***************************************************************************)

\* _decision_audit_bundle reads the current TRT and validates the patch again,
\* which reads it a second time.
Revalidate(h) ==
  /\ At(h, "revalidate")
  /\ CallGetCurrent(h, "openAudit",
       [local[h] EXCEPT !.before = local[h].doc.version,
                        !.outcome = IF local[h].decision = "REJECT"
                                    THEN "REJECTED_BY_OPERATOR" ELSE "NEEDS_REVISION"])
  /\ UNCHANGED <<files, handle, control>>

\* save_audit_bundle refuses an id that has a file; write_text opens the file
\* before it fills it.
OpenAudit(h) ==
  /\ At(h, "openAudit")
  /\ IF audit[local[h].id] = None
     THEN /\ audit' = [audit EXCEPT ![local[h].id] =
                          [status |-> "TORN", before |-> 0, after |-> 0]]
          /\ Goto(h, "writeAudit")
          /\ UNCHANGED local
     ELSE Respond(h) /\ UNCHANGED audit
  /\ UNCHANGED <<versionFile, versionTmp, pointer, pointerTmp, record, recordTmp, handle, control>>

Bundle(h) ==
  [status |-> IF local[h].outcome \in {"STALE", "INVALID"} THEN "REJECTED" ELSE local[h].outcome,
   before |-> local[h].before,
   after  |-> IF local[h].outcome = "ACCEPTED" THEN local[h].doc.version ELSE 0]

WriteAudit(h) ==
  /\ At(h, "writeAudit")
  /\ audit' = [audit EXCEPT ![local[h].id] = Bundle(h)]
  /\ Goto(h, IF local[h].op = "APPLY" THEN "respond" ELSE "stageRecord")
  /\ UNCHANGED <<versionFile, versionTmp, pointer, pointerTmp, record, recordTmp, local, handle,
                 control>>

\* The record loaded when the request started, with the decision written in;
\* only apply_intent_patch reports a version.
Decided(h) ==
  [status  |-> CASE local[h].outcome = "ACCEPTED" -> "RELEASED"
                 [] local[h].outcome = "STALE"    -> "FAILED_STALE_VERSION"
                 [] local[h].outcome = "INVALID"  -> "NEEDS_REVISION"
                 [] OTHER                         -> local[h].outcome,
   base    |-> local[h].base,
   audit   |-> local[h].id,
   version |-> IF local[h].outcome = "ACCEPTED" THEN local[h].doc.version
               ELSE IF local[h].decision = "APPROVE" THEN local[h].before ELSE 0]

\* Opening the record itself, as save_audit_bundle does with the bundle.
StageRecord_InPlace_Fault(h) ==
  /\ At(h, "stageRecord")
  /\ record' = [record EXCEPT ![local[h].release] = Empty]
  /\ handle' = [handle EXCEPT ![h] = "file"]
  /\ Goto(h, "fillRecord")
  /\ UNCHANGED <<versionFile, versionTmp, pointer, pointerTmp, recordTmp, audit, local, control>>

StageRecord(h) ==
  /\ At(h, "stageRecord")
  /\ recordTmp' = [recordTmp EXCEPT ![local[h].release] = Empty]
  /\ Opened(h)
  /\ Goto(h, "fillRecord")
  /\ UNCHANGED <<versionFile, versionTmp, pointer, pointerTmp, record, audit, local, control>>

FillRecord(h) ==
  LET r == local[h].release IN
  /\ At(h, "fillRecord")
  /\ IF handle[h] = "tmp"
     THEN \E file \in Written(recordTmp[r], Decided(h)) :
            recordTmp' = [recordTmp EXCEPT ![r] = file]
     ELSE UNCHANGED recordTmp
  /\ IF handle[h] = "file"
     THEN \E file \in Written(record[r], Decided(h)) :
            record' = [record EXCEPT ![r] = file]
     ELSE UNCHANGED record
  /\ Closed(h)
  /\ Goto(h, "publishRecord")
  /\ UNCHANGED <<versionFile, versionTmp, pointer, pointerTmp, audit, local, control>>

PublishRecord(h) ==
  LET r == local[h].release IN
  /\ At(h, "publishRecord")
  /\ IF recordTmp[r] # None
     THEN /\ record' = [record EXCEPT ![r] = recordTmp[r]]
          /\ recordTmp' = [recordTmp EXCEPT ![r] = None]
          /\ Renamed(RecordWriters(r))
          /\ Goto(h, "respond")
          /\ UNCHANGED local
     ELSE /\ Respond(h)
          /\ UNCHANGED <<record, recordTmp, handle>>
  /\ UNCHANGED <<versionFile, versionTmp, pointer, pointerTmp, audit, control>>

Finish(h) ==
  /\ At(h, "respond")
  /\ Respond(h)
  /\ UNCHANGED <<files, handle, control>>

-------------------------------------------------------------------------------

\* The API process restarts: every handler is gone, every file stays.
Restart ==
  /\ crashes < MaxCrashes
  /\ \E h \in Handlers : ~At(h, "idle")
  /\ crashes' = crashes + 1
  /\ pc' = [h \in Handlers |-> "idle"]
  /\ local' = [h \in Handlers |-> NoRequest]
  /\ handle' = [h \in Handlers |-> "closed"]
  /\ UNCHANGED <<files, requests>>

Request(h) ==
  \/ \E op \in EndpointSet : StartRequest(h, op)
  \/ \E base \in Version : StartApply(h, base)
  \/ \E r \in Releases, decision \in Decision : StartDecision(h, r, decision)

Step(h) ==
  \/ ListVersions(h) \/ ReadPointer(h) \/ TakePointer(h) \/ LoadLatest(h)
  \/ StagePointer(h) \/ FillPointer(h) \/ PublishPointer(h)
  \/ PrepareAgain(h) \/ \E r \in Releases, base \in Version : SaveRelease(h, r, base)
  \/ Firewall(h) \/ NumberVersion(h) \/ StampVersion(h) \/ CheckVersion(h)
  \/ StageVersion(h) \/ FillVersion(h) \/ PublishVersion(h) \/ ResetState(h)
  \/ Revalidate(h) \/ OpenAudit(h) \/ WriteAudit(h)
  \/ StageRecord(h) \/ FillRecord(h) \/ PublishRecord(h)
  \/ Finish(h)

Next == Restart \/ \E h \in Handlers : Request(h) \/ Step(h)

Spec == Init /\ [][Next]_vars

-------------------------------------------------------------------------------
(***************************************************************************)
(* Properties that hold for any number of concurrent handlers and any      *)
(* restart.                                                                *)
(***************************************************************************)

Latest == CHOOSE n \in Stored : IsLatest(n)

Decisions == {r \in Releases : record[r] \in ReleaseRecord
                              /\ record[r].status # "PENDING_OPERATOR_DECISION"}
Released  == {r \in Decisions : record[r].status = "RELEASED"}

\* A decided release names a complete audit bundle whose verdict is the one
\* the record states (record_release_decision saves the bundle first).
Audited(rec) ==
  /\ rec.audit \in AuditId
  /\ audit[rec.audit] # None
  /\ audit[rec.audit].status # "TORN"
  /\ rec.status = "RELEASED" <=> audit[rec.audit].status = "ACCEPTED"
  /\ rec.status = "RELEASED" => audit[rec.audit].after = rec.version

DecisionAudited == \A r \in Decisions : Audited(record[r])

\* Versions with a file that can be parsed.
Intact == {n \in Stored : Readable(versionFile[n])}

\* A released patch was applied to the version it was made for: the bundle of
\* its decision, and every version stamped with that bundle's id, were computed
\* from the base the operator approved, whatever was released meanwhile.
AppliedToItsBase ==
  \A r \in Released :
    /\ audit[record[r].audit].before = record[r].base
    /\ \A n \in Intact :
         versionFile[n].audit = record[r].audit => versionFile[n].previous = record[r].base

\* A completed audit bundle is never written again ("immutable Audit Bundles").
AuditImmutable ==
  [][\A i \in AuditId :
       audit[i] # None /\ audit[i].status # "TORN" => audit'[i] = audit[i]]_vars

-------------------------------------------------------------------------------
(***************************************************************************)
(* Properties that hold while requests are served one at a time, restarts  *)
(* included: what two handlers make of them is the subject of the runs     *)
(* that expect a violation.                                                *)
(***************************************************************************)

\* The release gate keeps the promise of TRTLedger: versions are only added,
\* each with the content of the one before and one edit more ("Refusing to
\* overwrite existing file"), and a release is decided once, RELEASED only
\* with its patch in the newest version ("Release is not pending operator
\* decision"), whatever restarts come between.
Ledger == INSTANCE TRTLedger WITH
  Edits    <- Edits,
  Releases <- Releases,
  None     <- None,
  contents <- [n \in Stored |-> versionFile[n].patches],
  verdict  <- [r \in Releases |-> IF record[r] = None THEN None ELSE record[r].status]

ImplementsLedger == Ledger!Spec

\* A restart leaves the pointer at most one version behind, never ahead.
PointerLag ==
  pointer # None => pointer.version \in {Latest - 1, Latest}

\* The base of a version is the version before it: "`base_version` ... Must
\* match the current TRT version."
BaseIsPredecessor == \A n \in Intact \ {1} : versionFile[n].previous = n - 1

\* A version without a complete audit bundle is the one being released, or
\* the work of a restart: one restart orphans one version at most.
Unaudited == {n \in Stored \ {1} : audit[versionFile[n].audit] = None
                                  \/ audit[versionFile[n].audit].status = "TORN"}
InFlight == {n \in Version : \E h \in Handlers :
               /\ local[h].op \in {"APPLY", "DECIDE"}
               /\ local[h].doc # None
               /\ local[h].doc.version = n}
UnauditedOnlyByRestart == Cardinality(Unaudited \ InFlight) <= crashes

\* A release whose record turns it down has its patch in the TRT only because a
\* restart came between its version and its record: one for a restart at most.
InTRT(r) == \E n \in Intact : r \in versionFile[n].patches
TurnedDownOnlyByRestart == Cardinality({r \in Decisions \ Released : InTRT(r)}) <= crashes

\* A restart, wherever it comes in a write, leaves no file behind that every
\* later request fails to parse.
NothingTorn ==
  /\ \A n \in Version : Readable(versionFile[n])
  /\ Readable(pointer)
  /\ \A r \in Releases : Readable(record[r])

-------------------------------------------------------------------------------
(***************************************************************************)
(* Liveness.  A handler that has started goes on (a thread of the pool);   *)
(* nothing is assumed about clients or restarts.                           *)
(***************************************************************************)

FairSpec == Spec /\ \A h \in Handlers : WF_vars(Step(h))

\* A file that overlapping writers and a restart have left unreadable: no
\* request gets past it, and nothing in the code repairs it.
Broken == ~Readable(pointer) \/ \E n \in Version : ~Readable(versionFile[n])

\* If TRTs keep being read and no file stays broken, the pointer ends at the
\* latest version for good, whatever a restart or a reader with an old listing
\* did to it.
PointerCatchesUp ==
  []<>(\E h \in Handlers : At(h, "list"))
    => \/ <>[](Readable(pointer) /\ pointer # None /\ pointer.version = Latest)
       \/ <>[]Broken

-------------------------------------------------------------------------------
(***************************************************************************)
(* The inductive invariant behind TypeOK, DecisionAudited and              *)
(* AuditImmutable, for any number of handlers.                             *)
(***************************************************************************)

Reading == {"list", "point", "take", "load", "stagePointer", "fillPointer", "publishPointer"}
Writing == {"stageVersion", "fillVersion", "publishVersion"}
Recording == {"stageRecord", "fillRecord", "publishRecord"}
Auditing(h) == local[h].op \in {"APPLY", "DECIDE"}

\* What a handler is serving when it stands at a label.
ControlOK(h) ==
  /\ At(h, "idle") => local[h] = NoRequest
  /\ pc[h] \in Reading =>
       local[h].return \in {"respond", "prepareAgain", "saveRelease", "resetState",
                            "firewall", "revalidate", "openAudit"}
  /\ pc[h] \in Reading /\ local[h].return \in {"firewall", "revalidate", "openAudit"}
       => Auditing(h)
  /\ pc[h] \in {"firewall", "number", "numbered", "check", "revalidate", "openAudit",
                "writeAudit"} \cup Recording => Auditing(h)
  /\ pc[h] \in Writing => Auditing(h) \/ local[h].op = "RESET"
  /\ pc[h] \in Recording => local[h].op = "DECIDE"
  /\ At(h, "resetState") \/ (pc[h] \in Reading /\ local[h].return = "resetState")
       => local[h].op = "RESET"
  /\ local[h].op = "DECIDE" => local[h].release \in Releases /\ local[h].base \in Version

\* What it has read or computed by then.
DataOK(h) ==
  /\ pc[h] \in {"point", "load", "numbered"} => local[h].seen \in Stored
  /\ At(h, "numbered") => local[h].seen < MaxVersion
  /\ At(h, "take") => pointer # None
  /\ pc[h] \notin {"idle", "list", "point", "take", "load", "respond"} =>
       local[h].doc \in Document
  /\ \/ pc[h] \in {"number", "numbered", "check", "openAudit", "writeAudit"} \cup Recording
     \/ pc[h] \in Writing /\ Auditing(h)
     \/ pc[h] \in Reading /\ local[h].return = "openAudit"
     => local[h].outcome \in Outcome

\* An audit id belongs to one request, and its file follows that request.
IdsOK ==
  /\ \A h \in Handlers : Auditing(h) => local[h].id \in 1 .. requests
  /\ \A g, h \in Handlers : Auditing(g) /\ Auditing(h) /\ g # h => local[g].id # local[h].id
  /\ \A i \in AuditId : i > requests => audit[i] = None

AuditOK(h) ==
  Auditing(h) =>
    /\ pc[h] \notin {"writeAudit", "respond"} \cup Recording =>
         audit[local[h].id] = None
    /\ At(h, "writeAudit") => audit[local[h].id].status = "TORN"
    /\ pc[h] \in Recording => audit[local[h].id] = Bundle(h)

RecordsOK ==
  \A r \in Releases :
    /\ r \in Decisions => Audited(record[r])
    /\ recordTmp[r] \in ReleaseRecord => Audited(recordTmp[r])

IInv ==
  /\ TypeOK
  /\ \A h \in Handlers : ControlOK(h)
  /\ \A h \in Handlers : DataOK(h)
  /\ IdsOK
  /\ \A h \in Handlers : AuditOK(h)
  /\ RecordsOK

(***************************************************************************)
(* What is added for AppliedToItsBase: an audit id that is stamped on a    *)
(* document, on disk or in memory, belongs to a request that took the base *)
(* of that document for current.                                           *)
(***************************************************************************)

\* An outcome is given once, and an accepted one means the base was current.
OutcomeOK(h) ==
  /\ local[h].outcome = "ACCEPTED" => local[h].before = local[h].base
  /\ \/ pc[h] \in {"firewall", "revalidate"}
     \/ pc[h] \in Reading /\ local[h].return \in {"firewall", "revalidate"}
     => local[h].outcome # "ACCEPTED"
  /\ pc[h] \in {"number", "numbered"} =>
       local[h].outcome = "ACCEPTED" /\ local[h].before = local[h].doc.version

\* Labels at which the request has not stamped a document with its id yet.
Unstamped(h) ==
  \/ pc[h] \in {"firewall", "number", "numbered", "revalidate"}
  \/ pc[h] \in Reading /\ local[h].return \in {"firewall", "revalidate"}

Traced(d) ==
  d.audit # 0 =>
    /\ d.audit <= requests
    /\ audit[d.audit] # None /\ audit[d.audit].status # "TORN" =>
         audit[d.audit].before = d.previous
    /\ \A h \in Handlers : Auditing(h) /\ local[h].id = d.audit =>
         ~Unstamped(h) /\ local[h].before = d.previous

Documents ==
  ({versionFile[n] : n \in Version} \cup {versionTmp[n] : n \in Version}
   \cup {pointer, pointerTmp} \cup {local[h].doc : h \in Handlers}) \cap Document

DocumentsTraced == \A d \in Documents : Traced(d)

\* The bundle of a released record was made on the base of the record.
Based(rec) == rec.status = "RELEASED" => audit[rec.audit].before = rec.base

RecordsBased ==
  \A r \in Releases :
    /\ record[r] \in ReleaseRecord => Based(record[r])
    /\ recordTmp[r] \in ReleaseRecord => Based(recordTmp[r])

GateInv ==
  /\ \A h \in Handlers : OutcomeOK(h)
  /\ DocumentsTraced
  /\ RecordsBased

===============================================================================
