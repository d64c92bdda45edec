------------------------------- MODULE TRTLedger -------------------------------
(***************************************************************************)
(* What the release gate promises of the versioned TRT, without files,     *)
(* handlers or restarts: a ledger of accepted edits that only grows at its *)
(* end, and for every release one verdict that is given once and stands.   *)
(* TRTRelease implements it while one request is served at a time.         *)
(***************************************************************************)
EXTENDS Sequences

CONSTANTS
  Edits,     \* patches: the candidates of the releases, and others
  Releases,  \* release ids, each the name of its candidate too
  None       \* no release was prepared

Verdict == {"PENDING_OPERATOR_DECISION", "RELEASED", "FAILED_STALE_VERSION",
            "NEEDS_REVISION", "REJECTED_BY_OPERATOR"}

VARIABLES
  contents,  \* contents[n]: the edits that version n of the TRT contains
  verdict    \* what was decided of each release

ledger == <<contents, verdict>>

Newest == contents[Len(contents)]

Init ==
  /\ contents = << {} >>
  /\ verdict = [r \in Releases |-> None]

\* prepare_release
Propose(r) ==
  /\ verdict[r] = None
  /\ verdict' = [verdict EXCEPT ![r] = "PENDING_OPERATOR_DECISION"]
  /\ UNCHANGED contents

\* apply_intent_patch: a new version has one edit more than the newest one.
Release(e) ==
  /\ e \notin Newest
  /\ contents' = Append(contents, Newest \cup {e})
  /\ UNCHANGED verdict

\* record_release_decision: RELEASED means that the newest version contains it.
Decide(r, v) ==
  /\ verdict[r] = "PENDING_OPERATOR_DECISION"
  /\ v = "RELEASED" => r \in Newest
  /\ verdict' = [verdict EXCEPT ![r] = v]
  /\ UNCHANGED contents

Next ==
  \/ \E r \in Releases : Propose(r)
  \/ \E e \in Edits : Release(e)
  \/ \E r \in Releases, v \in Verdict \ {"PENDING_OPERATOR_DECISION"} : Decide(r, v)

Spec == Init /\ [][Next]_ledger
===============================================================================
