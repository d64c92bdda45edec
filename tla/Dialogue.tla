------------------------------- MODULE Dialogue -------------------------------
(***************************************************************************)
(* The conversation with the operator (trt_core/chat_sessions.py and the    *)
(* /chat endpoints of trt_core/api.py).  A session is one file, read when a *)
(* request starts and replaced as a whole when the request has something to *)
(* say: in between, a dialogue request waits minutes for the language       *)
(* model while n8n, the evidence service or a second message write the same *)
(* file.  All writers of a session share one temporary file.               *)
(*                                                                         *)
(* The files are modelled as the operating system sees them: a handle       *)
(* stays on the file it was opened on when that file is renamed.            *)
(***************************************************************************)
EXTENDS Integers, Sequences, FiniteSets

CONSTANTS
  None, Torn,    \* no document; the content of a file that is not JSON
  Threads,       \* requests on one session served at the same time
  Lines,         \* lines of the current TRT
  Answers,       \* what the language model may answer
  Puts,          \* documents n8n saves with PUT /chat/session/{id}
  Summaries,     \* what POST /evidence/summarize may have found
  Replies,       \* answers of the operator to a pending question
  MaxAttempts,   \* VLLM_DIALOGUE_DECISION_ATTEMPTS
  MaxTurns, MaxVersions, MaxWrites, MaxCrashes  \* bounds

ChatSessionStates ==
  {"IDLE", "WAITING_FOR_REQUIRED_FIELDS", "WAITING_FOR_CLARIFICATION",
   "WAITING_FOR_APPROVAL", "WAITING_FOR_APPROVAL_DECISION",
   "WAITING_FOR_DEPLOYMENT_DECISION", "WAITING_FOR_POST_EVIDENCE_DECISION",
   "RUNNING_SIMULATION", "COMPLETED", "CANCELLED"}

RequiredFields == {"operator_id", "reason", "intent_text"}
Scopes == {"NONE", "SINGLE_LINE", "MULTIPLE_LINES", "ALL_LINES"}
RequestTypes ==
  {"TOOLING_POLICY_UPDATE", "MANIPULATOR_PRIORITY_UPDATE", "SIMULATION_CONFIG_UPDATE",
   "KPI_LIMIT_UPDATE", "ABNORMAL_STRATEGY_UPDATE"}
ReplyOptions ==
  {"ROBOT_REQUIRED_FIRST", "PRODUCTION_LINE_PRIORITY", "CLARIFICATION_LOOP_DETECTED",
   "MERGED_TEXT", "UNRESOLVED"}

\* What the normalizer finds in a merged text: settings of the simulation, an
\* order of picking, a set of tools to target, tools to leave out.
TextChanges == {"SETTINGS", "PICKING", "TARGET_SET", "REMOVAL"}

\* A request as the schema of the answer has it: the fields that are given,
\* the kinds of change it names and the changes it has values for.
Request ==
  [fields : SUBSET RequiredFields, scope : Scopes, lines : SUBSET Lines,
   types : SUBSET RequestTypes, kpi : BOOLEAN, set : BOOLEAN, priority : BOOLEAN,
   config : BOOLEAN, envs : Nat, mode : BOOLEAN]

Answer ==
  [state : STRING \cup {None}, turn : STRING \cup {None}, request : Request,
   missing : SUBSET STRING]

\* The question n8n has saved: the scope and the lines of its partial result
\* ("NONE" when it has no scope), and what the text it is about names.
Pending ==
  [origin : Nat, question : STRING, scope : Scopes, lines : SUBSET Lines,
   mentioned : SUBSET Lines, all : BOOLEAN]

\* A reply: the lines and options it names, what the model makes of it, and what
\* the normalizer finds in the question's text with the reply added to it.
Reply ==
  [lines : SUBSET Lines, all : BOOLEAN, robot : BOOLEAN, production : BOOLEAN, plain : BOOLEAN,
   model : STRING \cup {None}, changes : SUBSET TextChanges]

Proposal == [base : Nat, request : Request]

\* A document keeps the operator's turns by their number, the candidate that
\* waits for a decision, the question n8n asked and the run the evidence is of.
Document ==
  [state : ChatSessionStates, conversation : Seq(Nat),
   candidate : Proposal \cup {None},
   pending : Pending \cup {None}, evidence : Summaries \cup {None}]

ASSUME DialogueAssumption ==
  /\ MaxAttempts \in Nat \ {0}
  /\ MaxTurns \in Nat /\ MaxVersions \in Nat /\ MaxWrites \in Nat /\ MaxCrashes \in Nat
  /\ IsFiniteSet(Lines)

ASSUME InputAssumption ==
  /\ Answers \subseteq Answer
  /\ \A doc \in Puts : doc.state \in ChatSessionStates => doc \in Document
  /\ Replies \subseteq Reply

Kinds == {"dialogue", "merge"}
Places == {"tmp", "file", "gone"}

ASSUME NoneAssumption ==
  /\ None # Torn
  /\ Torn \notin Document
  /\ None \notin Document \cup Proposal \cup Answers \cup Replies \cup Kinds \cup Places

VARIABLES
  file,     \* data/chat_sessions/<id>.json
  tmp,      \* data/chat_sessions/<id>.json.tmp
  handle,   \* where the file a thread is writing is: "tmp", "file", "gone" or None
  version,  \* version of the current TRT
  turns,    \* messages the operator has sent
  pc, loc,  \* per request: the next step and the local values
  raced,    \* have two saves of the session ever overlapped
  used      \* other writes and crashes so far

vars == <<file, tmp, handle, version, turns, pc, loc, raced, used>>
files == <<file, tmp, handle, raced>>

IdleSession ==
  [state |-> "IDLE", conversation |-> <<>>, candidate |-> None,
   pending |-> None, evidence |-> None]

NoLocal == [kind |-> None, session |-> None, turn |-> 0, tries |-> 0, prompt |-> 0,
            answered |-> 0, answer |-> None, doc |-> None, reply |-> None, result |-> None]

Init ==
  /\ file = None /\ tmp = None
  /\ handle = [t \in Threads |-> None]
  /\ version = 1
  /\ turns = 0
  /\ pc = [t \in Threads |-> "idle"]
  /\ loc = [t \in Threads |-> NoLocal]
  /\ raced = FALSE
  /\ used = [writes |-> 0, crashes |-> 0]

Goto(t, step) == pc' = [pc EXCEPT ![t] = step]
\* The request has its answer; a result of merge-clarification is kept to look at.
End(t, result) ==
  /\ Goto(t, "idle")
  /\ loc' = [loc EXCEPT ![t] = [NoLocal EXCEPT !.result = result]]

-----------------------------------------------------------------------------
(* What the request makes of an answer of the model. *)

TurnOfState(state) ==
  CASE state \in {"APPROVAL_DECISION", "DEPLOYMENT_DECISION", "HELP", "CONFIG_QUERY", "UNKNOWN"} -> state
    [] state = "CANCELLED" -> "CANCEL"
    [] OTHER -> "TASK_REQUEST"

StateOfTurn(turn) ==
  CASE turn \in {"APPROVAL_DECISION", "DEPLOYMENT_DECISION", "HELP", "CONFIG_QUERY"} -> turn
    [] turn = "CANCEL" -> "CANCELLED"
    [] OTHER -> "UNKNOWN"

Turn(a) == IF a.turn = None THEN TurnOfState(IF a.state = None THEN "UNKNOWN" ELSE a.state)
                            ELSE a.turn

\* The turn type overrules the dialogue state, except that a task stays a task.
Routed(a) ==
  LET state == IF a.state = None THEN StateOfTurn(Turn(a)) ELSE a.state IN
  CASE Turn(a) \in {"TASK_REQUEST", "CLARIFICATION_VALUES"} /\ state = "UNKNOWN" ->
         "NEEDS_CLARIFICATION"
    [] Turn(a) \in {"CANCEL", "HELP", "CONFIG_QUERY", "APPROVAL_DECISION", "DEPLOYMENT_DECISION"} ->
         StateOfTurn(Turn(a))
    [] OTHER -> state

\* The repairs: the kinds of change are completed from the values, a number of
\* lines stands for the first of them, ALL_LINES with a list means the list.
Repaired(r) ==
  LET types == r.types
               \cup (IF r.kpi THEN {"KPI_LIMIT_UPDATE"} ELSE {})
               \cup (IF r.set THEN {"TOOLING_POLICY_UPDATE"} ELSE {})
               \cup (IF r.priority THEN {"MANIPULATOR_PRIORITY_UPDATE"} ELSE {})
               \cup (IF r.config THEN {"SIMULATION_CONFIG_UPDATE"} ELSE {})
      counted == r.envs > 0 /\ r.scope # "ALL_LINES" /\ r.lines = {}
      first == CHOOSE s \in SUBSET Lines :
                 Cardinality(s) = IF r.envs < Cardinality(Lines) THEN r.envs ELSE Cardinality(Lines)
      lines == IF counted THEN first ELSE r.lines
      several == IF Cardinality(lines) > 1 THEN "MULTIPLE_LINES" ELSE "SINGLE_LINE"
  IN [r EXCEPT !.types = types, !.lines = lines,
               !.scope = IF counted \/ (r.scope = "ALL_LINES" /\ lines # {}) THEN several
                         ELSE r.scope,
               !.mode = r.mode \/ (r.config /\ "ABNORMAL_STRATEGY_UPDATE" \in types)]

TargetReady(r) == r.scope = "ALL_LINES" \/ r.lines # {}
HasUpdate(r) == r.types # {} \/ r.kpi \/ r.set \/ r.priority \/ r.config

MissingForReview(r) ==
  (RequiredFields \ r.fields)
  \cup (IF TargetReady(r) THEN {} ELSE {"target_lines"})
  \cup (IF HasUpdate(r) THEN {} ELSE {"task_change"})

\* What is to be done about the answer: a state that is not ready is no review.
Decision_TrustsModel_Fault(a) ==
  LET r == Repaired(a.request)
  IN [state |-> Routed(a), turn |-> Turn(a), request |-> r, missing |-> a.missing]
Decision(a) ==
  LET r == Repaired(a.request)
      demoted == Routed(a) = "READY_FOR_REVIEW" /\ MissingForReview(r) # {}
  IN [state |-> IF demoted THEN "NEEDS_CLARIFICATION" ELSE Routed(a),
      turn |-> Turn(a), request |-> r,
      missing |-> IF demoted THEN MissingForReview(r) ELSE a.missing]

Conversation_Latest_Fault(session, turn) == <<turn>>

\* The turns so far; a session without any starts from the question n8n saved.
Conversation(session, turn) ==
  LET known == IF session.conversation = <<>> /\ session.pending # None
               THEN <<session.pending.origin>> ELSE session.conversation
  IN Append(known, turn)

Asking(d, conversation) ==
  [IdleSession EXCEPT !.state = "WAITING_FOR_CLARIFICATION", !.conversation = conversation]

-----------------------------------------------------------------------------
(* The closed question: production-line priority, or required tools first. *)

SaysAll(pending, reply) == reply.all \/ pending.all

\* The lines of the answer: a question about all lines keeps its scope, whatever
\* lines the reply names, and the normalizer takes a scope before a list.
RequiredFirst_AnyLine_Fault(pending, reply) ==
  LET named == IF reply.lines # {} THEN reply.lines ELSE pending.lines IN
  [option |-> "ROBOT_REQUIRED_FIRST",
   lines |-> IF SaysAll(pending, reply) \/ pending.scope = "ALL_LINES" \/ named = {} THEN Lines
             ELSE named]
RequiredFirst(pending, reply) ==
  [option |-> "ROBOT_REQUIRED_FIRST",
   lines |-> IF SaysAll(pending, reply) \/ pending.scope = "ALL_LINES" THEN Lines
             ELSE IF reply.lines # {} THEN reply.lines
             ELSE IF pending.lines # {} THEN pending.lines
             ELSE pending.mentioned]

ProductionPriority == [option |-> "PRODUCTION_LINE_PRIORITY", lines |-> {}]

\* By the words of the reply; None when they decide nothing.
ResolveByWords(pending, reply) ==
  IF pending.question # "PRIORITY" THEN None
  ELSE CASE reply.robot /\ ~ reply.production -> RequiredFirst(pending, reply)
         [] reply.production /\ ~ reply.robot -> ProductionPriority
         [] reply.robot /\ reply.production /\ reply.plain ->
              [option |-> "CLARIFICATION_LOOP_DETECTED", lines |-> {}]
         [] OTHER -> None

\* Then by the model, confidence below one half and failures counting as None;
\* what is left goes to the normalizer as a merged text.
ResolveReply(pending, reply) ==
  LET words == ResolveByWords(pending, reply)
      model == IF pending.question = "PRIORITY" THEN reply.model ELSE None
  IN IF words # None THEN words
     ELSE CASE model = "ROBOT_REQUIRED_FIRST" -> RequiredFirst(pending, reply)
            [] model = "PRODUCTION_LINE_PRIORITY" -> ProductionPriority
            [] OTHER -> [option |-> "MERGED_TEXT", lines |-> {}]

\* The lines the normalizer finds in the merged text: a change of the simulation
\* is one of all lines, and only the other changes look for lines.
TextLines(pending, reply) ==
  IF \/ "SETTINGS" \in reply.changes
     \/ SaysAll(pending, reply) /\ reply.changes \cap {"PICKING", "TARGET_SET"} # {}
  THEN Lines
  ELSE IF reply.changes = {} THEN {} ELSE reply.lines \cup pending.mentioned

\* The answer to the request.  Required tools first and a merged text become a
\* patch, unless there are no lines or the normalizer refuses it.
Merged(pending, reply, accepted) ==
  LET chosen == ResolveReply(pending, reply)
      lines == IF chosen.option = "MERGED_TEXT" THEN TextLines(pending, reply)
               ELSE chosen.lines
  IN IF chosen.option \notin {"ROBOT_REQUIRED_FIRST", "MERGED_TEXT"} THEN chosen
     ELSE IF accepted /\ lines # {} THEN [option |-> chosen.option, lines |-> lines]
     ELSE [option |-> "UNRESOLVED", lines |-> {}]

-----------------------------------------------------------------------------
(* Requests. *)

\* load_chat_session: a missing file is an idle session.
Load(t, l) ==
  /\ pc[t] = "idle"
  /\ Goto(t, IF file = None THEN (IF l.kind = "dialogue" THEN "model" ELSE "merge") ELSE "read")
  /\ loc' = [loc EXCEPT ![t] = IF file = None THEN [l EXCEPT !.session = IdleSession] ELSE l]

StartDialogue(t) ==
  /\ turns < MaxTurns
  /\ turns' = turns + 1
  /\ Load(t, [NoLocal EXCEPT !.kind = "dialogue", !.turn = turns + 1, !.prompt = version])
  /\ UNCHANGED <<files, version, used>>

StartMerge(t) ==
  /\ \E r \in Replies : Load(t, [NoLocal EXCEPT !.kind = "merge", !.reply = r])
  /\ UNCHANGED <<files, version, turns, used>>

\* The file may have gone since, or hold half a document: the request fails.
ReadSession(t) ==
  /\ pc[t] = "read"
  /\ IF file \in {None, Torn}
     THEN End(t, None)
     ELSE /\ Goto(t, IF loc[t].kind = "dialogue" THEN "model" ELSE "merge")
          /\ loc' = [loc EXCEPT ![t] = [@ EXCEPT !.session = file, !.prompt = version]]
  /\ UNCHANGED <<files, version, turns, used>>

\* merge-clarification only answers: it writes nothing.
Merge(t) ==
  /\ pc[t] = "merge"
  /\ LET pending == loc[t].session.pending
         reply == loc[t].reply
     IN IF pending = None THEN End(t, None)
        ELSE \E accepted \in BOOLEAN :
               End(t, [pending |-> pending, reply |-> reply,
                       merged |-> Merged(pending, reply, accepted)])
  /\ UNCHANGED <<files, version, turns, used>>

\* The call is repeated on a failure of the connection only.
CallFails(t) ==
  /\ pc[t] = "model"
  /\ IF loc[t].tries + 1 < MaxAttempts
     THEN loc' = [loc EXCEPT ![t].tries = @ + 1] /\ UNCHANGED pc
     ELSE End(t, None)
  /\ UNCHANGED <<files, version, turns, used>>

AnswerUseless(t) ==
  /\ pc[t] = "model"
  /\ End(t, None)
  /\ UNCHANGED <<files, version, turns, used>>

ModelAnswers(t) ==
  /\ pc[t] = "model"
  /\ \E a \in Answers :
       /\ Goto(t, "decide")
       /\ loc' = [loc EXCEPT ![t] = [@ EXCEPT !.answer = a, !.answered = version]]
  /\ UNCHANGED <<files, version, turns, used>>

Saving(t) == pc[t] \in {"write", "replace"}
Save(t, doc) == Goto(t, "save") /\ loc' = [loc EXCEPT ![t].doc = doc]

\* The candidate is made on the TRT of this moment, not on the prompt's.
Candidate_OfThePrompt_Fault(l, d) == [base |-> l.prompt, request |-> d.request]
Candidate(l, d) == [base |-> version, request |-> d.request]

Proposing(candidate, conversation) ==
  [IdleSession EXCEPT !.state = "WAITING_FOR_APPROVAL_DECISION",
                      !.conversation = conversation, !.candidate = candidate]

Review(t, d, conversation) ==
  \E verdict \in {"ACCEPTED", "REJECTED", "ERROR"} :
    Save(t, IF verdict = "ACCEPTED" THEN Proposing(Candidate(loc[t], d), conversation)
            ELSE Asking(d, conversation))

\* HELP and CONFIG_QUERY come first; decisions, small talk and unknown turns
\* are for n8n to act on; a question for required fields only is not saved.
Decide(t) ==
  /\ pc[t] = "decide"
  /\ LET d == Decision(loc[t].answer)
         conversation == Conversation(loc[t].session, loc[t].turn)
         fieldsOnly == d.missing # {} /\ d.missing \subseteq RequiredFields
                       /\ d.turn \in {"TASK_REQUEST", "CLARIFICATION_VALUES"}
     IN CASE d.state = "READY_FOR_REVIEW" -> Review(t, d, conversation)
          [] d.state = "NEEDS_CLARIFICATION" /\ ~ fieldsOnly -> Save(t, Asking(d, conversation))
          [] d.state = "CANCELLED" -> Goto(t, "clear") /\ UNCHANGED loc
          [] OTHER -> End(t, None)
  /\ UNCHANGED <<files, version, turns, used>>

Put(t) ==
  /\ pc[t] = "idle"
  /\ used.writes < MaxWrites
  /\ used' = [used EXCEPT !.writes = @ + 1]
  /\ \E doc \in Puts : IF doc.state \in ChatSessionStates THEN Save(t, doc) ELSE End(t, None)
  /\ UNCHANGED <<files, version, turns>>

\* POST /evidence/summarize: a dry run's POST_EVIDENCE_DECISION saves nothing.
Summarize(t) ==
  /\ pc[t] = "idle"
  /\ used.writes < MaxWrites
  /\ used' = [used EXCEPT !.writes = @ + 1]
  /\ \E s \in Summaries :
       CASE s.next \in {"ASK_DEPLOY_APPROVAL", "ASK_DEPLOY_ACKNOWLEDGEMENT"} ->
              Save(t, [IdleSession EXCEPT !.state = "WAITING_FOR_DEPLOYMENT_DECISION",
                                          !.evidence = s])
         [] s.next \in {"REVISE_OR_RERUN", "REQUEST_REVISION_OR_RERUN", "WAIT"} ->
              Save(t, [IdleSession EXCEPT !.state = "WAITING_FOR_POST_EVIDENCE_DECISION",
                                          !.evidence = s])
         [] OTHER -> End(t, None)
  /\ UNCHANGED <<files, version, turns>>

Delete(t) ==
  /\ pc[t] = "idle"
  /\ used.writes < MaxWrites
  /\ used' = [used EXCEPT !.writes = @ + 1]
  /\ Goto(t, "clear")
  /\ UNCHANGED <<files, version, turns, loc>>

-----------------------------------------------------------------------------
(* The file. *)

\* open(..., "w") empties the temporary file, whoever else is writing it.
OpenTemporary_InPlace_Fault(t) ==
  /\ pc[t] = "save"
  /\ file' = Torn
  /\ handle' = [handle EXCEPT ![t] = "file"]
  /\ raced' = (raced \/ \E o \in Threads \ {t} : Saving(o))
  /\ Goto(t, "write")
  /\ UNCHANGED <<tmp, version, turns, loc, used>>
OpenTemporary(t) ==
  /\ pc[t] = "save"
  /\ tmp' = Torn
  /\ handle' = [handle EXCEPT ![t] = "tmp"]
  /\ raced' = (raced \/ \E o \in Threads \ {t} : Saving(o))
  /\ Goto(t, "write")
  /\ UNCHANGED <<file, version, turns, loc, used>>

\* Written from the start: over a document that is there already, the longer of
\* the two leaves its tail.
WriteTemporary(t) ==
  /\ pc[t] = "write"
  /\ \E content \in {loc[t].doc, Torn} :
       /\ CASE handle[t] = "tmp" -> /\ content = Torn => tmp # Torn
                                    /\ tmp' = content /\ UNCHANGED file
            [] handle[t] = "file" -> /\ content = Torn => file # Torn
                                     /\ file' = content /\ UNCHANGED tmp
            [] OTHER -> content # Torn /\ UNCHANGED <<file, tmp>>
  /\ handle' = [handle EXCEPT ![t] = None]
  /\ Goto(t, "replace")
  /\ UNCHANGED <<version, turns, loc, raced, used>>

\* The handles on the file go where the file goes.  When another request has
\* moved the temporary file already, replace() fails, and the request with it.
Moved(h) == CASE h = "tmp" -> "file" [] h = "file" -> "gone" [] OTHER -> h

Replace(t) ==
  /\ pc[t] = "replace"
  /\ IF tmp = None
     THEN UNCHANGED <<file, tmp, handle>>
     ELSE /\ file' = tmp /\ tmp' = None
          /\ handle' = [o \in Threads |-> Moved(handle[o])]
  /\ End(t, None)
  /\ UNCHANGED <<version, turns, raced, used>>

\* clear_chat_session: exists(), then unlink().
Clear(t) ==
  /\ pc[t] = "clear"
  /\ IF file = None THEN End(t, None) ELSE Goto(t, "unlink") /\ UNCHANGED loc
  /\ UNCHANGED <<files, version, turns, used>>

Unlink(t) ==
  /\ pc[t] = "unlink"
  /\ file' = None
  /\ handle' = [o \in Threads |-> IF handle[o] = "file" THEN "gone" ELSE handle[o]]
  /\ End(t, None)
  /\ UNCHANGED <<tmp, version, turns, raced, used>>

Release ==
  /\ version < MaxVersions
  /\ version' = version + 1
  /\ UNCHANGED <<files, turns, pc, loc, used>>

Crash ==
  /\ used.crashes < MaxCrashes
  /\ used' = [used EXCEPT !.crashes = @ + 1]
  /\ handle' = [t \in Threads |-> None]
  /\ pc' = [t \in Threads |-> "idle"]
  /\ loc' = [t \in Threads |-> NoLocal]
  /\ UNCHANGED <<file, tmp, version, turns, raced>>

Answering(t) ==
  \/ ReadSession(t) \/ Merge(t)
  \/ CallFails(t) \/ AnswerUseless(t) \/ ModelAnswers(t)
  \/ Decide(t)
  \/ OpenTemporary(t) \/ WriteTemporary(t) \/ Replace(t)
  \/ Clear(t) \/ Unlink(t)

Next ==
  \/ \E t \in Threads :
       \/ StartDialogue(t) \/ StartMerge(t)
       \/ Put(t) \/ Summarize(t) \/ Delete(t)
       \/ Answering(t)
  \/ Release
  \/ Crash

Spec == Init /\ [][Next]_vars

-----------------------------------------------------------------------------
(* What must hold. *)

\* What a session that waits for an approval holds.
Complete(doc) ==
  doc.state = "WAITING_FOR_APPROVAL_DECISION" =>
    doc.candidate # None /\ MissingForReview(doc.candidate.request) = {}

\* The workflows of n8n save a reviewed candidate as WAITING_FOR_APPROVAL and
\* leave this state to the API.
ASSUME PutAssumption == \A doc \in Puts : Complete(doc)

\* Whatever the model claims, a session waits for an approval only with a
\* request that names its operator, reason, text, target and change, accepted
\* by the validator: the answer passes repairs and a demotion on its way there.
ReviewedIsComplete == file \notin {None, Torn} => Complete(file)

\* The candidate saved for approval is based on a version that was current when
\* the model had answered or later, although a release may pass during the call.
CandidateIsFresh ==
  \A t \in Threads :
    pc[t] = "save" /\ loc[t].kind = "dialogue" /\ loc[t].doc.candidate # None =>
      loc[t].doc.candidate.base >= loc[t].answered

\* Neither a crash nor a single slow writer leaves a session that cannot be
\* read: that takes two saves at the same time.
TornOnlyByRace == file = Torn => raced

\* What became of a question and a reply.  All lines are meant when somebody said
\* so: the operator, in the reply or in the text the question is about, or the
\* question n8n saved; and a change of the simulation is one of every line.
AllLinesMeant(r) ==
  \/ SaysAll(r.pending, r.reply)
  \/ r.merged.option = "ROBOT_REQUIRED_FIRST" /\ r.pending.scope = "ALL_LINES"
  \/ r.merged.option = "MERGED_TEXT" /\ "SETTINGS" \in r.reply.changes

NamedLines(r) ==
  /\ r.merged.option \in {"ROBOT_REQUIRED_FIRST", "MERGED_TEXT"} => r.merged.lines # {}
  /\ ~ AllLinesMeant(r) =>
       /\ r.merged.lines \subseteq r.reply.lines \cup r.pending.lines \cup r.pending.mentioned
       /\ r.merged.option = "ROBOT_REQUIRED_FIRST" /\ r.reply.lines # {} =>
            r.merged.lines = r.reply.lines

\* A question that comes out resolved comes out with lines, and with lines the
\* operator named, now or before: those of the reply alone when it names some and
\* required tools are to come first, and every line only if somebody meant all.
NoInventedLines ==
  \A t \in Threads :
    loc[t].result # None => NamedLines(loc[t].result)

\* A turn that was remembered stays remembered: a dialogue request that starts
\* from a session and replaces it, nobody having written in between, keeps its
\* conversation as a beginning of the new one.
ConversationGrows ==
  [][\A t \in Threads :
       loc[t].kind = "dialogue" /\ pc[t] = "replace" /\ loc[t].session = file
       /\ file' = loc[t].doc =>
         SubSeq(file'.conversation, 1, Len(file.conversation)) = file.conversation]_file

-----------------------------------------------------------------------------
(***************************************************************************)
(* The inductive invariant: what a request holds at each of its steps, and  *)
(* what the files are as long as no two saves have overlapped.              *)
(***************************************************************************)
Label == {"idle", "read", "model", "merge", "decide", "save", "write", "replace",
          "clear", "unlink"}

Result ==
  [pending : Pending, reply : Replies, merged : [option : ReplyOptions, lines : SUBSET Lines]]

Local ==
  [kind : Kinds \cup {None}, session : Document \cup {None}, turn : Nat,
   tries : Nat, prompt : Nat, answered : Nat, answer : Answers \cup {None},
   doc : Document \cup {None}, reply : Replies \cup {None}, result : Result \cup {None}]

TypeOK ==
  /\ file \in Document \cup {None, Torn}
  /\ tmp \in Document \cup {None, Torn}
  /\ handle \in [Threads -> Places \cup {None}]
  /\ version \in Nat /\ turns \in Nat
  /\ pc \in [Threads -> Label]
  /\ loc \in [Threads -> Local]
  /\ raced \in BOOLEAN
  /\ used \in [writes : Nat, crashes : Nat]

\* A dialogue request that has decided what to save.
Saved(t) == pc[t] \in {"save", "write", "replace"}

Begins(short, long) == SubSeq(long, 1, Len(short)) = short

RequestOK(t) ==
  /\ pc[t] = "idle" => loc[t].kind = None
  /\ pc[t] = "read" => loc[t].kind = "dialogue" \/ loc[t].reply # None
  /\ pc[t] \in {"model", "decide"} => loc[t].kind = "dialogue" /\ loc[t].session # None
  /\ pc[t] = "decide" => loc[t].answer # None /\ loc[t].answered <= version
  /\ pc[t] = "merge" => loc[t].reply # None /\ loc[t].session # None
  /\ Saved(t) => loc[t].doc # None /\ Complete(loc[t].doc)
  /\ Saved(t) /\ loc[t].kind = "dialogue" =>
       /\ loc[t].session # None
       /\ Begins(loc[t].session.conversation, loc[t].doc.conversation)
       /\ loc[t].doc.candidate # None => loc[t].doc.candidate.base >= loc[t].answered
  /\ loc[t].result # None => NamedLines(loc[t].result)
  /\ handle[t] # None => pc[t] = "write"

FilesComplete ==
  /\ file \in Document => Complete(file)
  /\ tmp \in Document => Complete(tmp)

OneSaver ==
  /\ file # Torn
  /\ \A t \in Threads : pc[t] = "write" => handle[t] = "tmp" /\ tmp = Torn
  /\ \A t \in Threads : pc[t] = "replace" => tmp # Torn
  /\ \A t, u \in Threads : Saving(t) /\ Saving(u) => t = u

IInv ==
  /\ TypeOK
  /\ \A t \in Threads : RequestOK(t)
  /\ FilesComplete
  /\ ~raced => OneSaver

===============================================================================
