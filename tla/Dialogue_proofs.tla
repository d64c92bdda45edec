---------------------------- MODULE Dialogue_proofs ----------------------------
(***************************************************************************)
(* Proofs about Dialogue for any number of requests, lines, answers and     *)
(* crashes.  IInv is inductive; the safety properties are among its         *)
(* conjuncts, and ConversationGrows follows from it step by step.  First    *)
(* come the operators: what the repairs, the decision and the reply return. *)
(***************************************************************************)
EXTENDS Dialogue, SequenceTheorems, FiniteSetTheorems, TLAPS

-------------------------------------------------------------------------------
(***************************************************************************)
(* Operators.                                                              *)
(***************************************************************************)

\* The repair of a target that is only a number finds as many lines as there are.
LEMMA SubsetOfCardinality ==
  ASSUME NEW S, IsFiniteSet(S), NEW n \in 0 .. Cardinality(S)
  PROVE  \E T \in SUBSET S : Cardinality(T) = n
<1>1. Cardinality(S) \in Nat
  BY FS_CardinalityType
<1>2. PICK f : f \in Bijection(1 .. Cardinality(S), S)
  BY FS_CardinalityType DEF ExistsBijection
<1> DEFINE T == {f[i] : i \in 1 .. n}
           g == [i \in 1 .. n |-> f[i]]
<1>3. 1 .. n \subseteq 1 .. Cardinality(S)
  BY <1>1
<1>4. T \in SUBSET S
  BY <1>2, <1>3 DEF Bijection, Injection
<1>5. g \in Bijection(1 .. n, T)
  BY <1>2, <1>3 DEF Bijection, Injection, Surjection, IsInjective
<1>6. Cardinality(T) = Cardinality(1 .. n)
  BY <1>5, FS_Interval, FS_Bijection DEF ExistsBijection
<1>7. Cardinality(1 .. n) = n
  BY FS_Interval
<1>8. QED
  BY <1>4, <1>6, <1>7

LEMMA RepairedType ==
  ASSUME NEW r \in Request
  PROVE  Repaired(r) \in Request
<1> DEFINE size == IF r.envs < Cardinality(Lines) THEN r.envs ELSE Cardinality(Lines)
           first == CHOOSE s \in SUBSET Lines : Cardinality(s) = size
<1>1. size \in 0 .. Cardinality(Lines)
  BY FS_CardinalityType, DialogueAssumption DEF DialogueAssumption, Request
<1>2. \E s \in SUBSET Lines : Cardinality(s) = size
  BY <1>1, SubsetOfCardinality, DialogueAssumption DEF DialogueAssumption
<1>3. first \in SUBSET Lines
  BY <1>2
<1> HIDE DEF first
<1> DEFINE counted == r.envs > 0 /\ r.scope # "ALL_LINES" /\ r.lines = {}
           types == r.types
                    \cup (IF r.kpi THEN {"KPI_LIMIT_UPDATE"} ELSE {})
                    \cup (IF r.set THEN {"TOOLING_POLICY_UPDATE"} ELSE {})
                    \cup (IF r.priority THEN {"MANIPULATOR_PRIORITY_UPDATE"} ELSE {})
                    \cup (IF r.config THEN {"SIMULATION_CONFIG_UPDATE"} ELSE {})
           lines == IF counted THEN first ELSE r.lines
           several == IF Cardinality(lines) > 1 THEN "MULTIPLE_LINES" ELSE "SINGLE_LINE"
           scope == IF counted \/ (r.scope = "ALL_LINES" /\ lines # {}) THEN several ELSE r.scope
           mode == r.mode \/ (r.config /\ "ABNORMAL_STRATEGY_UPDATE" \in types)
<1>4. types \in SUBSET RequestTypes /\ lines \in SUBSET Lines /\ scope \in Scopes /\ mode \in BOOLEAN
  <2>1. types \in SUBSET RequestTypes
    BY DEF Request, RequestTypes
  <2>2. lines \in SUBSET Lines
    BY <1>3 DEF Request
  <2>3. several \in Scopes
    BY DEF Scopes
  <2>4. scope \in Scopes
    BY <2>3 DEF Request
  <2>5. r.mode \in BOOLEAN
    BY DEF Request
  <2>6. mode \in BOOLEAN
    BY <2>5
  <2>7. QED
    BY <2>1, <2>2, <2>4, <2>6
<1>5. Repaired(r) = [r EXCEPT !.types = types, !.lines = lines, !.scope = scope, !.mode = mode]
  BY DEF Repaired, first
<1> HIDE DEF types, lines, scope, mode
<1>6. QED
  BY <1>4, <1>5 DEF Request

\* A decision to review is a decision about a complete request.
LEMMA DecisionComplete ==
  ASSUME NEW a \in Answer
  PROVE  /\ Decision(a).request \in Request
         /\ Decision(a).state = "READY_FOR_REVIEW" => MissingForReview(Decision(a).request) = {}
<1>1. a.request \in Request
  BY DEF Answer
<1>2. Repaired(a.request) \in Request
  BY <1>1, RepairedType
<1>3. Decision(a).request = Repaired(a.request)
  BY DEF Decision
<1>4. Decision(a).state = IF Routed(a) = "READY_FOR_REVIEW" /\ MissingForReview(Repaired(a.request)) # {}
                          THEN "NEEDS_CLARIFICATION" ELSE Routed(a)
  BY DEF Decision
<1>5. QED
  BY <1>2, <1>3, <1>4

\* The conversation of the answer begins with that of the session.
LEMMA ConversationBegins ==
  ASSUME NEW session \in Document, NEW turn \in Nat
  PROVE  /\ Conversation(session, turn) \in Seq(Nat)
         /\ Begins(session.conversation, Conversation(session, turn))
<1> DEFINE old == session.conversation
           known == IF old = <<>> /\ session.pending # None
                    THEN <<session.pending.origin>> ELSE old
<1>1. old \in Seq(Nat)
  BY DEF Document
<1>2. session.pending # None => session.pending.origin \in Nat
  BY DEF Document, Pending
<1>3. known \in Seq(Nat)
  BY <1>1, <1>2
<1>4. Conversation(session, turn) = Append(known, turn)
  BY DEF Conversation
<1> HIDE DEF known
<1>5. Append(known, turn) \in Seq(Nat)
  BY <1>3, AppendProperties
<1>6. CASE old = <<>>
  <2>1. Len(old) = 0
    BY <1>6
  <2>2. SubSeq(Append(known, turn), 1, 0) = <<>>
    BY SubSeqEmpty
  <2>3. QED
    BY <1>4, <1>5, <1>6, <2>1, <2>2 DEF Begins
<1>7. CASE old # <<>>
  <2>1. known = old
    BY <1>7 DEF known
  <2>2. Len(old) \in Nat /\ 1 \in 1 .. Len(old) /\ Len(old) \in 1 .. Len(old)
    BY <1>1, <1>7, EmptySeq, LenProperties
  <2>3. Append(known, turn) = old \o <<turn>> /\ <<turn>> \in Seq(Nat)
    <3>1. Append(old, turn) = old \o <<turn>>
      BY ONLY <1>1, turn \in Nat, AppendIsConcat
    <3>2. <<turn>> \in Seq(Nat)
      OBVIOUS
    <3>3. QED
      BY <2>1, <3>1, <3>2
  <2>4. SubSeq(old \o <<turn>>, 1, Len(old)) = SubSeq(old, 1, Len(old))
    BY <1>1, <2>2, <2>3, SubSeqOfConcat1
  <2>5. SubSeq(old, 1, Len(old)) = old
    BY <1>1, SubSeqFull
  <2>6. QED
    BY <1>4, <1>5, <2>3, <2>4, <2>5 DEF Begins
<1>8. QED
  BY <1>6, <1>7

\* Required tools first: the lines the reply names, or the question, or its text.
LEMMA RequiredFirstLines ==
  ASSUME NEW p \in Pending, NEW r \in Reply
  PROVE  LET chosen == RequiredFirst(p, r) IN
         /\ chosen.option = "ROBOT_REQUIRED_FIRST" /\ chosen.lines \in SUBSET Lines
         /\ chosen \in [option : ReplyOptions, lines : SUBSET Lines]
         /\ ~SaysAll(p, r) /\ p.scope # "ALL_LINES" =>
              /\ chosen.lines \subseteq r.lines \cup p.lines \cup p.mentioned
              /\ r.lines # {} => chosen.lines = r.lines
<1>1. /\ p.lines \in SUBSET Lines /\ p.mentioned \in SUBSET Lines /\ r.lines \in SUBSET Lines
  BY DEF Pending, Reply
<1>2. QED
  BY <1>1 DEF RequiredFirst, ReplyOptions

\* A choice by the words or by the model is one of four.
LEMMA ReplyChoices ==
  ASSUME NEW p \in Pending, NEW r \in Reply
  PROVE  ResolveReply(p, r) \in
           {RequiredFirst(p, r), ProductionPriority,
            [option |-> "CLARIFICATION_LOOP_DETECTED", lines |-> {}],
            [option |-> "MERGED_TEXT", lines |-> {}]}
<1>1. ResolveByWords(p, r) \in
        {None, RequiredFirst(p, r), ProductionPriority,
         [option |-> "CLARIFICATION_LOOP_DETECTED", lines |-> {}]}
  BY DEF ResolveByWords
<1>2. QED
  BY <1>1 DEF ResolveReply

\* The lines of a merged text.
LEMMA TextLinesNamed ==
  ASSUME NEW p \in Pending, NEW r \in Reply
  PROVE  /\ TextLines(p, r) \in SUBSET Lines
         /\ ~SaysAll(p, r) /\ "SETTINGS" \notin r.changes =>
              TextLines(p, r) \subseteq r.lines \cup p.lines \cup p.mentioned
BY DEF TextLines, Pending, Reply

\* A reply is resolved to lines that it or the question names.
LEMMA ReplyNamesLines ==
  ASSUME NEW p \in Pending, NEW r \in Replies, NEW accepted \in BOOLEAN, NEW result,
         result = [pending |-> p, reply |-> r, merged |-> Merged(p, r, accepted)]
  PROVE  result \in Result /\ NamedLines(result)
<1>1. r \in Reply
  BY InputAssumption DEF InputAssumption
<1> DEFINE chosen == ResolveReply(p, r)
           merged == Merged(p, r, accepted)
           Good(m) == /\ m \in [option : ReplyOptions, lines : SUBSET Lines]
                      /\ m.option \in {"ROBOT_REQUIRED_FIRST", "MERGED_TEXT"} => m.lines # {}
                      /\ ~(\/ SaysAll(p, r)
                           \/ m.option = "ROBOT_REQUIRED_FIRST" /\ p.scope = "ALL_LINES"
                           \/ m.option = "MERGED_TEXT" /\ "SETTINGS" \in r.changes) =>
                           /\ m.lines \subseteq r.lines \cup p.lines \cup p.mentioned
                           /\ m.option = "ROBOT_REQUIRED_FIRST" /\ r.lines # {} =>
                                m.lines = r.lines
<1>2. Good([option |-> "UNRESOLVED", lines |-> {}])
  BY DEF ReplyOptions
<1>3. ASSUME chosen = RequiredFirst(p, r) PROVE Good(merged)
  <2>1. chosen.option = "ROBOT_REQUIRED_FIRST"
    BY <1>1, <1>3, RequiredFirstLines
  <2>2. merged = IF accepted /\ chosen.lines # {}
                 THEN [option |-> "ROBOT_REQUIRED_FIRST", lines |-> chosen.lines]
                 ELSE [option |-> "UNRESOLVED", lines |-> {}]
    BY <2>1 DEF Merged
  <2>3. ASSUME chosen.lines # {}
        PROVE  Good([option |-> "ROBOT_REQUIRED_FIRST", lines |-> chosen.lines])
    BY <1>1, <1>3, <2>3, RequiredFirstLines DEF ReplyOptions
  <2>4. \/ merged = [option |-> "UNRESOLVED", lines |-> {}]
        \/ chosen.lines # {} /\ merged = [option |-> "ROBOT_REQUIRED_FIRST", lines |-> chosen.lines]
    BY <2>2
  <2> HIDE DEF chosen, merged, Good
  <2>5. QED
    BY <1>2, <2>3, <2>4
<1>4. ASSUME chosen \in {ProductionPriority, [option |-> "CLARIFICATION_LOOP_DETECTED", lines |-> {}]} PROVE Good(merged)
  <2>1. merged = chosen
    BY <1>4 DEF Merged, ProductionPriority
  <2>2. Good(chosen)
    BY <1>4 DEF ProductionPriority, ReplyOptions
  <2> HIDE DEF chosen, merged, Good
  <2>3. QED
    BY <2>1, <2>2
<1>5. ASSUME chosen = [option |-> "MERGED_TEXT", lines |-> {}] PROVE Good(merged)
  <2> DEFINE lines == TextLines(p, r)
  <2>1. merged = IF accepted /\ lines # {} THEN [option |-> "MERGED_TEXT", lines |-> lines]
                 ELSE [option |-> "UNRESOLVED", lines |-> {}]
    BY <1>5 DEF Merged
  <2>2. ASSUME lines # {} PROVE Good([option |-> "MERGED_TEXT", lines |-> lines])
    BY <1>1, <2>2, TextLinesNamed DEF ReplyOptions
  <2>3. \/ merged = [option |-> "UNRESOLVED", lines |-> {}]
        \/ lines # {} /\ merged = [option |-> "MERGED_TEXT", lines |-> lines]
    BY <2>1
  <2> HIDE DEF merged, lines, Good
  <2>4. QED
    BY <1>2, <2>2, <2>3
<1>6. chosen \in {RequiredFirst(p, r), ProductionPriority,
                  [option |-> "CLARIFICATION_LOOP_DETECTED", lines |-> {}],
                  [option |-> "MERGED_TEXT", lines |-> {}]}
  BY <1>1, ReplyChoices
<1> HIDE DEF chosen, merged, Good
<1>7. Good(merged)
  BY <1>3, <1>4, <1>5, <1>6
<1>8. result = [pending |-> p, reply |-> r, merged |-> merged]
  BY DEF merged
<1>9. QED
  BY <1>7, <1>8 DEF Result, NamedLines, AllLinesMeant, Good

-------------------------------------------------------------------------------
(***************************************************************************)
(* Requests.                                                               *)
(***************************************************************************)

\* What a request holds when it goes to step with the local values l.
Holding(step, l) ==
  /\ step = "idle" => l.kind = None
  /\ step = "read" => l.kind = "dialogue" \/ l.reply # None
  /\ step \in {"model", "decide"} => l.kind = "dialogue" /\ l.session # None
  /\ step = "decide" => l.answer # None /\ l.answered <= version
  /\ step = "merge" => l.reply # None /\ l.session # None
  /\ step = "save" => l.doc # None /\ Complete(l.doc)
  /\ step = "save" /\ l.kind = "dialogue" =>
       /\ l.session # None
       /\ Begins(l.session.conversation, l.doc.conversation)
       /\ l.doc.candidate # None => l.doc.candidate.base >= l.answered
  /\ l.result # None => NamedLines(l.result)

\* The step of one request leaves the others as they are.
LEMMA OtherRequest ==
  ASSUME IInv, NEW u \in Threads, pc'[u] = pc[u], loc'[u] = loc[u],
         handle'[u] # None => handle[u] # None, version' \in Nat, version <= version'
  PROVE  RequestOK(u)'
<1>1. RequestOK(u) /\ loc[u] \in Local /\ version \in Nat
  BY DEF IInv, TypeOK
<1>2. loc[u].answered \in Nat
  BY <1>1 DEF Local
<1>3. Saved(u)' <=> Saved(u)
  BY DEF Saved
<1>4. pc[u] = "decide" => loc[u].answered <= version'
  BY <1>1, <1>2 DEF RequestOK
<1>5. QED
  BY <1>1, <1>3, <1>4 DEF RequestOK

\* A step that leaves the files alone.
LEMMA QuietIInv ==
  ASSUME IInv, NEW t \in Threads, pc[t] \notin {"write"},
         NEW step \in Label \ {"write", "replace"}, NEW l \in Local, Holding(step, l),
         pc' = [pc EXCEPT ![t] = step], loc' = [loc EXCEPT ![t] = l],
         UNCHANGED <<files, version>>, turns' \in Nat, used' \in [writes : Nat, crashes : Nat]
  PROVE  IInv'
<1>1. TypeOK /\ RequestOK(t)
  BY DEF IInv
<1>2. /\ pc'[t] = step /\ loc'[t] = l
      /\ \A u \in Threads \ {t} : pc'[u] = pc[u] /\ loc'[u] = loc[u]
  BY <1>1 DEF TypeOK
<1>3. TypeOK'
  BY <1>1 DEF TypeOK, files
<1>4. RequestOK(t)'
  <2>1. handle'[t] = None
    BY <1>1 DEF RequestOK, files
  <2>2. version' = version
    OBVIOUS
  <2>3. Saved(t)' => step = "save"
    BY <1>2 DEF Saved
  <2>4. QED
    BY <1>2, <2>1, <2>2, <2>3 DEF RequestOK, Holding
<1>5. \A u \in Threads \ {t} : RequestOK(u)'
  <2>1. version \in Nat
    BY <1>1 DEF TypeOK
  <2>2. QED
    BY <1>2, <2>1, OtherRequest DEF files
<1>6. FilesComplete'
  BY DEF IInv, FilesComplete, files
<1>7. ~raced' => OneSaver'
  <2> SUFFICES ASSUME ~raced PROVE OneSaver'
    BY DEF files
  <2>1. OneSaver
    BY DEF IInv
  <2>2. \A u \in Threads : pc'[u] \in {"write", "replace"} => u # t /\ pc[u] = pc'[u]
    BY <1>2
  <2>3. QED
    BY <2>1, <2>2 DEF OneSaver, Saving, files
<1>8. QED
  BY <1>3, <1>4, <1>5, <1>6, <1>7 DEF IInv

\* The end of a request, with or without a resolved reply.
LEMMA EndHolding ==
  ASSUME NEW result \in Result \cup {None}, result # None => NamedLines(result)
  PROVE  /\ [NoLocal EXCEPT !.result = result] \in Local
         /\ Holding("idle", [NoLocal EXCEPT !.result = result])
BY DEF NoLocal, Local, Holding

LEMMA EndIInv ==
  ASSUME IInv, NEW t \in Threads, pc[t] \notin {"write"},
         NEW result \in Result \cup {None}, result # None => NamedLines(result),
         End(t, result), UNCHANGED <<files, version>>,
         turns' \in Nat, used' \in [writes : Nat, crashes : Nat]
  PROVE  IInv'
<1>1. "idle" \in Label \ {"write", "replace"}
  BY DEF Label
<1>2. /\ pc' = [pc EXCEPT ![t] = "idle"]
      /\ loc' = [loc EXCEPT ![t] = [NoLocal EXCEPT !.result = result]]
  BY DEF End, Goto
<1>3. QED
  BY <1>1, <1>2, EndHolding, QuietIInv

LEMMA EndNoneIInv ==
  ASSUME IInv, NEW t \in Threads, pc[t] \notin {"write"}, End(t, None),
         UNCHANGED <<files, version>>, turns' \in Nat, used' \in [writes : Nat, crashes : Nat]
  PROVE  IInv'
BY EndIInv

LEMMA IdleSessionType == IdleSession \in Document /\ Complete(IdleSession)
<1>1. <<>> \in Seq(Nat)
  BY EmptySeq
<1>2. QED
  BY <1>1 DEF IdleSession, Document, ChatSessionStates, Complete

LEMMA LoadIInv ==
  ASSUME IInv, NEW t \in Threads, NEW l \in Local, Load(t, l),
         l.kind = "dialogue" \/ (l.kind # "dialogue" /\ l.reply # None), l.result = None,
         UNCHANGED <<files, version>>, turns' \in Nat, used' \in [writes : Nat, crashes : Nat]
  PROVE  IInv'
<1>1. pc[t] = "idle"
  BY DEF Load
<1>2. CASE file = None
  <2> DEFINE step == IF l.kind = "dialogue" THEN "model" ELSE "merge"
             next == [l EXCEPT !.session = IdleSession]
  <2>1. step \in Label \ {"write", "replace"}
    BY DEF Label
  <2>2. next \in Local /\ next.session # None /\ next.kind = l.kind /\ next.reply = l.reply
        /\ next.result = None
    BY IdleSessionType, NoneAssumption DEF Local, NoneAssumption
  <2>3. Holding(step, next)
    BY <2>2 DEF Holding
  <2>4. pc' = [pc EXCEPT ![t] = step] /\ loc' = [loc EXCEPT ![t] = next]
    BY <1>2 DEF Load, Goto
  <2> HIDE DEF step, next
  <2>5. QED
    BY <1>1, <2>1, <2>2, <2>3, <2>4, QuietIInv
<1>3. CASE file # None
  <2>1. "read" \in Label \ {"write", "replace"}
    BY DEF Label
  <2>2. Holding("read", l)
    BY DEF Holding
  <2>3. pc' = [pc EXCEPT ![t] = "read"] /\ loc' = [loc EXCEPT ![t] = l]
    BY <1>3 DEF Load, Goto
  <2>4. QED
    BY <1>1, <2>1, <2>2, <2>3, QuietIInv
<1>4. QED
  BY <1>2, <1>3

LEMMA StartDialogueIInv ==
  ASSUME IInv, NEW t \in Threads, StartDialogue(t)
  PROVE  IInv'
<1> DEFINE l == [NoLocal EXCEPT !.kind = "dialogue", !.turn = turns + 1, !.prompt = version]
<1>1. TypeOK /\ turns + 1 \in Nat /\ version \in Nat
  BY DEF IInv, TypeOK
<1>2. l \in Local /\ l.kind = "dialogue" /\ l.result = None
  BY <1>1 DEF NoLocal, Local, Kinds
<1>3. Load(t, l) /\ UNCHANGED <<files, version>>
  BY DEF StartDialogue
<1>4. turns' \in Nat /\ used' \in [writes : Nat, crashes : Nat]
  BY <1>1 DEF StartDialogue, TypeOK
<1> HIDE DEF l
<1>5. QED
  BY <1>2, <1>3, <1>4, LoadIInv

LEMMA StartMergeIInv ==
  ASSUME IInv, NEW t \in Threads, StartMerge(t)
  PROVE  IInv'
<1>1. PICK r \in Replies : Load(t, [NoLocal EXCEPT !.kind = "merge", !.reply = r])
  BY DEF StartMerge
<1> DEFINE l == [NoLocal EXCEPT !.kind = "merge", !.reply = r]
<1>2. l \in Local /\ l.kind # "dialogue" /\ l.reply # None /\ l.result = None
  BY NoneAssumption DEF NoLocal, Local, Kinds, NoneAssumption
<1>3. Load(t, l)
  BY <1>1
<1>4. /\ turns' \in Nat /\ used' \in [writes : Nat, crashes : Nat]
      /\ UNCHANGED <<files, version>>
  BY DEF StartMerge, IInv, TypeOK
<1> HIDE DEF l
<1>5. QED
  BY <1>2, <1>3, <1>4, LoadIInv

LEMMA ReadSessionIInv ==
  ASSUME IInv, NEW t \in Threads, ReadSession(t)
  PROVE  IInv'
<1>1. TypeOK /\ RequestOK(t) /\ loc[t] \in Local
  BY DEF IInv, TypeOK
<1>2. /\ pc[t] = "read" /\ UNCHANGED <<files, version, turns, used>>
      /\ turns' \in Nat /\ used' \in [writes : Nat, crashes : Nat]
  BY <1>1 DEF ReadSession, TypeOK
<1>3. CASE file \in {None, Torn}
  BY <1>2, <1>3, EndNoneIInv DEF ReadSession
<1>4. CASE file \notin {None, Torn}
  <2> DEFINE step == IF loc[t].kind = "dialogue" THEN "model" ELSE "merge"
             next == [loc[t] EXCEPT !.session = file, !.prompt = version]
  <2>1. file \in Document /\ version \in Nat /\ file # None
    BY <1>1, <1>4 DEF TypeOK
  <2>2. step \in Label \ {"write", "replace"}
    BY DEF Label
  <2>3. next \in Local /\ next.session = file /\ next.kind = loc[t].kind
        /\ next.reply = loc[t].reply /\ next.result = loc[t].result
    BY <1>1, <2>1 DEF Local
  <2>4. pc' = [pc EXCEPT ![t] = step] /\ loc' = [loc EXCEPT ![t] = next]
    BY <1>1, <1>4 DEF ReadSession, Goto, TypeOK
  <2> HIDE DEF next
  <2>5. Holding(step, next)
    BY <1>1, <1>2, <2>1, <2>3 DEF Holding, RequestOK
  <2> HIDE DEF step
  <2>6. QED
    BY <1>2, <2>2, <2>3, <2>4, <2>5, QuietIInv
<1>5. QED
  BY <1>3, <1>4

LEMMA MergeIInv ==
  ASSUME IInv, NEW t \in Threads, Merge(t)
  PROVE  IInv'
<1>1. TypeOK /\ RequestOK(t) /\ loc[t] \in Local
  BY DEF IInv, TypeOK
<1>2. /\ pc[t] = "merge" /\ UNCHANGED <<files, version, turns, used>>
      /\ turns' \in Nat /\ used' \in [writes : Nat, crashes : Nat]
  BY <1>1 DEF Merge, TypeOK
<1> DEFINE pending == loc[t].session.pending
           reply == loc[t].reply
<1>3. CASE pending = None
  BY <1>2, <1>3, EndNoneIInv DEF Merge
<1>4. CASE pending # None
  <2>1. loc[t].session \in Document /\ reply \in Replies
    BY <1>1, <1>2 DEF RequestOK, Local
  <2>2. pending \in Pending
    BY <1>4, <2>1 DEF Document
  <2>3. PICK accepted \in BOOLEAN :
          End(t, [pending |-> pending, reply |-> reply,
                  merged |-> Merged(pending, reply, accepted)])
    BY <1>4 DEF Merge
  <2> DEFINE result == [pending |-> pending, reply |-> reply,
                        merged |-> Merged(pending, reply, accepted)]
  <2> HIDE DEF pending, reply
  <2>4. result \in Result /\ NamedLines(result)
    BY <2>1, <2>2, ReplyNamesLines
  <2>5. End(t, result)
    BY <2>3
  <2> HIDE DEF result
  <2>6. QED
    BY <1>2, <2>4, <2>5, EndIInv
<1>5. QED
  BY <1>3, <1>4

LEMMA CallFailsIInv ==
  ASSUME IInv, NEW t \in Threads, CallFails(t)
  PROVE  IInv'
<1>1. TypeOK /\ RequestOK(t) /\ loc[t] \in Local
  BY DEF IInv, TypeOK
<1>2. /\ pc[t] = "model" /\ UNCHANGED <<files, version, turns, used>>
      /\ turns' \in Nat /\ used' \in [writes : Nat, crashes : Nat]
  BY <1>1 DEF CallFails, TypeOK
<1>3. CASE loc[t].tries + 1 < MaxAttempts
  <2> DEFINE next == [loc[t] EXCEPT !.tries = @ + 1]
  <2>1. "model" \in Label \ {"write", "replace"}
    BY DEF Label
  <2>2. next \in Local /\ next.kind = loc[t].kind /\ next.session = loc[t].session
        /\ next.result = loc[t].result
    BY <1>1 DEF Local
  <2>3. loc' = [loc EXCEPT ![t] = next]
    BY <1>3 DEF CallFails
  <2>4. pc' = [pc EXCEPT ![t] = "model"]
    BY <1>1, <1>2, <1>3 DEF CallFails, TypeOK
  <2> HIDE DEF next
  <2>5. Holding("model", next)
    BY <1>1, <1>2, <2>2 DEF Holding, RequestOK
  <2>6. QED
    BY <1>2, <2>1, <2>2, <2>3, <2>4, <2>5, QuietIInv
<1>4. CASE ~(loc[t].tries + 1 < MaxAttempts)
  BY <1>2, <1>4, EndNoneIInv DEF CallFails
<1>5. QED
  BY <1>3, <1>4

LEMMA AnswerUselessIInv ==
  ASSUME IInv, NEW t \in Threads, AnswerUseless(t)
  PROVE  IInv'
BY EndNoneIInv DEF AnswerUseless, IInv, TypeOK

LEMMA ModelAnswersIInv ==
  ASSUME IInv, NEW t \in Threads, ModelAnswers(t)
  PROVE  IInv'
<1>1. TypeOK /\ RequestOK(t) /\ loc[t] \in Local
  BY DEF IInv, TypeOK
<1>2. /\ pc[t] = "model" /\ UNCHANGED <<files, version, turns, used>>
      /\ turns' \in Nat /\ used' \in [writes : Nat, crashes : Nat]
  BY <1>1 DEF ModelAnswers, TypeOK
<1>3. PICK a \in Answers :
        /\ pc' = [pc EXCEPT ![t] = "decide"]
        /\ loc' = [loc EXCEPT ![t] = [@ EXCEPT !.answer = a, !.answered = version]]
  BY DEF ModelAnswers, Goto
<1> DEFINE next == [loc[t] EXCEPT !.answer = a, !.answered = version]
<1>4. version \in Nat /\ a # None
  BY <1>1, NoneAssumption DEF TypeOK, NoneAssumption
<1>5. "decide" \in Label \ {"write", "replace"}
  BY DEF Label
<1>6. /\ next \in Local /\ next.answer = a /\ next.answered = version
      /\ next.kind = loc[t].kind /\ next.session = loc[t].session
      /\ next.result = loc[t].result
  BY <1>1, <1>4 DEF Local
<1>7. loc' = [loc EXCEPT ![t] = next]
  BY <1>1, <1>3 DEF TypeOK
<1> HIDE DEF next
<1>8. Holding("decide", next)
  BY <1>1, <1>2, <1>4, <1>6 DEF Holding, RequestOK
<1>9. QED
  BY <1>2, <1>3, <1>5, <1>6, <1>7, <1>8, QuietIInv

\* A request that saves a document of its own, or of the conversation.
LEMMA SaveIInv ==
  ASSUME IInv, NEW t \in Threads, pc[t] \in {"idle", "decide"},
         NEW doc \in Document, Complete(doc), Save(t, doc),
         loc[t].kind = "dialogue" =>
           /\ loc[t].session # None
           /\ Begins(loc[t].session.conversation, doc.conversation)
           /\ doc.candidate # None => doc.candidate.base >= loc[t].answered,
         UNCHANGED <<files, version>>, turns' \in Nat, used' \in [writes : Nat, crashes : Nat]
  PROVE  IInv'
<1> DEFINE next == [loc[t] EXCEPT !.doc = doc]
<1>1. TypeOK /\ RequestOK(t) /\ loc[t] \in Local
  BY DEF IInv, TypeOK
<1>2. "save" \in Label \ {"write", "replace"}
  BY DEF Label
<1>3. /\ next \in Local /\ next.doc = doc /\ next.answered = loc[t].answered
      /\ next.kind = loc[t].kind /\ next.session = loc[t].session
      /\ next.result = loc[t].result
  BY <1>1 DEF Local
<1>4. pc' = [pc EXCEPT ![t] = "save"] /\ loc' = [loc EXCEPT ![t] = next]
  BY DEF Save, Goto
<1>5. doc # None
  BY NoneAssumption DEF NoneAssumption
<1> HIDE DEF next
<1>6. Holding("save", next)
  BY <1>1, <1>3, <1>5 DEF Holding, RequestOK
<1>7. QED
  BY <1>2, <1>3, <1>4, <1>6, QuietIInv

LEMMA AskingType ==
  ASSUME NEW d, NEW conversation \in Seq(Nat)
  PROVE  /\ Asking(d, conversation) \in Document
         /\ Asking(d, conversation).conversation = conversation
         /\ Asking(d, conversation).candidate = None
         /\ Complete(Asking(d, conversation))
BY IdleSessionType DEF Asking, IdleSession, Document, ChatSessionStates, Complete

LEMMA ProposingType ==
  ASSUME NEW candidate \in Proposal, MissingForReview(candidate.request) = {},
         NEW conversation \in Seq(Nat)
  PROVE  /\ Proposing(candidate, conversation) \in Document
         /\ Complete(Proposing(candidate, conversation))
         /\ Proposing(candidate, conversation).conversation = conversation
         /\ Proposing(candidate, conversation).candidate = candidate
<1> DEFINE doc == Proposing(candidate, conversation)
<1>1. candidate # None
  BY NoneAssumption DEF NoneAssumption
<1>2. doc.state = "WAITING_FOR_APPROVAL_DECISION" /\ doc.conversation = conversation
      /\ doc.candidate = candidate
  BY DEF Proposing, IdleSession
<1>3. doc \in Document
  BY IdleSessionType DEF Proposing, Document, ChatSessionStates
<1>4. QED
  BY <1>1, <1>2, <1>3 DEF Complete

LEMMA DecideIInv ==
  ASSUME IInv, NEW t \in Threads, Decide(t)
  PROVE  IInv'
<1> DEFINE d == Decision(loc[t].answer)
           conversation == Conversation(loc[t].session, loc[t].turn)
           fieldsOnly == d.missing # {} /\ d.missing \subseteq RequiredFields
                         /\ d.turn \in {"TASK_REQUEST", "CLARIFICATION_VALUES"}
<1>1. TypeOK /\ RequestOK(t) /\ loc[t] \in Local /\ version \in Nat
  BY DEF IInv, TypeOK
<1>2. /\ pc[t] = "decide" /\ UNCHANGED <<files, version, turns, used>>
      /\ turns' \in Nat /\ used' \in [writes : Nat, crashes : Nat]
  BY <1>1 DEF Decide, TypeOK
<1>3. /\ loc[t].session # None /\ loc[t].session \in Document /\ loc[t].turn \in Nat
      /\ loc[t].answer \in Answers /\ loc[t].answered \in Nat
      /\ loc[t].answered <= version /\ loc[t].kind = "dialogue"
  BY <1>1, <1>2 DEF RequestOK, Local
<1>4. loc[t].answer \in Answer
  BY <1>3, InputAssumption DEF InputAssumption
<1>5. /\ conversation \in Seq(Nat)
      /\ Begins(loc[t].session.conversation, conversation)
  BY <1>3, ConversationBegins
<1>6. /\ d.request \in Request
      /\ d.state = "READY_FOR_REVIEW" => MissingForReview(d.request) = {}
  BY <1>4, DecisionComplete
<1>7. \/ d.state = "READY_FOR_REVIEW" /\ Review(t, d, conversation)
      \/ Save(t, Asking(d, conversation))
      \/ Goto(t, "clear") /\ UNCHANGED loc
      \/ End(t, None)
  BY DEF Decide
<1> HIDE DEF d, conversation
<1>8. ASSUME Save(t, Asking(d, conversation)) PROVE IInv'
  BY <1>2, <1>3, <1>5, <1>8, AskingType, SaveIInv
<1>9. CASE d.state = "READY_FOR_REVIEW" /\ Review(t, d, conversation)
  <2> DEFINE candidate == Candidate(loc[t], d)
  <2>1. PICK verdict \in {"ACCEPTED", "REJECTED", "ERROR"} :
          Save(t, IF verdict = "ACCEPTED" THEN Proposing(candidate, conversation)
                  ELSE Asking(d, conversation))
    BY <1>9 DEF Review
  <2>2. CASE verdict = "ACCEPTED"
    <3>1. /\ candidate \in Proposal /\ MissingForReview(candidate.request) = {}
          /\ candidate.base = version
      BY <1>1, <1>6, <1>9 DEF Candidate, Proposal
    <3> HIDE DEF candidate
    <3>2. /\ Proposing(candidate, conversation) \in Document
          /\ Complete(Proposing(candidate, conversation))
          /\ Proposing(candidate, conversation).conversation = conversation
          /\ Proposing(candidate, conversation).candidate = candidate
      BY <1>5, <3>1, ProposingType
    <3>3. candidate.base >= loc[t].answered
      BY <1>1, <1>3, <3>1
    <3>4. Save(t, Proposing(candidate, conversation))
      BY <2>1, <2>2
    <3>5. QED
      BY <1>2, <1>3, <1>5, <3>2, <3>3, <3>4, SaveIInv
  <2>3. CASE verdict # "ACCEPTED"
    BY <1>8, <2>1, <2>3
  <2>4. QED
    BY <2>2, <2>3
<1>10. CASE Goto(t, "clear") /\ UNCHANGED loc
  <2>1. "clear" \in Label \ {"write", "replace"}
    BY DEF Label
  <2>2. Holding("clear", loc[t])
    BY <1>1 DEF Holding, RequestOK
  <2>3. pc' = [pc EXCEPT ![t] = "clear"] /\ loc' = [loc EXCEPT ![t] = loc[t]]
    BY <1>1, <1>10 DEF Goto, TypeOK
  <2>4. QED
    BY <1>1, <1>2, <2>1, <2>2, <2>3, QuietIInv
<1>11. CASE End(t, None)
  BY <1>2, <1>11, EndNoneIInv
<1>12. QED
  BY <1>7, <1>8, <1>9, <1>10, <1>11

LEMMA PutIInv ==
  ASSUME IInv, NEW t \in Threads, Put(t)
  PROVE  IInv'
<1>1. /\ pc[t] = "idle" /\ UNCHANGED <<files, version>>
      /\ turns' \in Nat /\ used' \in [writes : Nat, crashes : Nat]
  BY DEF Put, IInv, TypeOK
<1>2. PICK doc \in Puts : IF doc.state \in ChatSessionStates THEN Save(t, doc) ELSE End(t, None)
  BY DEF Put
<1>3. loc[t].kind # "dialogue"
  BY <1>1, NoneAssumption DEF IInv, RequestOK, NoneAssumption, Kinds
<1>4. CASE doc.state \in ChatSessionStates
  <2>1. doc \in Document /\ Complete(doc)
    BY <1>4, InputAssumption, PutAssumption DEF InputAssumption, PutAssumption
  <2>2. QED
    BY <1>1, <1>2, <1>3, <1>4, <2>1, SaveIInv
<1>5. CASE doc.state \notin ChatSessionStates
  BY <1>1, <1>2, <1>5, EndNoneIInv
<1>6. QED
  BY <1>4, <1>5

LEMMA EvidenceType ==
  ASSUME NEW s \in Summaries,
         NEW state \in {"WAITING_FOR_DEPLOYMENT_DECISION", "WAITING_FOR_POST_EVIDENCE_DECISION"},
         NEW doc, doc = [IdleSession EXCEPT !.state = state, !.evidence = s]
  PROVE  doc \in Document /\ Complete(doc)
BY IdleSessionType DEF IdleSession, Document, ChatSessionStates, Complete

LEMMA SummarizeIInv ==
  ASSUME IInv, NEW t \in Threads, Summarize(t)
  PROVE  IInv'
<1>1. /\ pc[t] = "idle" /\ UNCHANGED <<files, version>>
      /\ turns' \in Nat /\ used' \in [writes : Nat, crashes : Nat]
  BY DEF Summarize, IInv, TypeOK
<1>2. loc[t].kind # "dialogue"
  BY <1>1, NoneAssumption DEF IInv, RequestOK, NoneAssumption, Kinds
<1>3. PICK s \in Summaries :
        \/ Save(t, [IdleSession EXCEPT !.state = "WAITING_FOR_DEPLOYMENT_DECISION", !.evidence = s])
        \/ Save(t, [IdleSession EXCEPT !.state = "WAITING_FOR_POST_EVIDENCE_DECISION", !.evidence = s])
        \/ End(t, None)
  BY DEF Summarize
<1>4. ASSUME NEW state \in {"WAITING_FOR_DEPLOYMENT_DECISION", "WAITING_FOR_POST_EVIDENCE_DECISION"},
             Save(t, [IdleSession EXCEPT !.state = state, !.evidence = s])
      PROVE  IInv'
  <2> DEFINE doc == [IdleSession EXCEPT !.state = state, !.evidence = s]
  <2>1. doc \in Document /\ Complete(doc)
    BY EvidenceType
  <2>2. Save(t, doc)
    BY <1>4
  <2> HIDE DEF doc
  <2>3. QED
    BY <1>1, <1>2, <2>1, <2>2, SaveIInv
<1>5. QED
  BY <1>1, <1>3, <1>4, EndNoneIInv

LEMMA DeleteIInv ==
  ASSUME IInv, NEW t \in Threads, Delete(t)
  PROVE  IInv'
<1>1. TypeOK /\ RequestOK(t) /\ loc[t] \in Local
  BY DEF IInv, TypeOK
<1>2. /\ pc[t] = "idle" /\ UNCHANGED <<files, version>>
      /\ turns' \in Nat /\ used' \in [writes : Nat, crashes : Nat]
  BY <1>1 DEF Delete, TypeOK
<1>3. "clear" \in Label \ {"write", "replace"}
  BY DEF Label
<1>4. Holding("clear", loc[t])
  BY <1>1 DEF Holding, RequestOK
<1>5. pc' = [pc EXCEPT ![t] = "clear"] /\ loc' = [loc EXCEPT ![t] = loc[t]]
  BY <1>1 DEF Delete, Goto, TypeOK
<1>6. QED
  BY <1>1, <1>2, <1>3, <1>4, <1>5, QuietIInv

LEMMA ClearIInv ==
  ASSUME IInv, NEW t \in Threads, Clear(t)
  PROVE  IInv'
<1>1. TypeOK /\ RequestOK(t) /\ loc[t] \in Local
  BY DEF IInv, TypeOK
<1>2. /\ pc[t] = "clear" /\ UNCHANGED <<files, version>>
      /\ turns' \in Nat /\ used' \in [writes : Nat, crashes : Nat]
  BY <1>1 DEF Clear, TypeOK
<1>3. CASE file = None
  BY <1>2, <1>3, EndNoneIInv DEF Clear
<1>4. CASE file # None
  <2>1. "unlink" \in Label \ {"write", "replace"}
    BY DEF Label
  <2>2. Holding("unlink", loc[t])
    BY <1>1 DEF Holding, RequestOK
  <2>3. pc' = [pc EXCEPT ![t] = "unlink"] /\ loc' = [loc EXCEPT ![t] = loc[t]]
    BY <1>1, <1>4 DEF Clear, Goto, TypeOK
  <2>4. QED
    BY <1>1, <1>2, <2>1, <2>2, <2>3, QuietIInv
<1>5. QED
  BY <1>3, <1>4

-------------------------------------------------------------------------------
(***************************************************************************)
(* The file.                                                               *)
(***************************************************************************)

LEMMA OpenTemporaryIInv ==
  ASSUME IInv, NEW t \in Threads, OpenTemporary(t)
  PROVE  IInv'
<1>1. TypeOK /\ RequestOK(t)
  BY DEF IInv
<1>2. /\ pc[t] = "save" /\ pc' = [pc EXCEPT ![t] = "write"]
      /\ tmp' = Torn /\ handle' = [handle EXCEPT ![t] = "tmp"]
      /\ raced' = (raced \/ \E o \in Threads \ {t} : Saving(o))
      /\ file' = file /\ version' = version /\ turns' = turns /\ loc' = loc /\ used' = used
  BY DEF OpenTemporary, Goto
<1>3. /\ pc'[t] = "write" /\ handle'[t] = "tmp"
      /\ \A u \in Threads \ {t} : pc'[u] = pc[u] /\ handle'[u] = handle[u]
  BY <1>1, <1>2 DEF TypeOK
<1>4. TypeOK'
  <2>1. raced' \in BOOLEAN
    BY <1>1, <1>2 DEF TypeOK
  <2>2. pc' \in [Threads -> Label] /\ handle' \in [Threads -> Places \cup {None}]
    BY <1>1, <1>2 DEF TypeOK, Label, Places
  <2>3. QED
    BY <1>1, <1>2, <2>1, <2>2 DEF TypeOK
<1>5. RequestOK(t)'
  BY <1>1, <1>2, <1>3 DEF RequestOK, Saved
<1>6. \A u \in Threads \ {t} : RequestOK(u)'
  <2>1. version' \in Nat /\ version <= version'
    BY <1>1, <1>2 DEF TypeOK
  <2>2. QED
    BY <1>2, <1>3, <2>1, OtherRequest
<1>7. FilesComplete'
  BY <1>2, NoneAssumption DEF IInv, FilesComplete, NoneAssumption
<1>8. ASSUME ~raced' PROVE OneSaver'
  <2>1. ~raced /\ \A o \in Threads \ {t} : pc[o] \notin {"write", "replace"}
    BY <1>2, <1>8 DEF Saving
  <2>2. file' # Torn
    BY <1>2, <2>1 DEF IInv, OneSaver
  <2>3. \A u \in Threads : pc'[u] \in {"write", "replace"} => u = t
    BY <1>3, <2>1
  <2>4. QED
    BY <1>2, <1>3, <2>2, <2>3 DEF OneSaver, Saving
<1>9. QED
  BY <1>4, <1>5, <1>6, <1>7, <1>8 DEF IInv

LEMMA WriteTemporaryIInv ==
  ASSUME IInv, NEW t \in Threads, WriteTemporary(t)
  PROVE  IInv'
<1>1. TypeOK /\ RequestOK(t) /\ loc[t] \in Local
  BY DEF IInv, TypeOK
<1>2. /\ pc[t] = "write" /\ pc' = [pc EXCEPT ![t] = "replace"]
      /\ handle' = [handle EXCEPT ![t] = None] /\ raced' = raced
      /\ version' = version /\ turns' = turns /\ loc' = loc /\ used' = used
  BY DEF WriteTemporary, Goto
<1>3. PICK content \in {loc[t].doc, Torn} :
        \/ handle[t] = "tmp" /\ (content = Torn => tmp # Torn) /\ tmp' = content /\ file' = file
        \/ handle[t] # "tmp" /\ file' = content /\ tmp' = tmp
        \/ handle[t] # "tmp" /\ file' = file /\ tmp' = tmp
  BY DEF WriteTemporary
<1>4. loc[t].doc \in Document /\ Complete(loc[t].doc)
  BY <1>1, <1>2 DEF RequestOK, Saved, Local
<1>5. /\ pc'[t] = "replace" /\ handle'[t] = None
      /\ \A u \in Threads \ {t} : pc'[u] = pc[u] /\ handle'[u] = handle[u]
  BY <1>1, <1>2 DEF TypeOK
<1>6. TypeOK'
  <2>1. pc' \in [Threads -> Label] /\ handle' \in [Threads -> Places \cup {None}]
    BY <1>1, <1>2 DEF TypeOK, Label
  <2>2. file' \in Document \cup {None, Torn} /\ tmp' \in Document \cup {None, Torn}
    BY <1>1, <1>3, <1>4 DEF TypeOK
  <2>3. QED
    BY <1>1, <1>2, <2>1, <2>2 DEF TypeOK
<1>7. RequestOK(t)'
  BY <1>1, <1>2, <1>5 DEF RequestOK, Saved
<1>8. \A u \in Threads \ {t} : RequestOK(u)'
  <2>1. version' \in Nat /\ version <= version'
    BY <1>1, <1>2 DEF TypeOK
  <2>2. QED
    BY <1>2, <1>5, <2>1, OtherRequest
<1>9. FilesComplete'
  <2>1. FilesComplete /\ Torn \notin Document
    BY NoneAssumption DEF IInv, NoneAssumption
  <2>2. (file' = file \/ file' = content) /\ (tmp' = tmp \/ tmp' = content)
    BY <1>3
  <2>3. content = loc[t].doc \/ content = Torn
    OBVIOUS
  <2>4. QED
    BY <1>4, <2>1, <2>2, <2>3 DEF FilesComplete
<1>10. ASSUME ~raced' PROVE OneSaver'
  <2>1. OneSaver
    BY <1>2, <1>10 DEF IInv
  <2>2. handle[t] = "tmp" /\ tmp = Torn
    BY <1>2, <2>1 DEF OneSaver
  <2>3. file' = file /\ tmp' = loc[t].doc /\ tmp' # Torn
    BY <1>3, <1>4, <2>2, NoneAssumption DEF NoneAssumption
  <2>4. \A u \in Threads : pc'[u] \in {"write", "replace"} => u = t
    BY <1>2, <1>5, <2>1 DEF OneSaver, Saving
  <2>5. QED
    BY <1>5, <2>1, <2>3, <2>4 DEF OneSaver, Saving
<1>11. QED
  BY <1>6, <1>7, <1>8, <1>9, <1>10 DEF IInv

\* A handle follows the file it is on, or loses it.
LEMMA FollowedHandles ==
  ASSUME IInv, NEW t \in Threads, pc[t] # "write"
  PROVE  /\ \A o \in Threads : handle[o] = None => Moved(handle[o]) = None
         /\ \A o \in Threads : Moved(handle[o]) \in Places \cup {None}
         /\ handle[t] = None
BY NoneAssumption DEF IInv, TypeOK, RequestOK, Moved, Places, NoneAssumption

\* The end of a request that has replaced or removed the file.
LEMMA EndFileIInv ==
  ASSUME IInv, NEW t \in Threads, pc[t] # "write", End(t, None),
         UNCHANGED <<version, turns, raced, used>>,
         file' \in Document \cup {None, Torn}, tmp' \in Document \cup {None, Torn},
         handle' \in [Threads -> Places \cup {None}],
         \A o \in Threads : handle[o] = None => handle'[o] = None,
         file' \in {file, tmp, None}, tmp' \in {tmp, None},
         ~raced => /\ file' # Torn
                   /\ tmp' = tmp
                      \/ \A o \in Threads \ {t} : ~Saving(o)
                   /\ \A o \in Threads \ {t} : Saving(o) => handle'[o] = handle[o]
  PROVE  IInv'
<1> DEFINE ended == [NoLocal EXCEPT !.result = None]
<1>1. TypeOK /\ RequestOK(t)
  BY DEF IInv
<1>2. ended \in Local /\ Holding("idle", ended) /\ ended.result = None /\ ended.kind = None
  BY EndHolding DEF NoLocal
<1>3. pc' = [pc EXCEPT ![t] = "idle"] /\ loc' = [loc EXCEPT ![t] = ended]
  BY DEF End, Goto
<1> HIDE DEF ended
<1>4. /\ pc'[t] = "idle" /\ loc'[t] = ended
      /\ \A u \in Threads \ {t} : pc'[u] = pc[u] /\ loc'[u] = loc[u]
  BY <1>1, <1>3 DEF TypeOK
<1>5. TypeOK'
  <2>1. pc' \in [Threads -> Label] /\ loc' \in [Threads -> Local]
    BY <1>1, <1>2, <1>3 DEF TypeOK, Label
  <2>2. QED
    BY <1>1, <2>1 DEF TypeOK
<1>6. RequestOK(t)'
  <2>1. handle'[t] = None
    BY <1>1 DEF RequestOK
  <2>2. QED
    BY <1>2, <1>4, <2>1 DEF RequestOK, Saved
<1>7. \A u \in Threads \ {t} : RequestOK(u)'
  <2>1. version' \in Nat /\ version <= version'
    BY <1>1 DEF TypeOK
  <2>2. QED
    BY <1>4, <2>1, OtherRequest
<1>8. FilesComplete'
  BY NoneAssumption DEF IInv, FilesComplete, NoneAssumption
<1>9. ASSUME ~raced' PROVE OneSaver'
  <2>1. OneSaver /\ ~raced
    BY <1>9 DEF IInv
  <2>2. \A u \in Threads : Saving(u)' => u # t /\ Saving(u)
    BY <1>4 DEF Saving
  <2>3. \A u \in Threads : Saving(u)' => tmp' = tmp /\ handle'[u] = handle[u] /\ pc'[u] = pc[u]
    BY <1>4, <2>1, <2>2
  <2>4. QED
    BY <2>1, <2>2, <2>3 DEF OneSaver, Saving
<1>10. QED
  BY <1>5, <1>6, <1>7, <1>8, <1>9 DEF IInv

LEMMA ReplaceIInv ==
  ASSUME IInv, NEW t \in Threads, Replace(t)
  PROVE  IInv'
<1>1. TypeOK /\ pc[t] = "replace" /\ End(t, None) /\ UNCHANGED <<version, turns, raced, used>>
  BY DEF IInv, Replace
<1>2. ~raced => /\ file # Torn /\ tmp # Torn
                /\ \A o \in Threads \ {t} : ~Saving(o)
  BY <1>1 DEF IInv, OneSaver, Saving
<1>3. CASE tmp = None
  <2>1. file' = file /\ tmp' = tmp /\ handle' = handle
    BY <1>3 DEF Replace
  <2>2. QED
    BY <1>1, <1>2, <2>1, EndFileIInv DEF TypeOK
<1>4. CASE tmp # None
  <2>1. file' = tmp /\ tmp' = None /\ handle' = [o \in Threads |-> Moved(handle[o])]
    BY <1>4 DEF Replace
  <2>2. /\ handle' \in [Threads -> Places \cup {None}]
        /\ \A o \in Threads : handle[o] = None => handle'[o] = None
    BY <1>1, <2>1, FollowedHandles
  <2>3. QED
    BY <1>1, <1>2, <2>1, <2>2, EndFileIInv DEF TypeOK
<1>5. QED
  BY <1>3, <1>4

LEMMA UnlinkIInv ==
  ASSUME IInv, NEW t \in Threads, Unlink(t)
  PROVE  IInv'
<1>1. /\ TypeOK /\ pc[t] = "unlink" /\ End(t, None)
      /\ UNCHANGED <<tmp, version, turns, raced, used>> /\ file' = None
      /\ handle' = [o \in Threads |-> IF handle[o] = "file" THEN "gone" ELSE handle[o]]
  BY DEF IInv, Unlink
<1>2. /\ handle' \in [Threads -> Places \cup {None}]
      /\ \A o \in Threads : handle[o] = None => handle'[o] = None
  BY <1>1, NoneAssumption DEF TypeOK, Places, NoneAssumption
<1>3. ASSUME ~raced, NEW o \in Threads, Saving(o) PROVE handle'[o] = handle[o]
  <2>1. pc[o] = "write" => handle[o] = "tmp"
    BY <1>3 DEF IInv, OneSaver
  <2>2. pc[o] = "replace" => handle[o] = None
    BY DEF IInv, RequestOK
  <2>3. handle[o] # "file"
    BY <1>3, <2>1, <2>2, NoneAssumption DEF Saving, Places, NoneAssumption
  <2>4. QED
    BY <1>1, <2>3
<1>4. QED
  BY <1>1, <1>2, <1>3, EndFileIInv, NoneAssumption DEF TypeOK, NoneAssumption

LEMMA ReleaseIInv ==
  ASSUME IInv, Release
  PROVE  IInv'
<1>1. TypeOK /\ version' = version + 1 /\ UNCHANGED <<files, turns, pc, loc, used>>
  BY DEF IInv, Release
<1>2. version' \in Nat /\ version <= version'
  BY <1>1 DEF TypeOK
<1>3. TypeOK'
  BY <1>1, <1>2 DEF TypeOK, files
<1>4. \A u \in Threads : RequestOK(u)'
  BY <1>1, <1>2, OtherRequest DEF files
<1>5. FilesComplete' /\ (~raced' => OneSaver')
  BY <1>1 DEF IInv, FilesComplete, OneSaver, Saving, files
<1>6. QED
  BY <1>3, <1>4, <1>5 DEF IInv

LEMMA NoLocalHolding == NoLocal \in Local /\ Holding("idle", NoLocal)
BY DEF NoLocal, Local, Holding

LEMMA CrashIInv ==
  ASSUME IInv, Crash
  PROVE  IInv'
<1>1. /\ TypeOK /\ UNCHANGED <<file, tmp, version, turns, raced>>
      /\ handle' = [t \in Threads |-> None] /\ pc' = [t \in Threads |-> "idle"]
      /\ loc' = [t \in Threads |-> NoLocal]
  BY DEF IInv, Crash
<1>2. TypeOK'
  <2>1. used' \in [writes : Nat, crashes : Nat]
    BY <1>1 DEF Crash, TypeOK
  <2>2. /\ handle' \in [Threads -> Places \cup {None}] /\ pc' \in [Threads -> Label]
        /\ loc' \in [Threads -> Local]
    BY <1>1, NoLocalHolding DEF Label
  <2>3. QED
    BY <1>1, <2>1, <2>2 DEF TypeOK
<1>3. \A t \in Threads : RequestOK(t)'
  BY <1>1, NoLocalHolding DEF RequestOK, Holding, Saved, NoLocal
<1>4. FilesComplete'
  BY <1>1 DEF IInv, FilesComplete
<1>5. ~raced' => OneSaver'
  BY <1>1 DEF IInv, OneSaver, Saving
<1>6. QED
  BY <1>2, <1>3, <1>4, <1>5 DEF IInv

-------------------------------------------------------------------------------
(***************************************************************************)
(* The specification.                                                      *)
(***************************************************************************)

LEMMA InitIInv == Init => IInv
<1> SUFFICES ASSUME Init PROVE IInv
  OBVIOUS
<1>1. /\ handle = [t \in Threads |-> None] /\ pc = [t \in Threads |-> "idle"]
      /\ loc = [t \in Threads |-> NoLocal] /\ file = None /\ tmp = None
  BY DEF Init
<1>2. TypeOK
  <2>1. used \in [writes : Nat, crashes : Nat] /\ version \in Nat /\ turns \in Nat
        /\ raced \in BOOLEAN
    BY DEF Init
  <2>2. /\ handle \in [Threads -> Places \cup {None}] /\ pc \in [Threads -> Label]
        /\ loc \in [Threads -> Local]
    BY <1>1, NoLocalHolding DEF Label
  <2>3. QED
    BY <1>1, <2>1, <2>2 DEF TypeOK
<1>3. \A t \in Threads : RequestOK(t)
  BY <1>1, NoLocalHolding DEF RequestOK, Holding, Saved, NoLocal
<1>4. FilesComplete
  BY <1>1, NoneAssumption DEF FilesComplete, NoneAssumption
<1>5. OneSaver
  BY <1>1, NoneAssumption DEF OneSaver, Saving, NoneAssumption
<1>6. QED
  BY <1>2, <1>3, <1>4, <1>5 DEF IInv

LEMMA NextIInv == IInv /\ [Next]_vars => IInv'
<1> SUFFICES ASSUME IInv, [Next]_vars PROVE IInv'
  OBVIOUS
<1>1. CASE UNCHANGED vars
  <2>1. /\ file' = file /\ tmp' = tmp /\ handle' = handle /\ version' = version
        /\ turns' = turns /\ pc' = pc /\ loc' = loc /\ raced' = raced /\ used' = used
    BY <1>1 DEF vars
  <2>2. TypeOK' /\ FilesComplete' /\ (~raced' => OneSaver')
    BY <2>1 DEF IInv, TypeOK, FilesComplete, OneSaver, Saving
  <2>3. \A t \in Threads : RequestOK(t)'
    BY <2>1 DEF IInv, RequestOK, Saved
  <2>4. QED
    BY <2>2, <2>3 DEF IInv
<1>2. CASE \E t \in Threads : StartDialogue(t) \/ StartMerge(t) \/ Put(t) \/ Summarize(t) \/ Delete(t)
  BY <1>2, StartDialogueIInv, StartMergeIInv, PutIInv, SummarizeIInv, DeleteIInv
<1>3. ASSUME NEW t \in Threads, Answering(t) PROVE IInv'
  BY <1>3, ReadSessionIInv, MergeIInv, CallFailsIInv, AnswerUselessIInv, ModelAnswersIInv,
     DecideIInv, OpenTemporaryIInv, WriteTemporaryIInv, ReplaceIInv, ClearIInv, UnlinkIInv
  DEF Answering
<1>4. CASE Release
  BY <1>4, ReleaseIInv
<1>5. CASE Crash
  BY <1>5, CrashIInv
<1>6. QED
  BY <1>1, <1>2, <1>3, <1>4, <1>5 DEF Next

LEMMA DialogueInvariant == Spec => []IInv
BY InitIInv, NextIInv, PTL DEF Spec

\* The session file, its temporary file and the local values of every request
\* of /chat are of the kinds the code expects, whatever the requests interleave.
THEOREM DialogueTypeOK == Spec => []TypeOK
<1>1. IInv => TypeOK
  BY DEF IInv
<1>2. QED
  BY <1>1, DialogueInvariant, PTL

\* A session waits for an approval decision only with a complete request, for
\* any answers of the model and any number of writers of the session.
THEOREM ApprovalIsComplete == Spec => []ReviewedIsComplete
<1>1. IInv => ReviewedIsComplete
  BY DEF IInv, TypeOK, FilesComplete, ReviewedIsComplete
<1>2. QED
  BY <1>1, DialogueInvariant, PTL

\* A candidate is made on a version that was current when the model had
\* answered, or on a later one, however many releases pass during the call.
THEOREM CandidateNeverOlder == Spec => []CandidateIsFresh
<1>1. IInv => CandidateIsFresh
  BY DEF IInv, RequestOK, Saved, CandidateIsFresh
<1>2. QED
  BY <1>1, DialogueInvariant, PTL

\* A session file that is not JSON takes two overlapping saves: crashes alone,
\* at any step of a save, leave the old document or the new one.
THEOREM TornTakesTwo == Spec => []TornOnlyByRace
<1>1. IInv => TornOnlyByRace
  BY DEF IInv, OneSaver, TornOnlyByRace
<1>2. QED
  BY <1>1, DialogueInvariant, PTL

\* A question that comes out resolved has lines, and lines that the operator or
\* n8n's question named, those of the reply first; it has every line only if the
\* operator said so, the question was about all of them, or the merged text
\* changes the simulation.
THEOREM LinesWereNamed == Spec => []NoInventedLines
<1>1. IInv => NoInventedLines
  BY DEF IInv, RequestOK, NoInventedLines
<1>2. QED
  BY <1>1, DialogueInvariant, PTL

\* A dialogue request that replaces the session it has read forgets no turn.
THEOREM TurnsAreKept == Spec => ConversationGrows
<1> DEFINE Grows ==
      \A t \in Threads :
        loc[t].kind = "dialogue" /\ pc[t] = "replace" /\ loc[t].session = file
        /\ file' = loc[t].doc =>
          SubSeq(file'.conversation, 1, Len(file.conversation)) = file.conversation
<1>1. IInv => Grows
  BY DEF IInv, RequestOK, Saved, Begins
<1>2. IInv /\ [Next]_vars => [Grows]_file
  BY <1>1
<1>3. Spec => [][Next]_vars
  BY DEF Spec
<1>4. QED
  BY <1>2, <1>3, DialogueInvariant, PTL DEF ConversationGrows

===============================================================================
