----------------------------- MODULE Intent_proofs -----------------------------
(***************************************************************************)
(* Proofs about Intent for any TRT, candidates, answers of the model and    *)
(* number of requests: what the completion of a request and of its parts   *)
(* may add to it (Follows, PartOf, CompletedPart), what the operations of   *)
(* its patch write and where (Writes, Written, WrittenFor), and which       *)
(* values end up in the patch (Right).  IInv carries that to the release,   *)
(* for the version the patch was made of: ExclusionsAccumulate,             *)
(* ErrorLineNamed and UnnamedLinesKept follow from it.                      *)
(***************************************************************************)
EXTENDS Intent, SequenceTheorems, FiniteSetTheorems, WellFoundedInduction, TLAPS

-----------------------------------------------------------------------------
(***************************************************************************)
(* Numbers, sequences and merged functions.                                *)
(***************************************************************************)

LEMMA SmallestNumber ==
  ASSUME NEW T, T \subseteq Nat, T # {}
  PROVE  \E n \in T : \A m \in T : n <= m
  <1>1. PICK n \in T : \A m \in T : <<m, n>> \notin OpToRel(<, Nat)
    BY WFMin, NatLessThanWellFounded
  <1>2. \A m \in T : ~(m < n)
    <2> TAKE m \in T
    <2>1. m \in Nat /\ n \in Nat
      OBVIOUS
    <2> QED
      BY <1>1, <2>1 DEF OpToRel
  <1>3. \A m \in T : m \in Nat
    OBVIOUS
  <1> QED
    BY <1>2, <1>3

\* The last of some positions is one of them.
LEMMA MaxIsMember ==
  ASSUME NEW n \in Nat, NEW S, S \subseteq 1 .. n, S # {}
  PROVE  Max(S) \in S /\ \A i \in S : i <= Max(S)
  <1>1. PICK k \in {n - i : i \in S} : \A m \in {n - i : i \in S} : k <= m
    <2>1. \A i \in S : n - i \in Nat
      OBVIOUS
    <2>2. {n - i : i \in S} \subseteq Nat
      BY <2>1
    <2>3. {n - i : i \in S} # {}
      OBVIOUS
    <2> QED
      BY <2>2, <2>3, SmallestNumber
  <1>2. PICK i \in S : k = n - i
    BY <1>1
  <1>3. \A j \in S : i >= j
    <2> TAKE j \in S
    <2>1. k <= n - j
      BY <1>1
    <2> QED
      BY <1>2, <2>1
  <1>4. Max(S) \in S /\ \A j \in S : Max(S) >= j
    BY <1>3 DEF Max
  <1> QED
    BY <1>4

\* Induction over the numbers up to n, as a closure of a set.
LEMMA UpTo ==
  ASSUME NEW n \in Nat, NEW S, 0 \in S, \A m \in 0 .. n : m + 1 \in 0 .. n /\ m \in S => m + 1 \in S
  PROVE  \A m \in 0 .. n : m \in S
  <1> DEFINE Bad == {m \in 0 .. n : m \notin S}
  <1> SUFFICES ASSUME Bad # {} PROVE FALSE
    OBVIOUS
  <1>1. Bad \subseteq Nat
    OBVIOUS
  <1>2. PICK m \in Bad : \A k \in Bad : m <= k
    <2> HIDE DEF Bad
    <2> QED
      BY <1>1, SmallestNumber
  <1>3. m \in 0 .. n /\ m # 0 /\ m - 1 \in 0 .. n
    BY <1>2
  <1>4. m - 1 \notin Bad
    <2> HIDE DEF Bad
    <2> QED
      BY <1>2, <1>3
  <1> QED
    BY <1>2, <1>3, <1>4

\* Sequences over a set, one after the other, are a sequence over that set.
LEMMA FlattenedSeq ==
  ASSUME NEW T, NEW n \in Nat, NEW ss \in [1 .. n -> Seq(T)]
  PROVE  FlattenSeq(ss) \in Seq(T)
  <1> DEFINE Step(g, i) == IF i = 1 THEN ss[i] ELSE g[i - 1] \o ss[i]
             Solves(g, m) == \A i \in 1 .. m : g[i] = Step(g, i)
             Solved == {m \in 0 .. n : \E g \in [1 .. n -> Seq(T)] : Solves(g, m)}
  <1>1. Len(ss) = n
    OBVIOUS
  <1>2. 0 \in Solved
    <2>1. [i \in 1 .. n |-> << >>] \in [1 .. n -> Seq(T)]
      OBVIOUS
    <2>2. Solves([i \in 1 .. n |-> << >>], 0)
      OBVIOUS
    <2> QED
      BY <2>1, <2>2
  <1>3. \A m \in 0 .. n : m + 1 \in 0 .. n /\ m \in Solved => m + 1 \in Solved
    <2> SUFFICES ASSUME NEW m \in 0 .. n, m + 1 \in 0 .. n, m \in Solved PROVE m + 1 \in Solved
      OBVIOUS
    <2>1. PICK g \in [1 .. n -> Seq(T)] : Solves(g, m)
      OBVIOUS
    <2>2. m + 1 \in 1 .. n /\ \A i \in 1 .. m : i \in 1 .. n /\ i # m + 1 /\ i - 1 # m + 1
      OBVIOUS
    <2>3. Step(g, m + 1) \in Seq(T)
      <3>1. m + 1 # 1 => m \in 1 .. n
        OBVIOUS
      <3> QED
        BY <2>2, <3>1
    <2> DEFINE new == Step(g, m + 1)
               h == [g EXCEPT ![m + 1] = new]
    <2>4. h \in [1 .. n -> Seq(T)]
      BY <2>3
    <2>5. \A i \in 1 .. m + 1 : h[i] = Step(h, i)
      <3> TAKE i \in 1 .. m + 1
      <3>1. CASE i = m + 1
        <4>1. h[m + 1] = new
          BY <2>2
        <4>2. m + 1 # 1 => h[m] = g[m]
          OBVIOUS
        <4> QED
          BY <3>1, <4>1, <4>2
      <3>2. CASE i # m + 1
        <4>1. i \in 1 .. m
          BY <3>2
        <4>2. h[i] = g[i] /\ (i # 1 => h[i - 1] = g[i - 1])
          BY <2>2, <4>1
        <4> QED
          BY <2>1, <4>1, <4>2
      <3> QED
        BY <3>1, <3>2
    <2> QED
      BY <2>4, <2>5
  <1>4. n \in Solved
    <2> HIDE DEF Solved
    <2>1. n \in 0 .. n
      OBVIOUS
    <2> QED
      BY <1>2, <1>3, <2>1, UpTo
  <1>5. PICK g \in [1 .. n -> Seq(T)] : Solves(g, n)
    BY <1>4
  <1> DEFINE F(f) == [i \in 1 .. n |-> Step(f, i)]
             flatten == CHOOSE f : f = F(f)
  <1>6. g = F(g)
    BY <1>5
  <1>7. flatten = F(flatten)
    <2> HIDE DEF F
    <2> QED
      BY <1>6
  <1>8. FlattenSeq(ss) = IF n = 0 THEN ss ELSE flatten[n]
    BY <1>1 DEF FlattenSeq
  <1> HIDE DEF flatten
  <1>9. \A i \in 1 .. n : flatten[i] = Step(flatten, i)
    BY <1>7
  <1> DEFINE Good == {m \in 0 .. n : m # 0 => flatten[m] \in Seq(T)}
  <1>10. 0 \in Good
    OBVIOUS
  <1>11. \A m \in 0 .. n : m + 1 \in 0 .. n /\ m \in Good => m + 1 \in Good
    <2> SUFFICES ASSUME NEW m \in 0 .. n, m + 1 \in 0 .. n, m \in Good PROVE m + 1 \in Good
      OBVIOUS
    <2>1. m + 1 \in 1 .. n /\ flatten[m + 1] = Step(flatten, m + 1)
      BY <1>9
    <2>2. Step(flatten, m + 1) = IF m = 0 THEN ss[m + 1] ELSE flatten[m] \o ss[m + 1]
      OBVIOUS
    <2>3. ss[m + 1] \in Seq(T)
      BY <2>1
    <2>4. m # 0 => flatten[m] \in Seq(T)
      OBVIOUS
    <2>5. \A x, y \in Seq(T) : x \o y \in Seq(T)
      OBVIOUS
    <2>6. flatten[m + 1] \in Seq(T)
      <3> HIDE DEF Step
      <3> QED
        BY <2>1, <2>2, <2>3, <2>4, <2>5
    <2> QED
      BY <2>6
  <1>12. n \in Good
    <2> HIDE DEF Good
    <2>1. n \in 0 .. n
      OBVIOUS
    <2> QED
      BY <1>10, <1>11, <2>1, UpTo
  <1>13. CASE n = 0
    BY <1>8, <1>13
  <1>14. CASE n # 0
    BY <1>8, <1>12, <1>14
  <1> QED
    BY <1>13, <1>14

LEMMA SortedSet ==
  ASSUME NEW S, IsFiniteSet(S)
  PROVE  Cardinality(S) \in Nat /\ SetToSeq(S) \in [1 .. Cardinality(S) -> S]
  <1>1. Cardinality(S) \in Nat /\ ExistsBijection(1 .. Cardinality(S), S)
    BY FS_CardinalityType
  <1>2. \E f \in [1 .. Cardinality(S) -> S] : IsInjective(f)
    BY <1>1 DEF ExistsBijection, Bijection, Injection
  <1> QED
    BY <1>1, <1>2 DEF SetToSeq

\* Each element of sequences one after the other is an element of one of them.
LEMMA FlattenedElements ==
  ASSUME NEW n \in Nat, NEW ss, ss = [i \in 1 .. n |-> ss[i]],
         \A i \in 1 .. n : ss[i] \in Seq(Range(ss[i]))
  PROVE  /\ FlattenSeq(ss) \in Seq(Range(FlattenSeq(ss)))
         /\ \A k \in DOMAIN FlattenSeq(ss) : \E i \in 1 .. n : FlattenSeq(ss)[k] \in Range(ss[i])
  <1> DEFINE T == UNION {Range(ss[i]) : i \in 1 .. n}
  <1>1. \A i \in 1 .. n : ss[i] \in Seq(T)
    <2> TAKE i \in 1 .. n
    <2>1. Range(ss[i]) \subseteq T
      OBVIOUS
    <2> HIDE DEF T
    <2> QED
      BY <2>1
  <1>2. FlattenSeq(ss) \in Seq(T)
    <2> HIDE DEF T
    <2>1. ss \in [1 .. n -> Seq(T)]
      BY <1>1
    <2> QED
      BY <2>1, FlattenedSeq
  <1>3. \A k \in DOMAIN FlattenSeq(ss) : FlattenSeq(ss)[k] \in T
    <2> HIDE DEF T
    <2> QED
      BY <1>2
  <1>4. FlattenSeq(ss) \in Seq(Range(FlattenSeq(ss)))
    <2> HIDE DEF T
    <2> DEFINE s == FlattenSeq(ss)
    <2>1. s \in Seq(T)
      BY <1>2
    <2> HIDE DEF s
    <2>2. s \in Seq(Range(s))
      BY <2>1 DEF Range
    <2> QED
      BY <2>2 DEF s
  <1> QED
    BY <1>3, <1>4

\* A merged field has the value it has in one of the merged.
LEMMA MergedValue ==
  ASSUME NEW n \in Nat, NEW fs, DOMAIN fs = 1 .. n
  PROVE  /\ DOMAIN Merge(fs) = UNION {DOMAIN fs[i] : i \in 1 .. n}
         /\ \A f \in DOMAIN Merge(fs) :
              \E i \in 1 .. n : f \in DOMAIN fs[i] /\ Merge(fs)[f] = fs[i][f]
  <1>1. DOMAIN Merge(fs) = UNION {DOMAIN fs[i] : i \in 1 .. n}
    BY DEF Merge
  <1>2. ASSUME NEW f \in DOMAIN Merge(fs)
        PROVE  \E i \in 1 .. n : f \in DOMAIN fs[i] /\ Merge(fs)[f] = fs[i][f]
    <2> DEFINE S == {i \in DOMAIN fs : f \in DOMAIN fs[i]}
    <2>1. S \subseteq 1 .. n /\ S # {}
      BY <1>1, <1>2
    <2>2. Max(S) \in S
      <3> HIDE DEF S
      <3> QED
        BY <2>1, MaxIsMember
    <2>3. Merge(fs)[f] = fs[Max(S)][f]
      BY <1>1, <1>2 DEF Merge
    <2> HIDE DEF Max
    <2> QED
      BY <2>1, <2>2, <2>3
  <1> QED
    BY <1>1, <1>2

-----------------------------------------------------------------------------
(***************************************************************************)
(* Completing a candidate: what it says of lines, and what the text adds.  *)
(***************************************************************************)

Fields ==
  {"said", "base", "action", "scope", "line", "lines", "kinds", "goal", "priority", "set",
   "selected", "excluded", "required", "selectedTypes", "excludedTypes", "allowed", "barred",
   "order", "policy", "kpi", "kpiScope", "kpiLines", "strategy", "sim", "parts", "updates"}

LEMMA FieldsOfPart == DOMAIN Part = Fields
  BY DEF Part, Fields

AllSaid(c) == c.said # None /\ c.said.all # None

\* d is c, with at most the lines its text names besides its own; it means all
\* lines only if c or its text does, or neither c names a line.
Follows(c, d) ==
  /\ DOMAIN d = Fields
  /\ d.base = c.base /\ d.said = c.said
  /\ NamedBy(d) \subseteq NamedBy(c) \cup SaidLines(c)
  /\ NamedBy(c) # {} => NamedBy(d) # {} \/ AllSaid(c)
  /\ d.scope = "ALL_LINES" => c.scope = "ALL_LINES" \/ AllSaid(c) \/ NamedBy(c) = {}

LEMMA FollowsItself ==
  ASSUME NEW c, DOMAIN c = Fields PROVE Follows(c, c)
  BY DEF Follows

LEMMA FollowsOn ==
  ASSUME NEW c, NEW d, NEW e, Follows(c, d), Follows(d, e) PROVE Follows(c, e)
  BY DEF Follows, SaidLines, AllSaid

LEMMA UntargetedNamesNothing ==
  ASSUME NEW c PROVE Untargeted(c) <=> NamedBy(c) = {}
  BY DEF Untargeted, NamedBy, Or

LEMMA SimulationFollows ==
  ASSUME NEW c, DOMAIN c = Fields
  PROVE  Follows(c, CoerceSimulation(c))
  <1> DEFINE d == CoerceSimulation(c)
             updates == Over(c.said.loose, WithTextValues(c.sim, c.said))
             untargeted == c.scope = None /\ Untargeted(c)
  <1>1. CASE c.said = None \/ DOMAIN updates = {}
    BY <1>1, FollowsItself DEF CoerceSimulation
  <1>2. CASE ~(c.said = None \/ DOMAIN updates = {})
    <2>1. /\ DOMAIN d = Fields /\ d.base = c.base /\ d.said = c.said /\ d.line = c.line
          /\ d.lines = IF untargeted THEN {} ELSE c.lines
          /\ d.scope = IF untargeted THEN "ALL_LINES" ELSE c.scope
      BY <1>2 DEF CoerceSimulation, Fields
    <2>2. NamedBy(d) = NamedBy(c)
      BY <2>1 DEF NamedBy, Or, Untargeted
    <2>3. Untargeted(c) => NamedBy(c) = {}
      BY UntargetedNamesNothing
    <2> HIDE DEF d
    <2>4. Follows(c, d)
      BY <2>1, <2>2, <2>3 DEF Follows
    <2> QED
      BY <2>4 DEF d
  <1> QED
    BY <1>1, <1>2

\* What the later steps keep.
Kept(c, d) == d.sim = c.sim /\ Follows(c, d)

LEMMA AtLinesFollows ==
  ASSUME NEW c, DOMAIN c = Fields, c.said # None, c.said.lines \notin {None, {}}
  PROVE  Kept(c, AtLines(c, c.said.lines))
  <1> DEFINE d == AtLines(c, c.said.lines)
  <1>1. /\ DOMAIN d = Fields /\ d.base = c.base /\ d.said = c.said /\ d.sim = c.sim
        /\ d.lines = c.said.lines /\ d.scope = Several(c.said.lines)
        /\ d.line = None \/ d.line \in c.said.lines
    BY DEF AtLines, Fields
  <1>2. NamedBy(d) \subseteq c.said.lines
    BY <1>1 DEF NamedBy, Or
  <1>3. d.scope # "ALL_LINES"
    BY <1>1 DEF Several
  <1>4. NamedBy(d) # {}
    BY <1>1 DEF NamedBy, Or
  <1> HIDE DEF d
  <1>5. Kept(c, d)
    BY <1>1, <1>2, <1>3, <1>4 DEF Kept, Follows, SaidLines
  <1> QED
    BY <1>5 DEF d

LEMMA AtAllLinesFollows ==
  ASSUME NEW c, DOMAIN c = Fields, AllSaid(c)
  PROVE  Kept(c, AtAllLines(c))
  <1>1. /\ DOMAIN AtAllLines(c) = Fields /\ AtAllLines(c).base = c.base
        /\ AtAllLines(c).said = c.said /\ AtAllLines(c).sim = c.sim
        /\ AtAllLines(c).lines = {} /\ AtAllLines(c).line = None
    BY DEF AtAllLines, Fields
  <1>2. NamedBy(AtAllLines(c)) = {}
    BY <1>1 DEF NamedBy, Or
  <1> QED
    BY <1>1, <1>2 DEF Kept, Follows

\* The steps that set no line, and the scope of none but the lines it has.
LEMMA OthersFollow ==
  ASSUME NEW c, NEW d, DOMAIN d = Fields, d.base = c.base, d.said = c.said, d.sim = c.sim,
         d.line = c.line, d.lines = c.lines, d.scope = c.scope
  PROVE  Kept(c, d)
  BY DEF Kept, Follows, NamedBy

LEMMA KeptOn ==
  ASSUME NEW c, NEW d, NEW e, Kept(c, d), Kept(d, e) PROVE Kept(c, e)
  BY FollowsOn DEF Kept

LEMMA AtTextLinesFollows ==
  ASSUME NEW c, DOMAIN c = Fields, c.said # None, Legible(c.said)
  PROVE  Kept(c, AtTextLines(c))
  <1>1. CASE c.lines = None /\ c.said.lines # {}
    BY <1>1, AtLinesFollows DEF AtTextLines, Legible
  <1>2. CASE ~(c.lines = None /\ c.said.lines # {})
    BY <1>2, FollowsItself DEF AtTextLines, Kept
  <1> QED
    BY <1>1, <1>2

LEMMA OrderFollows ==
  ASSUME NEW c, DOMAIN c = Fields, c.said # None, Legible(c.said)
  PROVE  Kept(c, CoerceOrder(c))
  <1> DEFINE order == OrderFromText(Or(c.order, NoOrder), c.said)
             d == [c EXCEPT !.goal = None, !.order = NormalOrder(order),
                            !.kinds = Or(@, {}) \cup {"MANIPULATOR_PRIORITY_UPDATE"}]
  <1>1. DOMAIN d = Fields /\ d.said = c.said /\ Kept(c, d)
    <2>1. /\ DOMAIN d = Fields /\ d.base = c.base /\ d.said = c.said /\ d.sim = c.sim
          /\ d.line = c.line /\ d.lines = c.lines /\ d.scope = c.scope
      BY DEF Fields
    <2> HIDE DEF d
    <2> QED
      BY <2>1, OthersFollow
  <1>2. ASSUME NEW e, DOMAIN e = Fields PROVE Kept(e, Asks(e))
    <2>1. /\ DOMAIN Asks(e) = Fields /\ Asks(e).base = e.base /\ Asks(e).said = e.said
          /\ Asks(e).sim = e.sim /\ Asks(e).line = e.line /\ Asks(e).lines = e.lines
          /\ Asks(e).scope = e.scope
      BY <1>2 DEF Asks, Fields
    <2> QED
      BY <2>1, OthersFollow
  <1>3. Kept(c, c)
    BY FollowsItself DEF Kept
  <1>4. CoerceOrder(c) \in {Asks(c), c, d, Asks(d)}
        \/ (c.said.all # None /\ CoerceOrder(c) = AtAllLines(d))
        \/ (c.said.lines # {} /\ CoerceOrder(c) = AtLines(d, d.said.lines))
    <2>1. d.said = c.said
      BY <1>1
    <2> DEFINE asks == Asks(d)
               all == AtAllLines(d)
               text == AtLines(d, c.said.lines)
    <2>2. CoerceOrder(c) =
            CASE c.said.ambiguous -> Asks(c)
              [] ~c.said.ambiguous /\ ~c.said.grasp -> c
              [] ~c.said.ambiguous /\ c.said.grasp /\ order.policy = None -> Asks(c)
              [] OTHER ->
                   IF c.said.all # None THEN all
                   ELSE IF c.said.lines # {} THEN text
                   ELSE IF Untargeted(c) /\ c.scope # "ALL_LINES" THEN asks ELSE d
      BY DEF CoerceOrder
    <2> HIDE DEF d, order, asks, all, text
    <2>3. CoerceOrder(c) \in {Asks(c), c, d, asks}
          \/ (c.said.all # None /\ CoerceOrder(c) = all)
          \/ (c.said.lines # {} /\ CoerceOrder(c) = text)
      BY <2>2
    <2> QED
      BY <2>1, <2>3 DEF asks, all, text
  <1> HIDE DEF d
  <1>5. Kept(d, Asks(d)) /\ Kept(c, Asks(c))
    BY <1>1, <1>2
  <1>6. c.said.all # None => Kept(d, AtAllLines(d))
    BY <1>1, AtAllLinesFollows DEF AllSaid
  <1>7. c.said.lines # {} => Kept(d, AtLines(d, d.said.lines))
    BY <1>1, AtLinesFollows DEF Legible
  <1> QED
    BY <1>1, <1>3, <1>4, <1>5, <1>6, <1>7, KeptOn

LEMMA TargetSetFollows ==
  ASSUME NEW c, DOMAIN c = Fields, c.said # None, Legible(c.said)
  PROVE  Kept(c, CoerceTargetSet(c))
  <1> DEFINE d == [c EXCEPT !.set = Or(@, c.said.set),
                            !.goal = IF c.said.goal THEN @ ELSE None,
                            !.kinds = Or(@, {}) \cup {"TOOLING_POLICY_UPDATE"}]
  <1>1. /\ DOMAIN d = Fields /\ d.base = c.base /\ d.said = c.said /\ d.sim = c.sim
        /\ d.line = c.line /\ d.lines = c.lines /\ d.scope = c.scope
    BY DEF Fields
  <1>2. CoerceTargetSet(c) = IF c.said.set = None \/ ~c.said.use THEN c
                             ELSE IF c.said.all = "LINES" THEN AtAllLines(d) ELSE AtTextLines(d)
    BY DEF CoerceTargetSet
  <1> HIDE DEF d
  <1>3. Kept(c, d) /\ Kept(c, c)
    BY <1>1, OthersFollow, FollowsItself DEF Kept
  <1>4. Kept(d, AtTextLines(d))
    BY <1>1, AtTextLinesFollows
  <1>5. c.said.all # None => Kept(d, AtAllLines(d))
    BY <1>1, AtAllLinesFollows DEF AllSaid
  <1>6. c.said.all = "LINES" => c.said.all # None
    BY RequestAssumption
  <1> QED
    BY <1>2, <1>3, <1>4, <1>5, <1>6, KeptOn

LEMMA RemovalFollows ==
  ASSUME NEW c, DOMAIN c = Fields, c.said # None, Legible(c.said)
  PROVE  Kept(c, CoerceRemoval(c))
  <1> DEFINE types == Or(c.excludedTypes, {}) \cup Range(c.said.types)
             d == [c EXCEPT !.excludedTypes = types, !.excluded = Or(@, ToolsOf(types)),
                            !.kinds = Or(@, {}) \cup {"INSTRUMENT_SCOPE_UPDATE"}]
  <1>1. /\ DOMAIN d = Fields /\ d.base = c.base /\ d.said = c.said /\ d.sim = c.sim
        /\ d.line = c.line /\ d.lines = c.lines /\ d.scope = c.scope
    BY DEF Fields
  <1>2. CoerceRemoval(c) = IF ~c.said.removes \/ c.said.types = <<>> THEN c ELSE AtTextLines(d)
    BY DEF CoerceRemoval
  <1> HIDE DEF d
  <1>3. Kept(c, d) /\ Kept(c, c)
    BY <1>1, OthersFollow, FollowsItself DEF Kept
  <1>4. Kept(d, AtTextLines(d))
    BY <1>1, AtTextLinesFollows
  <1> QED
    BY <1>2, <1>3, <1>4, KeptOn

LEMMA TextFollows ==
  ASSUME NEW c, DOMAIN c = Fields, Legible(c.said)
  PROVE  Kept(c, CoerceText(c))
  <1>1. CASE c.said = None \/ SimulationOnly(c)
    BY <1>1, FollowsItself DEF CoerceText, Kept
  <1>2. CASE ~(c.said = None \/ SimulationOnly(c))
    <2> DEFINE d == CoerceOrder(c)
               e == CoerceTargetSet(d)
    <2>1. Kept(c, d) /\ DOMAIN d = Fields /\ d.said = c.said
      BY <1>2, OrderFollows DEF Kept, Follows
    <2> HIDE DEF d
    <2>2. Kept(d, e) /\ DOMAIN e = Fields /\ e.said = c.said
      BY <1>2, <2>1, TargetSetFollows DEF Kept, Follows
    <2> HIDE DEF e
    <2>3. Kept(e, CoerceRemoval(e))
      BY <1>2, <2>2, RemovalFollows
    <2>4. CoerceText(c) = CoerceRemoval(e)
      BY <1>2 DEF CoerceText, e, d
    <2> QED
      BY <2>1, <2>2, <2>3, <2>4, KeptOn
  <1> QED
    BY <1>1, <1>2

LEMMA ToolsFollow ==
  ASSUME NEW c, DOMAIN c = Fields PROVE Kept(c, WithTools(c)) /\ WithTools(c).kpi = c.kpi
  <1>1. /\ DOMAIN WithTools(c) = Fields /\ WithTools(c).base = c.base
        /\ WithTools(c).said = c.said /\ WithTools(c).sim = c.sim
        /\ WithTools(c).line = c.line /\ WithTools(c).lines = c.lines
        /\ WithTools(c).scope = c.scope /\ WithTools(c).kpi = c.kpi
    BY DEF WithTools, Fields
  <1> QED
    BY <1>1, OthersFollow

LEMMA KindsFollow ==
  ASSUME NEW c, DOMAIN c = Fields PROVE Kept(c, WithKinds(c))
  <1>1. /\ DOMAIN WithKinds(c) = Fields /\ WithKinds(c).base = c.base
        /\ WithKinds(c).said = c.said /\ WithKinds(c).sim = c.sim
        /\ WithKinds(c).line = c.line /\ WithKinds(c).lines = c.lines
        /\ WithKinds(c).scope = c.scope
    BY DEF WithKinds, Fields
  <1> QED
    BY <1>1, OthersFollow

LEMMA LineFollows ==
  ASSUME NEW c, DOMAIN c = Fields PROVE Kept(c, AtItsLine(c))
  <1>1. CASE c.line = None
    BY <1>1, FollowsItself DEF AtItsLine, Kept
  <1>2. CASE c.line # None
    <2> DEFINE d == AtItsLine(c)
    <2>1. /\ DOMAIN d = Fields /\ d.base = c.base /\ d.said = c.said /\ d.sim = c.sim
          /\ d.line = c.line /\ d.lines = Or(c.lines, {c.line})
          /\ d.scope = Or(c.scope, "SINGLE_LINE")
      BY <1>2 DEF AtItsLine, Fields
    <2>2. NamedBy(d) = NamedBy(c)
      <3>1. c.lines = None => d.lines = {c.line}
        BY <2>1 DEF Or
      <3>2. c.lines # None => d.lines = c.lines
        BY <2>1 DEF Or
      <3> HIDE DEF d
      <3> QED
        BY <1>2, <2>1, <3>1, <3>2 DEF NamedBy, Or
    <2>3. d.scope = "ALL_LINES" => c.scope = "ALL_LINES"
      BY <2>1 DEF Or
    <2> HIDE DEF d
    <2>4. Kept(c, d)
      BY <2>1, <2>2, <2>3 DEF Kept, Follows
    <2> QED
      BY <2>4 DEF d
  <1> QED
    BY <1>1, <1>2

\* The completed candidate follows the candidate; only the first step adds values.
LEMMA CoercedFollows ==
  ASSUME NEW c, DOMAIN c = Fields, Legible(c.said)
  PROVE  Follows(c, Coerced(c)) /\ Coerced(c).sim = CoerceSimulation(c).sim
  <1> DEFINE c1 == CoerceSimulation(c)
             c2 == CoerceText(c1)
             c3 == WithTools(c2)
             c4 == AtItsLine(c3)
             c5 == WithKinds(c4)
  <1>0. Coerced(c) = c5
    BY DEF Coerced
  <1>1. Follows(c, c1) /\ DOMAIN c1 = Fields /\ c1.said = c.said
    BY SimulationFollows DEF Follows
  <1> HIDE DEF c1
  <1>2. Kept(c1, c2) /\ DOMAIN c2 = Fields
    BY <1>1, TextFollows DEF Kept, Follows
  <1> HIDE DEF c2
  <1>3. Kept(c2, c3) /\ DOMAIN c3 = Fields
    BY <1>2, ToolsFollow DEF Kept, Follows
  <1> HIDE DEF c3
  <1>4. Kept(c3, c4) /\ DOMAIN c4 = Fields
    BY <1>3, LineFollows DEF Kept, Follows
  <1> HIDE DEF c4
  <1>5. Kept(c4, c5)
    BY <1>4, KindsFollow
  <1> HIDE DEF c5
  <1>6. Kept(c1, c5)
    BY <1>2, <1>3, <1>4, <1>5, KeptOn
  <1>7. Follows(c, c5) /\ c5.sim = c1.sim
    BY <1>1, <1>6, FollowsOn DEF Kept
  <1> QED
    BY <1>0, <1>7 DEF c1

\* A request that sets nothing but the throughput targets of its lines.
SetsOnlyKpi(c) ==
  /\ c.order = None /\ c.policy = None /\ c.goal = None /\ c.priority = None /\ c.set = None
  /\ c.selected = None /\ c.selectedTypes = None /\ c.excluded = None /\ c.required = None
  /\ c.allowed = None /\ c.barred = None /\ c.strategy = None
KpiRequest(c) == c.said = None /\ c.excludedTypes = None /\ SetsOnlyKpi(c)

LEMMA KpiRequestCoerced ==
  ASSUME NEW c, DOMAIN c = Fields, KpiRequest(c) PROVE SetsOnlyKpi(Coerced(c))
  <1>1. CoerceSimulation(c) = c
    BY DEF CoerceSimulation, KpiRequest
  <1>2. CoerceText(c) = c
    BY DEF CoerceText, KpiRequest
  <1> DEFINE d == WithTools(c)
             e == AtItsLine(d)
  <1>3. Coerced(c) = WithKinds(e)
    BY <1>1, <1>2 DEF Coerced
  <1>4. Policy(c) = None
    BY RequestAssumption DEF Policy, KpiRequest, SetsOnlyKpi
  <1>5. DOMAIN d = Fields /\ SetsOnlyKpi(d)
    <2>1. d.policy = None
      BY <1>4 DEF WithTools, Fields
    <2>2. d.selected = None
      BY <1>4, RequestAssumption DEF WithTools, Fields, KpiRequest, SetsOnlyKpi, Or
    <2>3. d.excluded = None
      BY <1>4, RequestAssumption DEF WithTools, Fields, KpiRequest, SetsOnlyKpi, Or
    <2>4. DOMAIN d = Fields /\ d.order = c.order /\ d.goal = c.goal /\ d.priority = c.priority
          /\ d.set = c.set /\ d.selectedTypes = c.selectedTypes /\ d.required = c.required
          /\ d.allowed = c.allowed /\ d.barred = c.barred /\ d.strategy = c.strategy
      BY DEF WithTools, Fields
    <2> HIDE DEF d
    <2> QED
      BY <2>1, <2>2, <2>3, <2>4 DEF KpiRequest, SetsOnlyKpi
  <1> HIDE DEF d
  <1>6. DOMAIN e = Fields /\ SetsOnlyKpi(e)
    BY <1>5 DEF AtItsLine, SetsOnlyKpi, Fields
  <1> HIDE DEF e
  <1>7. SetsOnlyKpi(WithKinds(e))
    BY <1>6 DEF WithKinds, SetsOnlyKpi, Fields
  <1> QED
    BY <1>3, <1>7

-----------------------------------------------------------------------------
(***************************************************************************)
(* The operations of a patch.                                              *)
(***************************************************************************)

\* What an operation of a completed request on line l may write.
Writes(c, l, now, o) ==
  /\ o.line = l
  /\ o.field = "excluded" => now.excluded \subseteq o.value
  /\ o.field = "kpi" => c.kpi # None
  /\ o.field = "policy" => c.policy # None
  /\ SetsOnlyKpi(c) => o.field = "kpi"

LEMMA PutSeq ==
  ASSUME NEW T, NEW l, NEW field, NEW value,
         value # None => [line |-> l, field |-> field, value |-> value] \in T
  PROVE  Put(l, field, value) \in Seq(T)
  BY DEF Put

LEMMA OperationsSeq ==
  ASSUME NEW c, NEW l, NEW now
  PROVE  /\ OperationsOf(c, l, now) \in Seq(Range(OperationsOf(c, l, now)))
         /\ \A o \in Range(OperationsOf(c, l, now)) : Writes(c, l, now, o)
  <1> DEFINE op(field, value) == [line |-> l, field |-> field, value |-> value]
             without(tools) == IF c.excluded = None \/ tools = {} THEN None
                               ELSE tools \ Exclusion(c, now)
             v1 == IF c.order = None THEN None ELSE NormalOrder(c.order)
             v2 == Exclusion(c, now)
             v3 == without(now.selected)
             v4 == without(now.required)
             All == {op("order", v1), op("policy", c.policy), op("goal", c.goal),
                     op("priority", c.priority), op("set", c.set), op("selected", c.selected),
                     op("selectedTypes", c.selectedTypes), op("excluded", v2),
                     op("selected", v3), op("required", v4), op("required", c.required),
                     op("allowed", c.allowed), op("barred", c.barred), op("kpi", c.kpi),
                     op("strategy", c.strategy)}
             T == {o \in All : o.value # None}
             ops == OperationsOf(c, l, now)
  <1>1. ASSUME NEW o \in T PROVE Writes(c, l, now, o)
    <2>1. v2 # None => now.excluded \subseteq v2
      BY DEF Exclusion
    <2>2. SetsOnlyKpi(c) => v1 = None /\ v2 = None /\ v3 = None /\ v4 = None
      BY DEF SetsOnlyKpi, Exclusion
    <2> HIDE DEF v1, v2, v3, v4
    <2> QED
      BY <1>1, <2>1, <2>2 DEF Writes, SetsOnlyKpi
  <1>2. /\ Put(l, "order", v1) \in Seq(T) /\ Put(l, "policy", c.policy) \in Seq(T)
        /\ Put(l, "goal", c.goal) \in Seq(T) /\ Put(l, "priority", c.priority) \in Seq(T)
        /\ Put(l, "set", c.set) \in Seq(T) /\ Put(l, "selected", c.selected) \in Seq(T)
        /\ Put(l, "selectedTypes", c.selectedTypes) \in Seq(T)
        /\ Put(l, "excluded", v2) \in Seq(T) /\ Put(l, "selected", v3) \in Seq(T)
        /\ Put(l, "required", v4) \in Seq(T) /\ Put(l, "required", c.required) \in Seq(T)
        /\ Put(l, "allowed", c.allowed) \in Seq(T) /\ Put(l, "barred", c.barred) \in Seq(T)
        /\ Put(l, "kpi", c.kpi) \in Seq(T) /\ Put(l, "strategy", c.strategy) \in Seq(T)
    <2> HIDE DEF v1, v2, v3, v4
    <2>1. ASSUME NEW f, NEW v, op(f, v) \in All PROVE Put(l, f, v) \in Seq(T)
      <3>1. v # None => op(f, v) \in T
        BY <2>1
      <3> HIDE DEF T
      <3> QED
        BY <3>1, PutSeq
    <2>2. /\ op("order", v1) \in All /\ op("policy", c.policy) \in All
          /\ op("goal", c.goal) \in All /\ op("priority", c.priority) \in All
          /\ op("set", c.set) \in All /\ op("selected", c.selected) \in All
          /\ op("selectedTypes", c.selectedTypes) \in All /\ op("excluded", v2) \in All
          /\ op("selected", v3) \in All /\ op("required", v4) \in All
          /\ op("required", c.required) \in All /\ op("allowed", c.allowed) \in All
          /\ op("barred", c.barred) \in All /\ op("kpi", c.kpi) \in All
          /\ op("strategy", c.strategy) \in All
      OBVIOUS
    <2> HIDE DEF T, All, op
    <2> QED
      BY <2>1, <2>2
  <1>3. ops \in Seq(T)
    <2>1. \A x, y \in Seq(T) : x \o y \in Seq(T)
      OBVIOUS
    <2>2. ops = Put(l, "order", v1)
                \o Put(l, "policy", c.policy) \o Put(l, "goal", c.goal)
                \o Put(l, "priority", c.priority) \o Put(l, "set", c.set)
                \o Put(l, "selected", c.selected) \o Put(l, "selectedTypes", c.selectedTypes)
                \o Put(l, "excluded", v2) \o Put(l, "selected", v3) \o Put(l, "required", v4)
                \o Put(l, "required", c.required)
                \o Put(l, "allowed", c.allowed) \o Put(l, "barred", c.barred)
                \o Put(l, "kpi", c.kpi) \o Put(l, "strategy", c.strategy)
      BY DEF OperationsOf
    <2> HIDE DEF T, ops, v1, v2, v3, v4
    <2> QED
      BY <1>2, <2>1, <2>2
  <1> HIDE DEF T, ops
  <1>4. ops \in Seq(Range(ops)) /\ \A o \in Range(ops) : o \in T
    BY <1>3 DEF Range
  <1> QED
    BY <1>1, <1>4 DEF ops

\* What an operation of the patch for a request p may write, on which line.
Written(p, now, o) ==
  /\ o.line \in Lines
  /\ o.field = "excluded" => now.trt[o.line].excluded \subseteq o.value
  /\ o.line \notin NamedBy(p) \cup SaidLines(p) =>
       /\ p.scope = "ALL_LINES" \/ AllSaid(p) \/ NamedBy(p) = {}
       /\ ~(o.field \in {"kpi", "policy"} /\ mode[o.line] = "ERROR")
  /\ KpiRequest(p) => o.field = "kpi"

LEMMA TargetsNamed ==
  ASSUME NEW d, NEW now, Valid(d, now)
  PROVE  /\ Targets(d) \subseteq Lines
         /\ d.scope # "ALL_LINES" => Targets(d) \subseteq NamedBy(d)
  <1>1. CASE d.scope = "ALL_LINES"
    BY <1>1 DEF Targets
  <1>2. CASE d.scope # "ALL_LINES"
    <2>1. Targets(d) \subseteq NamedBy(d)
      BY <1>2 DEF Targets, NamedBy, Or
    <2>2. NamedBy(d) \subseteq Lines
      BY DEF Valid, NamedBy
    <2> QED
      BY <1>2, <2>1, <2>2
  <1> QED
    BY <1>1, <1>2

\* An operation of the completed request is one of the request.
LEMMA WritesWritten ==
  ASSUME NEW p, NEW now, DOMAIN p = Fields, Legible(p.said), Valid(Coerced(p), now),
         NEW l \in Targets(Coerced(p)), NEW o, Writes(Coerced(p), l, now.trt[l], o)
  PROVE  Written(p, now, o)
  <1> DEFINE d == Coerced(p)
  <1>1. Follows(p, d)
    BY CoercedFollows
  <1>2. l \in Lines /\ (d.scope # "ALL_LINES" => l \in NamedBy(d))
    BY TargetsNamed
  <1>3. KpiRequest(p) => SetsOnlyKpi(d)
    BY KpiRequestCoerced
  <1>4. d.scope = "ALL_LINES" /\ (d.policy # None \/ d.kpi # None) => mode[l] # "ERROR"
    BY <1>2 DEF Valid, SweepsErrorLine
  <1>5. o.line = l /\ (o.field = "kpi" => d.kpi # None) /\ (o.field = "policy" => d.policy # None)
    BY DEF Writes
  <1>6. (o.field = "excluded" => now.trt[l].excluded \subseteq o.value)
        /\ (SetsOnlyKpi(d) => o.field = "kpi")
    BY DEF Writes
  <1> HIDE DEF d
  <1> QED
    BY <1>1, <1>2, <1>3, <1>4, <1>5, <1>6 DEF Written, Follows

\* The patch for a request: for the version it was made of, on its lines.
LEMMA PatchOfPart ==
  ASSUME NEW p, NEW now, DOMAIN p = Fields, Legible(p.said), NormalizedPart(p, now) # None
  PROVE  LET patch == NormalizedPart(p, now) IN
         /\ patch.base = now.version /\ p.base = now.version
         /\ patch.sim = CoerceSimulation(p).sim
         /\ patch.ops \in Seq(Range(patch.ops))
         /\ \A o \in Range(patch.ops) : Written(p, now, o)
  <1> DEFINE d == Coerced(p)
             simulation == "SIMULATION_CONFIG_UPDATE" \in d.kinds /\ ~Drives(d)
             n == Cardinality(Targets(d))
             line == SetToSeq(Targets(d))
             perLine == [l \in Lines |-> OperationsOf(d, l, now.trt[l])]
             ss == [i \in 1 .. n |-> perLine[line[i]]]
             ops == IF simulation THEN <<>> ELSE FlattenSeq(ss)
             patch == NormalizedPart(p, now)
  <1>1. Valid(d, now) /\ patch = [base |-> now.version, sim |-> d.sim, ops |-> ops]
    <2>1. patch = PatchOf(d, now) /\ patch # None
      BY DEF NormalizedPart
    <2> HIDE DEF patch, d
    <2> QED
      BY <2>1 DEF PatchOf
  <1>2. d.sim = CoerceSimulation(p).sim /\ d.base = p.base
    BY CoercedFollows DEF Follows
  <1>3. p.base = now.version
    BY <1>1, <1>2 DEF Valid
  <1>4. Targets(d) \subseteq Lines
    BY <1>1, TargetsNamed
  <1>5. n \in Nat /\ line \in [1 .. n -> Targets(d)]
    <2>1. IsFiniteSet(Targets(d))
      BY <1>4, LinesAssumption, FS_Subset
    <2> QED
      BY <2>1, SortedSet
  <1> HIDE DEF d, n, line
  <1>6. \A i \in 1 .. n : line[i] \in Targets(d) /\ ss[i] = OperationsOf(d, line[i], now.trt[line[i]])
    BY <1>4, <1>5
  <1>7. ops \in Seq(Range(ops)) /\ \A o \in Range(ops) : Written(p, now, o)
    <2>1. CASE simulation
      <3>1. ops = <<>>
        BY <2>1
      <3> HIDE DEF ops
      <3> QED
        BY <3>1 DEF Range
    <2>2. CASE ~simulation
      <3>1. \A i \in 1 .. n : ss[i] \in Seq(Range(ss[i]))
        <4> HIDE DEF ss
        <4> QED
          BY <1>6, OperationsSeq
      <3>2. ss = [i \in 1 .. n |-> ss[i]]
        OBVIOUS
      <3>3. ops = FlattenSeq(ss)
        BY <2>2
      <3> HIDE DEF ss, ops
      <3>4. ops \in Seq(Range(ops))
            /\ \A k \in DOMAIN ops : \E i \in 1 .. n : ops[k] \in Range(ss[i])
        BY <1>5, <3>1, <3>2, <3>3, FlattenedElements
      <3>5. ASSUME NEW i \in 1 .. n, NEW o \in Range(ss[i]) PROVE Written(p, now, o)
        <4>1. line[i] \in Targets(d) /\ Writes(d, line[i], now.trt[line[i]], o)
          BY <1>6, <3>5, OperationsSeq
        <4> QED
          BY <1>1, <4>1, WritesWritten DEF d
      <3> QED
        BY <3>4, <3>5 DEF Range
    <2> QED
      BY <2>1, <2>2
  <1> HIDE DEF patch, ops
  <1> QED
    BY <1>1, <1>2, <1>3, <1>7 DEF patch

-----------------------------------------------------------------------------
(***************************************************************************)
(* Composites: the parts, their completion, and the joint patch.           *)
(***************************************************************************)

LEMMA FormedFields ==
  ASSUME NEW c, Formed(c) PROVE DOMAIN c = Fields /\ Legible(c.said)
  BY FieldsOfPart DEF Formed, Readable

\* Every part q of an expanded request is a part of the request, but for a scope
\* from the lines it names, or sets throughput on lines the request names.
PartOf(c, q) ==
  /\ DOMAIN q = Fields /\ Legible(q.said)
  /\ \/ KpiRequest(q) /\ q.kinds = {"KPI_LIMIT_UPDATE"} /\ NamedBy(q) \subseteq NamedBy(c) \cup Or(c.kpiLines, {})
        /\ q.said = None /\ DOMAIN q.sim = {}
     \/ \E p \in Parts(c) :
          /\ q.said = p.said /\ q.sim = p.sim
          /\ NamedBy(q) = NamedBy(p)
          /\ q.scope = "ALL_LINES" => p.scope = "ALL_LINES"

LEMMA ExpandedRequest ==
  ASSUME NEW c, FormedRequest(c)
  PROVE  LET e == Expanded(c) IN
         /\ DOMAIN e = Fields /\ e.said = c.said /\ e.base = c.base
         /\ e.parts \in Seq(Range(e.parts))
         /\ e.parts = <<>> => Parts(c) = {} /\ NamedBy(e) = NamedBy(c) /\ e.scope = c.scope
         /\ e.sim = IF DOMAIN c.sim = {} THEN c.sim ELSE WithTextValues(c.sim, c.said)
         /\ \A q \in Range(e.parts) : PartOf(c, q)
  <1> DEFINE e == Expanded(c)
             kpiPart == [Part EXCEPT !.kinds = {"KPI_LIMIT_UPDATE"}, !.kpi = c.kpi,
                                     !.lines = Or(c.kpiLines, c.lines),
                                     !.scope = Or(c.kpiScope, Or(c.scope, "ALL_LINES"))]
             kpi == IF c.kpi = None THEN <<>> ELSE <<kpiPart>>
             scoped(u) == [u EXCEPT !.scope = IF @ = None /\ NonEmpty(Or(u.lines, {})) # None
                                              THEN Several(u.lines) ELSE @]
             ups == [i \in DOMAIN c.updates |-> scoped(c.updates[i])]
             compact == kpi \o ups
             d == [c EXCEPT !.sim = IF DOMAIN @ = {} THEN @ ELSE WithTextValues(@, c.said)]
  <1>1. e = IF c.parts # <<>> \/ compact = <<>> THEN d
            ELSE [d EXCEPT !.parts = compact, !.kpi = None, !.updates = <<>>]
    BY DEF Expanded
  <1>2. /\ DOMAIN c = Fields /\ Legible(c.said)
        /\ c.parts \in Seq(Range(c.parts)) /\ c.updates \in Seq(Range(c.updates))
    BY FormedFields DEF FormedRequest, Formed
  <1>3. /\ DOMAIN d = Fields /\ d.said = c.said /\ d.base = c.base /\ d.parts = c.parts
        /\ d.lines = c.lines /\ d.line = c.line /\ d.scope = c.scope
        /\ d.sim = IF DOMAIN c.sim = {} THEN c.sim ELSE WithTextValues(c.sim, c.said)
    BY <1>2 DEF Fields
  <1>4. PartOf(c, kpiPart)
    <2>1. /\ DOMAIN kpiPart = Fields /\ kpiPart.said = None /\ kpiPart.sim = <<>>
          /\ kpiPart.line = None /\ kpiPart.lines = Or(c.kpiLines, c.lines)
          /\ KpiRequest(kpiPart) /\ kpiPart.kinds = {"KPI_LIMIT_UPDATE"}
      BY DEF Part, Fields, KpiRequest, SetsOnlyKpi
    <2>2. NamedBy(kpiPart) \subseteq NamedBy(c) \cup Or(c.kpiLines, {})
      <3> HIDE DEF kpiPart
      <3> QED
        BY <2>1 DEF NamedBy, Or
    <2>3. DOMAIN kpiPart.sim = {}
      BY <2>1
    <2> HIDE DEF kpiPart
    <2> QED
      BY <2>1, <2>2, <2>3 DEF PartOf, Legible
  <1>5. ASSUME NEW p \in Parts(c) PROVE PartOf(c, p) /\ PartOf(c, scoped(p))
    <2>1. DOMAIN p = Fields /\ Legible(p.said)
      BY FormedFields DEF FormedRequest
    <2>2. PartOf(c, p)
      BY <2>1 DEF PartOf
    <2>3. /\ DOMAIN scoped(p) = Fields /\ scoped(p).said = p.said /\ scoped(p).sim = p.sim
          /\ scoped(p).line = p.line /\ scoped(p).lines = p.lines
          /\ scoped(p).scope = "ALL_LINES" => p.scope = "ALL_LINES"
      BY <2>1 DEF Fields, Several
    <2> HIDE DEF scoped
    <2>5. NamedBy(scoped(p)) = NamedBy(p)
      BY <2>3 DEF NamedBy
    <2>6. PartOf(c, scoped(p))
      BY <2>1, <2>3, <2>5 DEF PartOf
    <2> QED
      BY <2>2, <2>6
  <1>6. Range(c.parts) \subseteq Parts(c) /\ Range(c.updates) \subseteq Parts(c)
    BY DEF Parts
  <1> DEFINE T == {kpiPart} \cup {scoped(p) : p \in Parts(c)}
  <1>7. kpi \in Seq(T) /\ ups \in Seq(T)
    <2>1. kpi \in Seq(T)
      <3>1. kpiPart \in T
        OBVIOUS
      <3> HIDE DEF kpiPart, T
      <3> QED
        BY <3>1
    <2>2. ups \in Seq(T)
      <3>1. \A i \in 1 .. Len(c.updates) : c.updates[i] \in Parts(c)
        BY <1>2, <1>6 DEF Range
      <3>2. \A i \in 1 .. Len(c.updates) : scoped(c.updates[i]) \in T
        BY <3>1
      <3>3. Len(c.updates) \in Nat /\ DOMAIN c.updates = 1 .. Len(c.updates)
        BY <1>2
      <3> HIDE DEF T, scoped
      <3> QED
        BY <3>2, <3>3
    <2> QED
      BY <2>1, <2>2
  <1>8. \A q \in T : PartOf(c, q)
    BY <1>4, <1>5
  <1>9. compact \in Seq(Range(compact)) /\ \A q \in Range(compact) : PartOf(c, q)
    <2>1. compact \in Seq(T)
      <3> HIDE DEF T, kpi, ups
      <3> QED
        BY <1>7
    <2> HIDE DEF T, compact
    <2> QED
      BY <1>8, <2>1 DEF Range
  <1>10. compact = <<>> => Range(c.updates) = {}
    <2>1. Len(ups) = Len(c.updates) /\ DOMAIN c.updates = 1 .. Len(c.updates)
      BY <1>2
    <2>2. compact = <<>> => Len(ups) = 0
      <3> HIDE DEF T, kpi, ups
      <3>1. Len(kpi \o ups) = Len(kpi) + Len(ups) /\ Len(kpi) \in Nat /\ Len(ups) \in Nat
        BY <1>7
      <3> QED
        BY <3>1
    <2> HIDE DEF compact, ups
    <2> QED
      BY <2>1, <2>2 DEF Range
  <1> HIDE DEF compact
  <1>11. CASE c.parts # <<>> \/ compact = <<>>
    <2>1. e = d
      BY <1>1, <1>11
    <2> HIDE DEF d, e
    <2>2. c.parts = <<>> => Parts(c) = {}
      BY <1>10, <1>11 DEF Parts, Range
    <2>3. NamedBy(d) = NamedBy(c)
      BY <1>3 DEF NamedBy
    <2> QED
      BY <1>2, <1>3, <1>5, <1>6, <2>1, <2>2, <2>3 DEF e
  <1>12. CASE ~(c.parts # <<>> \/ compact = <<>>)
    <2> HIDE DEF d
    <2>1. /\ DOMAIN e = Fields /\ e.said = d.said /\ e.base = d.base /\ e.parts = compact
          /\ e.sim = d.sim
      BY <1>1, <1>3, <1>12 DEF Fields
    <2> HIDE DEF e
    <2> QED
      BY <1>3, <1>9, <1>12, <2>1 DEF e
  <1> QED
    BY <1>11, <1>12

\* The completed part: on the lines of the part, and of the clauses of the text.
LEMMA CompletedPart ==
  ASSUME NEW c, Readable(c.said), NEW p, DOMAIN p = Fields, Legible(p.said)
  PROVE  LET q == PartCandidate(c, RepairedPart(c, p)) IN
         /\ DOMAIN q = Fields /\ Legible(q.said) /\ q.base = c.base
         /\ NamedBy(q) = NamedBy(p) /\ q.scope = p.scope
         /\ SaidLines(q) \subseteq SaidLines(p) \cup SaidLines(c)
         /\ AllSaid(q) => AllSaid(p) \/ AllSaid(c)
         /\ KpiRequest(p) /\ p.kinds = {"KPI_LIMIT_UPDATE"} => KpiRequest(q)
         /\ q.said \in {p.said} \cup (IF c.said = None THEN {} ELSE {c.said.target, c.said.order})
         /\ \/ q.sim = p.sim
            \/ q.sim = WithTextValues(p.sim, Or(q.said, c.said))
  <1> DEFINE r == RepairedPart(c, p)
             q == PartCandidate(c, r)
             clauses == IF c.said = None THEN {} ELSE {c.said.target, c.said.order}
             tooling == IF c.said = None THEN None ELSE c.said.target
             picking == IF c.said = None THEN None ELSE c.said.order
  <1>1. /\ DOMAIN r = Fields /\ r.base = p.base /\ r.sim = p.sim /\ r.kinds = p.kinds
        /\ r.line = p.line /\ r.lines = p.lines /\ r.scope = p.scope
        /\ r.said = p.said \/ (r.said \in clauses /\ r.said # None)
    <2>1. r = p \/ (tooling # None /\ r = [p EXCEPT !.said = tooling,
                                !.selectedTypes = Range(tooling.types),
                                !.policy = "SELECTED_TOOLING", !.order = None])
          \/ (picking # None /\ \E o : r = [p EXCEPT !.said = picking, !.order = o])
      BY DEF RepairedPart
    <2> HIDE DEF r
    <2>2. (tooling # None => tooling \in clauses) /\ (picking # None => picking \in clauses)
      OBVIOUS
    <2> HIDE DEF tooling, picking, clauses
    <2> QED
      BY <2>1, <2>2 DEF Fields
  <1>2. p.kinds = {"KPI_LIMIT_UPDATE"} => r = p
    BY DEF RepairedPart
  <1>3. Legible(r.said)
        /\ SaidLines(r) \subseteq SaidLines(p) \cup SaidLines(c)
        /\ (AllSaid(r) => AllSaid(p) \/ AllSaid(c))
    <2> HIDE DEF r
    <2>1. \A t \in clauses : Legible(t) /\ c.said # None
                /\ (t # None => t.lines \subseteq c.said.lines /\ (t.all # None => c.said.all # None))
      BY DEF Readable, ClauseOf
    <2> HIDE DEF clauses
    <2> QED
      BY <1>1, <2>1 DEF SaidLines, AllSaid
  <1> HIDE DEF r
  <1>4. /\ DOMAIN q = Fields /\ q.said = r.said /\ q.base = c.base
        /\ q.line = r.line /\ q.lines = r.lines /\ q.scope = r.scope
        /\ q.sim = IF "SIMULATION_CONFIG_UPDATE" \in r.kinds
                   THEN WithTextValues(r.sim, Or(r.said, c.said)) ELSE r.sim
    BY <1>1 DEF PartCandidate, Fields
  <1>5. KpiRequest(r) => KpiRequest(q)
    <2> SUFFICES ASSUME KpiRequest(r) PROVE KpiRequest(q)
      OBVIOUS
    <2>1. NonEmpty(r.selectedTypes) = None /\ NonEmpty(r.selected) = None
      BY DEF NonEmpty, KpiRequest, SetsOnlyKpi
    <2>2. q.policy = r.policy /\ q.selected = None /\ q.selectedTypes = None
      BY <1>1, <2>1 DEF PartCandidate, Fields
    <2>3. /\ q.said = r.said /\ q.excludedTypes = r.excludedTypes /\ q.order = r.order
          /\ q.goal = r.goal /\ q.priority = r.priority /\ q.set = r.set
          /\ q.excluded = r.excluded /\ q.required = r.required /\ q.allowed = r.allowed
          /\ q.barred = r.barred /\ q.strategy = r.strategy
      BY <1>1 DEF PartCandidate, Fields
    <2> HIDE DEF q
    <2> QED
      BY <2>2, <2>3 DEF KpiRequest, SetsOnlyKpi
  <1> HIDE DEF q, clauses
  <1>6. NamedBy(q) = NamedBy(p) /\ SaidLines(q) = SaidLines(r) /\ (AllSaid(q) <=> AllSaid(r))
    BY <1>1, <1>4 DEF NamedBy, SaidLines, AllSaid
  <1> QED
    BY <1>1, <1>2, <1>3, <1>4, <1>5, <1>6 DEF r, q, clauses

\* What an operation of the reviewed patch for a request c may write.
WrittenFor(c, now, o) ==
  /\ o.line \in Lines
  /\ o.field = "excluded" => now.trt[o.line].excluded \subseteq o.value
  /\ o.line \notin Named(c) =>
       /\ ~(o.field \in {"kpi", "policy"} /\ mode[o.line] = "ERROR")
       /\ Targeted(c) => o.field = "kpi"

LEMMA NamedParts ==
  ASSUME NEW c, NEW r, r = c \/ r \in Parts(c)
  PROVE  NamedBy(r) \cup SaidLines(r) \cup Or(r.kpiLines, {}) \subseteq Named(c)
  <1>1. r \in Requests(c) \cup {c}
    BY DEF Requests
  <1> QED
    BY <1>1 DEF Named

LEMMA PartWrites ==
  ASSUME NEW c, NEW e, e.said = c.said, Readable(c.said), NEW p, PartOf(c, p), NEW now, NEW o,
         Written(PartCandidate(e, RepairedPart(e, p)), now, o)
  PROVE  WrittenFor(c, now, o)
  <1> DEFINE q == PartCandidate(e, RepairedPart(e, p))
  <1>1. /\ NamedBy(q) = NamedBy(p) /\ q.scope = p.scope
        /\ SaidLines(q) \subseteq SaidLines(p) \cup SaidLines(e)
        /\ AllSaid(q) => AllSaid(p) \/ AllSaid(e)
        /\ KpiRequest(p) /\ p.kinds = {"KPI_LIMIT_UPDATE"} => KpiRequest(q)
    BY CompletedPart DEF PartOf
  <1>2. SaidLines(e) = SaidLines(c) /\ (AllSaid(e) <=> AllSaid(c))
    BY DEF SaidLines, AllSaid
  <1>3. NamedBy(c) \cup SaidLines(c) \cup Or(c.kpiLines, {}) \subseteq Named(c)
    BY NamedParts
  <1> HIDE DEF q
  <1>4. CASE /\ KpiRequest(p) /\ p.kinds = {"KPI_LIMIT_UPDATE"} /\ p.said = None
             /\ NamedBy(p) \subseteq NamedBy(c) \cup Or(c.kpiLines, {})
    <2>1. NamedBy(q) \cup SaidLines(q) \subseteq Named(c)
      BY <1>1, <1>2, <1>3, <1>4 DEF SaidLines
    <2> QED
      BY <1>1, <1>4, <2>1 DEF Written, WrittenFor, q
  <1>5. ASSUME NEW r \in Parts(c), p.said = r.said, NamedBy(p) = NamedBy(r),
               p.scope = "ALL_LINES" => r.scope = "ALL_LINES"
        PROVE  WrittenFor(c, now, o)
    <2>1. NamedBy(r) \cup SaidLines(r) \subseteq Named(c)
      BY NamedParts
    <2>2. SaidLines(p) = SaidLines(r) /\ (AllSaid(p) <=> AllSaid(r))
      BY <1>5 DEF SaidLines, AllSaid
    <2>3. NamedBy(q) \cup SaidLines(q) \subseteq Named(c)
      BY <1>1, <1>2, <1>3, <1>5, <2>1, <2>2
    <2>4. Targeted(c) => NamedBy(q) # {} /\ ~AllSaid(q) /\ q.scope # "ALL_LINES"
      BY <1>1, <1>2, <1>5, <2>2 DEF Targeted, Requests, MeansAll, AllSaid
    <2> QED
      BY <2>3, <2>4 DEF Written, WrittenFor, q
  <1> QED
    BY <1>4, <1>5 DEF PartOf

\* The patch for a whole request is for the version it was made of; on the lines
\* nobody named, it writes no more than it may.
LEMMA PatchOfRequest ==
  ASSUME NEW c, FormedRequest(c), NEW now, NEW base, Normalized(c, now, base) # None
  PROVE  LET patch == Normalized(c, now, base) IN
         /\ patch.base = now.version
         /\ patch.ops \in Seq(Range(patch.ops))
         /\ \A o \in Range(patch.ops) : WrittenFor(c, now, o)
  <1> DEFINE patch == Normalized(c, now, base)
             e == Expanded(c)
             q(i) == PartCandidate(e, RepairedPart(e, e.parts[i]))
             patches == [i \in DOMAIN e.parts |-> NormalizedPart(q(i), now)]
  <1>1. patch = IF e.parts # <<>> THEN Joined(e, patches) ELSE NormalizedPart(e, now)
    BY DEF Normalized, Composite
  <1>2. Readable(c.said) /\ Legible(c.said)
    BY DEF FormedRequest, Formed, Readable
  <1>3. /\ DOMAIN e = Fields /\ e.said = c.said /\ e.base = c.base
        /\ e.parts \in Seq(Range(e.parts))
        /\ e.parts = <<>> => Parts(c) = {} /\ NamedBy(e) = NamedBy(c) /\ e.scope = c.scope
        /\ \A p \in Range(e.parts) : PartOf(c, p)
    BY ExpandedRequest
  <1> HIDE DEF patch, e
  <1>4. CASE e.parts = <<>>
    <2>1. patch = NormalizedPart(e, now) /\ patch # None
      BY <1>1, <1>4 DEF patch
    <2>2. /\ patch.base = now.version
          /\ patch.ops \in Seq(Range(patch.ops))
          /\ \A o \in Range(patch.ops) : Written(e, now, o)
      BY <1>2, <1>3, <2>1, PatchOfPart
    <2>3. NamedBy(e) \cup SaidLines(e) \subseteq Named(c)
      BY <1>3, <1>4, NamedParts DEF SaidLines
    <2>4. Targeted(c) => NamedBy(e) # {} /\ ~AllSaid(e) /\ e.scope # "ALL_LINES"
      BY <1>3, <1>4 DEF Targeted, Requests, MeansAll, AllSaid
    <2>5. \A o \in Range(patch.ops) : WrittenFor(c, now, o)
      BY <2>2, <2>3, <2>4 DEF Written, WrittenFor
    <2> QED
      BY <2>2, <2>5 DEF patch
  <1>5. CASE e.parts # <<>>
    <2> DEFINE n == Len(e.parts)
               ss == [i \in 1 .. n |-> patches[i].ops]
    <2>1. n \in Nat /\ n # 0 /\ DOMAIN e.parts = 1 .. n
      BY <1>3, <1>5
    <2>2. patch = Joined(e, patches) /\ patch # None
      BY <1>1, <1>5 DEF patch
    <2>3. DOMAIN patches = 1 .. n
      BY <2>1
    <2> HIDE DEF patches
    <2>4. None \notin Range(patches) /\ patch.base = e.base /\ patch.ops = FlattenSeq(ss)
      BY <2>2, <2>3 DEF Joined
    <2>5. ASSUME NEW i \in 1 .. n
          PROVE  /\ e.base = now.version
                 /\ ss[i] \in Seq(Range(ss[i]))
                 /\ \A o \in Range(ss[i]) : WrittenFor(c, now, o)
      <3>1. patches[i] # None /\ patches[i] = NormalizedPart(q(i), now) /\ ss[i] = patches[i].ops
        <4>1. patches[i] = NormalizedPart(q(i), now)
          BY <2>1 DEF patches
        <4> QED
          BY <2>3, <2>4, <4>1 DEF Range
      <3>2. PartOf(c, e.parts[i])
        BY <1>3, <2>1 DEF Range
      <3>3. DOMAIN q(i) = Fields /\ Legible(q(i).said) /\ q(i).base = e.base
        BY <1>2, <1>3, <3>2, CompletedPart DEF PartOf
      <3> HIDE DEF ss
      <3>4. /\ q(i).base = now.version
            /\ ss[i] \in Seq(Range(ss[i]))
            /\ \A o \in Range(ss[i]) : Written(q(i), now, o)
        <4> HIDE DEF q
        <4> QED
          BY <3>1, <3>3, PatchOfPart
      <3>5. \A o \in Range(ss[i]) : WrittenFor(c, now, o)
        BY <1>2, <1>3, <3>2, <3>4, PartWrites
      <3> QED
        BY <3>3, <3>4, <3>5
    <2>6. ss = [i \in 1 .. n |-> ss[i]]
      OBVIOUS
    <2> HIDE DEF ss, n
    <2>7. /\ patch.ops \in Seq(Range(patch.ops))
          /\ \A k \in DOMAIN patch.ops : \E i \in 1 .. n : patch.ops[k] \in Range(ss[i])
      BY <2>1, <2>4, <2>5, <2>6, FlattenedElements
    <2>8. 1 \in 1 .. n
      BY <2>1
    <2>9. patch.base = now.version
      BY <2>4, <2>5, <2>8
    <2>10. \A o \in Range(patch.ops) : WrittenFor(c, now, o)
      BY <2>5, <2>7 DEF Range
    <2> QED
      BY <2>7, <2>9, <2>10 DEF patch
  <1> QED
    BY <1>4, <1>5

-----------------------------------------------------------------------------
(***************************************************************************)
(* The requests under way, and what their patches may do when they are     *)
(* applied: the inductive invariant.                                       *)
(***************************************************************************)

LEMMA ValuesFormed ==
  ASSUME NEW c, FormedRequest(c), NEW updates, NEW S
  PROVE  FormedRequest(WithValues(c, updates, S))
  <1> DEFINE d == WithValues(c, updates, S)
             part(i) == IF i \in S THEN [c.parts[i] EXCEPT !.sim = Over(updates, @)] ELSE c.parts[i]
             parts == [i \in DOMAIN c.parts |-> part(i)]
  <1>1. Formed(c) /\ DOMAIN c = Fields /\ \A r \in Parts(c) : Formed(r)
    BY FormedFields DEF FormedRequest
  <1>2. /\ DOMAIN d = Fields /\ d.said = c.said /\ d.parts = parts /\ d.updates = c.updates
    BY <1>1 DEF WithValues, Fields
  <1>3. c.parts \in Seq(Range(c.parts)) /\ DOMAIN c.parts = 1 .. Len(c.parts) /\ Len(c.parts) \in Nat
    BY <1>1 DEF Formed
  <1>4. parts \in Seq(Range(parts))
    <2>1. parts = [i \in 1 .. Len(c.parts) |-> part(i)]
      BY <1>3
    <2> HIDE DEF part
    <2> QED
      BY <1>3, <2>1 DEF Range
  <1>5. ASSUME NEW i \in DOMAIN c.parts PROVE Formed(part(i))
    <2>1. Formed(c.parts[i]) /\ DOMAIN c.parts[i] = Fields
      BY <1>1, FormedFields DEF Parts, Range
    <2>2. /\ DOMAIN part(i) = Fields /\ part(i).said = c.parts[i].said
          /\ part(i).parts = c.parts[i].parts /\ part(i).updates = c.parts[i].updates
      BY <2>1 DEF Fields
    <2> HIDE DEF part
    <2> QED
      BY <2>1, <2>2, FieldsOfPart DEF Formed
  <1> HIDE DEF d, part
  <1>6. \A r \in Parts(d) : Formed(r)
    <2>1. \A r \in Range(parts) : Formed(r)
      BY <1>5 DEF Range
    <2>2. \A r \in Range(c.updates) : Formed(r)
      BY <1>1 DEF Parts
    <2> QED
      BY <1>2, <2>1, <2>2 DEF Parts
  <1>7. Formed(d)
    BY <1>1, <1>2, <1>4, FieldsOfPart DEF Formed
  <1> QED
    BY <1>6, <1>7 DEF FormedRequest, d

LEMMA ReceivedFormed ==
  ASSUME NEW candidate \in Candidates, NEW claimed, NEW base
  PROVE  FormedRequest(Recovered([candidate EXCEPT !.base = claimed], base))
  <1> DEFINE c == [candidate EXCEPT !.base = claimed]
  <1>1. FormedRequest(candidate) /\ DOMAIN candidate = Fields
    BY RequestAssumption, FormedFields DEF FormedRequest
  <1>2. /\ DOMAIN c = Fields /\ c.said = candidate.said /\ c.parts = candidate.parts
        /\ c.updates = candidate.updates
    BY <1>1 DEF Fields
  <1> HIDE DEF c
  <1>3. FormedRequest(c)
    BY <1>1, <1>2, FieldsOfPart DEF FormedRequest, Formed, Parts
  <1>4. FormedRequest(Recovered(c, base))
    BY <1>3, ValuesFormed DEF Recovered
  <1> QED
    BY <1>4 DEF c

LinesOK(lines) ==
  DOMAIN lines = Lines /\ \A l \in Lines : {"excluded", "kpi", "policy"} \subseteq DOMAIN lines[l]

\* A version whose number only one release has, read when it was current.
Once(n) == n \notin twice

\* What was read when the request came: an earlier version, or the current one.
Snapshot(now) == now.version = version /\ Once(version) => now.trt = trt

\* The patch excludes what the lines it writes exclude.
Excludes(lines, ops) ==
  \A o \in Range(ops) : o.field = "excluded" => lines[o.line].excluded \subseteq o.value

\* A patch keeps to its request.
PatchKeeps(c, patch) ==
  /\ patch.ops \in Seq(Range(patch.ops))
  /\ \A o \in Range(patch.ops) :
       /\ o.line \in Lines
       /\ o.line \notin Named(c) =>
            /\ ~(o.field \in {"kpi", "policy"} /\ mode[o.line] = "ERROR")
            /\ Targeted(c) => o.field = "kpi"

Early == {"regenerate", "model"}
Writing == {"numbered", "stored"}
Applying == {"checked"} \cup Writing

\* The version a request is made of.
BaseOf(r) == IF r.at \in Early THEN r.now.version ELSE r.patch.base

SlotOK(r) ==
  r # None =>
    /\ FormedRequest(r.request)
    /\ r.at \in Early \cup {"reviewed"} \cup Applying
    /\ BaseOf(r) \in 1 .. latest
    /\ r.at \in Early => Snapshot(r.now)
    /\ r.at \notin Early => PatchKeeps(r.request, r.patch)
    /\ r.at = "reviewed" /\ r.patch.base = version /\ Once(version) => Excludes(trt, r.patch.ops)
    /\ r.at \in Applying =>
         /\ LinesOK(r.read.trt)
         /\ Once(r.read.version) => Excludes(r.read.trt, r.patch.ops)

\* A number that one approval alone was given is that of no version so far.
NumberOK(s) ==
  slot[s] # None /\ slot[s].at \in Writing =>
    LET n == slot[s].number IN
    /\ n \in 1 .. latest + 1
    /\ slot[s].at = "stored" => n <= latest
    /\ slot[s].at = "numbered" /\ Once(n) => n = latest + 1
    /\ Once(n) => /\ version # n
                  /\ \A x \in Slots : slot[x] # None => BaseOf(slot[x]) # n
                  /\ \A x \in Slots \ {s} :
                       slot[x] # None /\ slot[x].at \in Writing => slot[x].number # n

IInv ==
  /\ latest \in Nat \ {0} /\ version \in 1 .. latest
  /\ LinesOK(trt)
  /\ DOMAIN slot = Slots
  /\ \A s \in Slots : SlotOK(slot[s]) /\ NumberOK(s)

LEMMA OutcomeOK ==
  ASSUME NEW c, FormedRequest(c), NEW now, Snapshot(now), now.version \in 1 .. latest, NEW base
  PROVE  LET r == Outcome(c, now, base) IN
         SlotOK(r) /\ (r # None => r.at = "reviewed" /\ BaseOf(r) = now.version)
  <1> DEFINE patch == Normalized(c, now, base)
             r == Outcome(c, now, base)
  <1>1. CASE patch = None
    BY <1>1 DEF Outcome, Reviewing, SlotOK
  <1>2. CASE patch # None
    <2>1. /\ patch.base = now.version
          /\ patch.ops \in Seq(Range(patch.ops))
          /\ \A o \in Range(patch.ops) : WrittenFor(c, now, o)
      BY <1>2, PatchOfRequest
    <2>2. r = [at |-> "reviewed", request |-> c, base |-> base, patch |-> patch]
      BY <1>2 DEF Outcome, Reviewing
    <2> HIDE DEF patch, r
    <2>3. PatchKeeps(c, patch)
      BY <2>1 DEF PatchKeeps, WrittenFor
    <2>4. patch.base = version /\ Once(version) => Excludes(trt, patch.ops)
      BY <2>1 DEF Snapshot, Excludes, WrittenFor
    <2>5. BaseOf(r) = now.version
      BY <2>1, <2>2 DEF BaseOf, Early
    <2>6. SlotOK(r)
      BY <2>2, <2>3, <2>4, <2>5 DEF SlotOK, Early, Applying, Writing
    <2> QED
      BY <2>2, <2>5, <2>6 DEF r
  <1> QED
    BY <1>1, <1>2

\* A patched field has the value it had, or that of an operation on it.
LEMMA PatchedField ==
  ASSUME NEW lines, NEW ops, ops \in Seq(Range(ops)), NEW l \in Lines
  PROVE  /\ DOMAIN Patched(lines, ops) = Lines
         /\ DOMAIN Patched(lines, ops)[l] = DOMAIN lines[l]
         /\ \A f \in DOMAIN lines[l] :
              \/ Patched(lines, ops)[l][f] = lines[l][f]
              \/ \E o \in Range(ops) :
                   o.line = l /\ o.field = f /\ Patched(lines, ops)[l][f] = o.value
  <1> DEFINE writes(f) == {i \in DOMAIN ops : ops[i].line = l /\ ops[i].field = f}
             line == [f \in DOMAIN lines[l] |->
                        IF writes(f) = {} THEN lines[l][f] ELSE ops[Max(writes(f))].value]
  <1>1. DOMAIN Patched(lines, ops) = Lines /\ Patched(lines, ops)[l] = line
    BY DEF Patched
  <1>2. ASSUME NEW f \in DOMAIN lines[l], writes(f) # {}
        PROVE  \E o \in Range(ops) : o.line = l /\ o.field = f /\ line[f] = o.value
    <2> DEFINE S == writes(f)
    <2>1. DOMAIN ops = 1 .. Len(ops) /\ Len(ops) \in Nat
      OBVIOUS
    <2>2. S \subseteq 1 .. Len(ops) /\ S # {}
      BY <1>2, <2>1
    <2>3. line[f] = ops[Max(S)].value
      BY <1>2
    <2>4. Max(S) \in S
      <3> HIDE DEF S
      <3> QED
        BY <2>1, <2>2, MaxIsMember
    <2> HIDE DEF Max
    <2>5. ops[Max(S)].line = l /\ ops[Max(S)].field = f /\ ops[Max(S)] \in Range(ops)
      BY <2>4 DEF Range
    <2> QED
      BY <2>3, <2>5
  <1>3. \A f \in DOMAIN lines[l] : writes(f) = {} => line[f] = lines[l][f]
    OBVIOUS
  <1>4. DOMAIN line = DOMAIN lines[l]
    OBVIOUS
  <1> HIDE DEF line, writes
  <1> QED
    BY <1>1, <1>2, <1>3, <1>4

\* A line of which only the throughput is patched keeps its other fields.
LEMMA KpiPatched ==
  ASSUME NEW lines, NEW ops, ops \in Seq(Range(ops)), NEW l \in Lines,
         \A o \in Range(ops) : o.line = l => o.field = "kpi"
  PROVE  Patched(lines, ops)[l] = [lines[l] EXCEPT !.kpi = Patched(lines, ops)[l].kpi]
  <1> DEFINE value(f) == LET writes == {i \in DOMAIN ops : ops[i].line = l /\ ops[i].field = f}
                         IN IF writes = {} THEN lines[l][f] ELSE ops[Max(writes)].value
             line == [f \in DOMAIN lines[l] |-> value(f)]
  <1>1. Patched(lines, ops)[l] = line
    BY DEF Patched
  <1>2. ASSUME NEW f \in DOMAIN lines[l], f # "kpi" PROVE value(f) = lines[l][f]
    <2>1. {i \in DOMAIN ops : ops[i].line = l /\ ops[i].field = f} = {}
      BY <1>2 DEF Range
    <2> QED
      BY <2>1
  <1> HIDE DEF value
  <1>3. line = [lines[l] EXCEPT !.kpi = line.kpi]
    BY <1>2
  <1> HIDE DEF line
  <1> QED
    BY <1>1, <1>3

LEMMA InitIInv ==
  Init => IInv
  BY LinesAssumption DEF Init, IInv, LinesOK, SlotOK, NumberOK

\* Steps of a slot that leave the TRT, its files and their numbers alone.
LEMMA SlotStep ==
  ASSUME IInv, NEW s \in Slots, NEW r, SlotOK(r), slot' = [slot EXCEPT ![s] = r],
         r # None => /\ r.at \notin Writing
                     /\ BaseOf(r) = version \/ (slot[s] # None /\ BaseOf(r) = BaseOf(slot[s])),
         UNCHANGED <<releases, mode>>
  PROVE  IInv'
  <1>1. /\ trt' = trt /\ version' = version /\ latest' = latest /\ twice' = twice /\ mode' = mode
    BY DEF releases
  <1>2. DOMAIN slot' = Slots /\ slot'[s] = r /\ \A x \in Slots \ {s} : slot'[x] = slot[x]
    BY DEF IInv
  <1>3. \A x \in Slots : SlotOK(slot'[x])
    BY <1>2 DEF IInv
  <1>4. ASSUME NEW x \in Slots PROVE SlotOK(slot[x])'
    BY <1>1, <1>3 DEF SlotOK, Snapshot, PatchKeeps, Excludes, Once, BaseOf
  <1>5. ASSUME NEW x \in Slots PROVE NumberOK(x)'
    <2> DEFINE n == slot[x].number
    <2>1. CASE x = s
      BY <1>2, <2>1 DEF NumberOK
    <2>2. CASE x # s
      <3> SUFFICES ASSUME slot[x] # None, slot[x].at \in Writing
                   PROVE  NumberOK(x)'
        BY <1>2, <2>2 DEF NumberOK
      <3>1. /\ n \in 1 .. latest + 1
            /\ slot[x].at = "stored" => n <= latest
            /\ slot[x].at = "numbered" /\ Once(n) => n = latest + 1
        BY DEF IInv, NumberOK
      <3>2. ASSUME Once(n)
            PROVE  /\ version # n
                   /\ \A y \in Slots : slot[y] # None => BaseOf(slot[y]) # n
                   /\ \A y \in Slots \ {x} :
                        slot[y] # None /\ slot[y].at \in Writing => slot[y].number # n
        BY <3>2 DEF IInv, NumberOK
      <3>3. ASSUME Once(n), NEW y \in Slots, slot'[y] # None
            PROVE  /\ BaseOf(slot'[y]) # n
                   /\ y # x /\ slot'[y].at \in Writing => slot'[y].number # n
        BY <1>2, <3>2, <3>3
      <3> QED
        BY <1>1, <1>2, <2>2, <3>1, <3>2, <3>3 DEF NumberOK, Once, BaseOf
    <2> QED
      BY <2>1, <2>2
  <1> QED
    BY <1>1, <1>2, <1>4, <1>5 DEF IInv, LinesOK

LEMMA NoneOK ==
  SlotOK(None)
  BY DEF SlotOK

LEMMA ReceiveIInv ==
  ASSUME IInv, NEW s \in Slots, Receive(s)
  PROVE  IInv'
  <1>1. PICK candidate \in Candidates, claimed \in 1 .. version :
          slot' = [slot EXCEPT ![s] =
            IF DerivationErrors(Recovered([candidate EXCEPT !.base = claimed], times), times) = {}
            THEN Outcome(Recovered([candidate EXCEPT !.base = claimed], times),
                         [trt |-> trt, version |-> version], times)
            ELSE [at |-> "regenerate",
                  request |-> Recovered([candidate EXCEPT !.base = claimed], times),
                  now |-> [trt |-> trt, version |-> version], base |-> times]]
    BY DEF Receive
  <1> DEFINE c == Recovered([candidate EXCEPT !.base = claimed], times)
             now == [trt |-> trt, version |-> version]
             o == Outcome(c, now, times)
             asked == [at |-> "regenerate", request |-> c, now |-> now, base |-> times]
             r == IF DerivationErrors(c, times) = {} THEN o ELSE asked
             Fits(x) == SlotOK(x) /\ (x # None => x.at \notin Writing /\ BaseOf(x) = version)
  <1>2. FormedRequest(c)
    BY ReceivedFormed
  <1>3. Snapshot(now) /\ now.version = version /\ now.version \in 1 .. latest
    BY DEF IInv, Snapshot
  <1> HIDE DEF c, now
  <1>4. Fits(o)
    BY <1>2, <1>3, OutcomeOK DEF Writing
  <1>5. Fits(asked)
    BY <1>2, <1>3 DEF SlotOK, BaseOf, Early, Applying, Writing
  <1>6. Fits(r)
    <2> HIDE DEF o, asked, Fits
    <2> QED
      BY <1>4, <1>5
  <1>7. UNCHANGED <<releases, mode>>
    BY DEF Receive
  <1>8. slot' = [slot EXCEPT ![s] = r]
    BY <1>1 DEF c, now
  <1> HIDE DEF r
  <1> QED
    BY <1>6, <1>7, <1>8, SlotStep

LEMMA AskIInv ==
  ASSUME IInv, NEW s \in Slots, Ask(s)
  PROVE  IInv'
  <1> DEFINE r == [at |-> "model", request |-> slot[s].request, now |-> slot[s].now,
                   base |-> slot[s].base, asked |-> times, tries |-> 0]
  <1>1. slot' = [slot EXCEPT ![s] = r] /\ UNCHANGED <<releases, mode>>
    BY DEF Ask, IInv
  <1>2. slot[s] # None /\ slot[s].at = "regenerate" /\ SlotOK(slot[s])
    BY DEF Ask, IInv
  <1>3. r.at = "model" /\ r.request = slot[s].request /\ r.now = slot[s].now /\ r # None => TRUE
    OBVIOUS
  <1>4. BaseOf(r) = BaseOf(slot[s])
    BY <1>2 DEF BaseOf, Early
  <1>5. SlotOK(r)
    BY <1>2, <1>4 DEF SlotOK, Early, Applying, Writing
  <1>6. r.at \notin Writing
    BY DEF Writing
  <1> HIDE DEF r
  <1> QED
    BY <1>1, <1>2, <1>4, <1>5, <1>6, SlotStep

LEMMA AnswerIInv ==
  ASSUME IInv, NEW s \in Slots, Answer(s)
  PROVE  IInv'
  <1>1. PICK updates \in Regenerations :
          slot' = [slot EXCEPT ![s] =
            IF DerivationErrors(Regenerated(slot[s].request, slot[s].base, updates), slot[s].asked) = {}
            THEN Outcome(Regenerated(slot[s].request, slot[s].base, updates), slot[s].now, slot[s].base)
            ELSE IF slot[s].tries + 1 < MaxAttempts
                 THEN [slot[s] EXCEPT !.tries = slot[s].tries + 1] ELSE None]
    BY DEF Answer, IInv
  <1> DEFINE c == Regenerated(slot[s].request, slot[s].base, updates)
             o == Outcome(c, slot[s].now, slot[s].base)
             again == [slot[s] EXCEPT !.tries = slot[s].tries + 1]
             r == IF DerivationErrors(c, slot[s].asked) = {} THEN o
                  ELSE IF slot[s].tries + 1 < MaxAttempts THEN again ELSE None
             Fits(x) == /\ SlotOK(x)
                        /\ x # None => x.at \notin Writing /\ BaseOf(x) = BaseOf(slot[s])
  <1>2. slot[s] # None /\ slot[s].at = "model" /\ SlotOK(slot[s])
    BY DEF Answer, IInv
  <1>3. /\ FormedRequest(slot[s].request) /\ Snapshot(slot[s].now)
        /\ slot[s].now.version \in 1 .. latest /\ BaseOf(slot[s]) = slot[s].now.version
    BY <1>2 DEF SlotOK, BaseOf, Early
  <1>4. Fits(o)
    <2>1. FormedRequest(c)
      BY <1>3, ValuesFormed DEF Regenerated
    <2> HIDE DEF c
    <2> QED
      BY <1>3, <2>1, OutcomeOK DEF Writing
  <1>5. Fits(again)
    <2>1. again.request = slot[s].request /\ again.at = slot[s].at /\ again.now = slot[s].now
      OBVIOUS
    <2> HIDE DEF again
    <2> QED
      BY <1>2, <2>1 DEF SlotOK, BaseOf, Early, Applying, Writing
  <1>6. Fits(None)
    BY NoneOK
  <1>7. Fits(r)
    <2> HIDE DEF o, again, c, Fits
    <2> QED
      BY <1>4, <1>5, <1>6
  <1>8. UNCHANGED <<releases, mode>>
    BY DEF Answer
  <1>9. slot' = [slot EXCEPT ![s] = r]
    BY <1>1
  <1> HIDE DEF r
  <1> QED
    BY <1>2, <1>7, <1>8, <1>9, SlotStep

LEMMA ApplyIInv ==
  ASSUME IInv, NEW s \in Slots, Apply(s)
  PROVE  IInv'
  <1> DEFINE now == [trt |-> trt, version |-> version]
             r == [at |-> "checked", request |-> slot[s].request, patch |-> slot[s].patch,
                   read |-> now]
  <1>1. /\ slot[s] # None /\ slot[s].at = "reviewed" /\ SlotOK(slot[s])
        /\ UNCHANGED <<releases, mode>>
    BY DEF Apply, Standing, IInv
  <1>2. CASE Accepts(slot[s].patch)
    <2>1. slot' = [slot EXCEPT ![s] = r]
      BY <1>2 DEF Apply, IInv
    <2>2. slot[s].patch.base = version
      BY <1>2 DEF Accepts
    <2>3. r.at \notin Writing /\ BaseOf(r) = BaseOf(slot[s])
      BY <1>1 DEF BaseOf, Early, Writing
    <2>4. LinesOK(r.read.trt) /\ (Once(r.read.version) => Excludes(r.read.trt, r.patch.ops))
      BY <1>1, <2>2 DEF IInv, SlotOK
    <2>5. SlotOK(r)
      <3>1. r.at = "checked" /\ r.request = slot[s].request /\ r.patch = slot[s].patch
        OBVIOUS
      <3> HIDE DEF r
      <3> QED
        BY <1>1, <2>3, <2>4, <3>1 DEF SlotOK, Early, Applying, Writing
    <2> HIDE DEF r
    <2> QED
      BY <1>1, <2>1, <2>3, <2>5, SlotStep
  <1>3. CASE ~Accepts(slot[s].patch)
    <2>1. slot' = [slot EXCEPT ![s] = None]
      BY <1>3 DEF Apply, IInv
    <2> QED
      BY <1>1, <2>1, NoneOK, SlotStep
  <1> QED
    BY <1>2, <1>3

\* The next number: no approval that keeps its number for itself has it.
LEMMA NumberIInv ==
  ASSUME IInv, NEW s \in Slots, Number(s)
  PROVE  IInv'
  <1> DEFINE m == latest + 1
             r == [at |-> "numbered", request |-> slot[s].request, patch |-> slot[s].patch,
                   read |-> slot[s].read, number |-> m]
  <1>1. /\ slot[s] # None /\ slot[s].at = "checked" /\ SlotOK(slot[s])
        /\ trt' = trt /\ version' = version /\ latest' = latest /\ mode' = mode
        /\ slot' = [slot EXCEPT ![s] = r]
    BY DEF Number, Standing, IInv
  <1>2. /\ twice \subseteq twice'
        /\ twice' \subseteq twice \cup {m}
        /\ \A x \in Slots : slot[x] # None /\ slot[x].at = "numbered" /\ slot[x].number = m =>
             m \in twice'
    BY DEF Number, Standing
  <1>3. latest \in Nat \ {0} /\ version \in 1 .. latest /\ m \in 1 .. latest + 1 /\ version # m
    BY DEF IInv
  <1>4. DOMAIN slot' = Slots /\ slot'[s] = r /\ \A x \in Slots \ {s} : slot'[x] = slot[x]
    BY <1>1 DEF IInv
  <1>5. r.at = "numbered" /\ r.number = m /\ r.request = slot[s].request
        /\ r.patch = slot[s].patch /\ r.read = slot[s].read /\ BaseOf(r) = BaseOf(slot[s])
    BY <1>1 DEF BaseOf, Early
  <1> HIDE DEF r
  <1>6. r # None => SlotOK(r)
    BY <1>1, <1>5 DEF SlotOK, Early, Applying, Writing
  <1>7. \A x \in Slots : SlotOK(slot'[x])
    BY <1>4, <1>6, NoneOK DEF IInv
  <1>8. \A n : n \notin twice' => Once(n)
    BY <1>2 DEF Once
  <1>9. ASSUME NEW x \in Slots PROVE SlotOK(slot[x])'
    BY <1>1, <1>7, <1>8 DEF SlotOK, Snapshot, PatchKeeps, Excludes, Once, BaseOf
  <1>10. \A x \in Slots : slot'[x] # None =>
           slot[x] # None /\ BaseOf(slot'[x]) = BaseOf(slot[x]) /\ BaseOf(slot[x]) \in 1 .. latest
    BY <1>1, <1>4, <1>5 DEF IInv, SlotOK
  <1>11. ASSUME NEW x \in Slots, slot[x] # None, slot[x].at \in Writing,
                slot[x].number \notin twice'
         PROVE  slot[x].number # m
    <2>1. slot[x].at = "stored" => slot[x].number <= latest /\ slot[x].number \in 1 .. latest + 1
      BY <1>11 DEF IInv, NumberOK
    <2> QED
      BY <1>2, <1>3, <1>11, <2>1 DEF Writing
  <1>12. ASSUME NEW x \in Slots PROVE NumberOK(x)'
    <2>1. CASE x = s
      <3>1. \A y \in Slots : slot'[y] # None => BaseOf(slot'[y]) # m
        BY <1>3, <1>10
      <3>2. ASSUME m \notin twice', NEW y \in Slots \ {s}, slot'[y] # None, slot'[y].at \in Writing
            PROVE  slot'[y].number # m
        <4>1. slot'[y] = slot[y]
          BY <1>4
        <4>2. CASE slot[y].number \in twice'
          BY <3>2, <4>1, <4>2
        <4>3. CASE slot[y].number \notin twice'
          BY <1>11, <3>2, <4>1, <4>3
        <4> QED
          BY <4>2, <4>3
      <3> QED
        BY <1>1, <1>3, <1>4, <1>5, <2>1, <3>1, <3>2 DEF NumberOK, BaseOf, Writing, Once
    <2>2. CASE x # s
      <3> DEFINE n == slot[x].number
      <3> SUFFICES ASSUME slot[x] # None, slot[x].at \in Writing
                   PROVE  NumberOK(x)'
        BY <1>4, <2>2 DEF NumberOK
      <3>1. /\ n \in 1 .. latest + 1
            /\ slot[x].at = "stored" => n <= latest
            /\ slot[x].at = "numbered" /\ Once(n) => n = latest + 1
        BY DEF IInv, NumberOK
      <3>2. ASSUME Once(n)
            PROVE  /\ version # n
                   /\ \A y \in Slots : slot[y] # None => BaseOf(slot[y]) # n
                   /\ \A y \in Slots \ {x} :
                        slot[y] # None /\ slot[y].at \in Writing => slot[y].number # n
        BY <3>2 DEF IInv, NumberOK
      <3>3. ASSUME n \notin twice', NEW y \in Slots, slot'[y] # None
            PROVE  /\ BaseOf(slot'[y]) # n
                   /\ y # x /\ slot'[y].at \in Writing => slot'[y].number # n
        <4>1. Once(n)
          BY <1>8, <3>3
        <4>4. BaseOf(slot'[y]) # n
          BY <1>10, <3>2, <3>3, <4>1
        <4>2. CASE y = s
          BY <1>4, <1>5, <1>11, <3>3, <4>2, <4>4
        <4>3. CASE y # s
          BY <1>4, <3>2, <3>3, <4>1, <4>3, <4>4
        <4> QED
          BY <4>2, <4>3
      <3> QED
        BY <1>1, <1>4, <1>8, <2>2, <3>1, <3>2, <3>3 DEF NumberOK, BaseOf, Once
    <2> QED
      BY <2>1, <2>2
  <1> QED
    BY <1>1, <1>3, <1>4, <1>9, <1>12 DEF IInv, LinesOK

\* The version file: the number becomes the highest, or was written before.
LEMMA SaveVersionIInv ==
  ASSUME IInv, NEW s \in Slots, SaveVersion(s)
  PROVE  IInv'
  <1> DEFINE m == slot[s].number
             r == [slot[s] EXCEPT !.at = "stored"]
  <1>1. /\ slot[s] # None /\ slot[s].at = "numbered" /\ SlotOK(slot[s]) /\ NumberOK(s)
        /\ trt' = trt /\ version' = version /\ twice' = twice /\ mode' = mode
        /\ latest' = IF m > latest THEN m ELSE latest
        /\ slot' = [slot EXCEPT ![s] = r]
    BY DEF SaveVersion, Standing, IInv
  <1>2. latest \in Nat \ {0} /\ version \in 1 .. latest /\ m \in 1 .. latest + 1
    BY <1>1 DEF IInv, NumberOK, Writing
  <1>3. latest' \in Nat \ {0} /\ latest <= latest' /\ m <= latest' /\ version \in 1 .. latest'
        /\ latest' \in {latest, m}
    BY <1>1, <1>2
  <1>4. DOMAIN slot' = Slots /\ slot'[s] = r /\ \A x \in Slots \ {s} : slot'[x] = slot[x]
    BY <1>1 DEF IInv
  <1>5. r.at = "stored" /\ r.number = m /\ r.request = slot[s].request
        /\ r.patch = slot[s].patch /\ r.read = slot[s].read /\ BaseOf(r) = BaseOf(slot[s])
    BY <1>1 DEF BaseOf, Early
  <1> HIDE DEF r
  <1>6. r # None => SlotOK(r)
    BY <1>1, <1>5 DEF SlotOK, Early, Applying, Writing
  <1>7. \A x \in Slots : SlotOK(slot'[x])
    BY <1>4, <1>6, NoneOK DEF IInv
  <1>8. ASSUME NEW x \in Slots PROVE SlotOK(slot[x])'
    <2>1. slot'[x] # None => BaseOf(slot'[x]) \in 1 .. latest'
      BY <1>2, <1>3, <1>7 DEF SlotOK
    <2> QED
      BY <1>1, <1>7, <2>1 DEF SlotOK, Snapshot, PatchKeeps, Excludes, Once, BaseOf
  <1>9. \A x \in Slots : slot'[x] # None =>
           slot[x] # None /\ BaseOf(slot'[x]) = BaseOf(slot[x])
    BY <1>1, <1>4, <1>5
  <1>10. \A x \in Slots : slot'[x] # None /\ slot'[x].at \in Writing =>
           slot[x].at \in Writing /\ slot'[x].number = slot[x].number
    BY <1>1, <1>4, <1>5 DEF Writing
  <1>11. ASSUME NEW x \in Slots, slot'[x] # None, slot'[x].at \in Writing PROVE NumberOK(x)'
    <2> DEFINE n == slot[x].number
    <2>1. /\ n \in 1 .. latest + 1
          /\ slot[x].at = "stored" => n <= latest
          /\ slot[x].at = "numbered" /\ Once(n) => n = latest + 1
      BY <1>9, <1>10, <1>11 DEF IInv, NumberOK
    <2>2. ASSUME Once(n)
          PROVE  /\ version # n
                 /\ \A y \in Slots : slot[y] # None => BaseOf(slot[y]) # n
                 /\ \A y \in Slots \ {x} :
                      slot[y] # None /\ slot[y].at \in Writing => slot[y].number # n
      BY <1>9, <1>10, <1>11, <2>2 DEF IInv, NumberOK
    <2>3. ASSUME Once(n)
          PROVE  /\ \A y \in Slots : slot'[y] # None => BaseOf(slot'[y]) # n
                 /\ \A y \in Slots \ {x} :
                      slot'[y] # None /\ slot'[y].at \in Writing => slot'[y].number # n
      BY <1>9, <1>10, <2>2, <2>3
    <2>4. slot'[x].number = n
      BY <1>10, <1>11
    <2>5. n \in 1 .. latest' + 1 /\ (slot'[x].at = "stored" => n <= latest')
      BY <1>2, <1>3, <1>4, <1>5, <2>1
    <2>6. slot'[x].at = "numbered" /\ Once(n) => n = latest' + 1
      <3> SUFFICES ASSUME slot'[x].at = "numbered", Once(n) PROVE n = latest' + 1
        OBVIOUS
      <3>1. x # s /\ slot[x].at = "numbered"
        BY <1>4, <1>5
      <3>2. m # n /\ n = latest + 1
        BY <1>1, <2>1, <2>2, <3>1 DEF Writing
      <3> QED
        BY <1>1, <1>2, <3>2
    <2> QED
      BY <1>1, <2>2, <2>3, <2>4, <2>5, <2>6 DEF NumberOK, Once, BaseOf
  <1>12. \A x \in Slots : NumberOK(x)'
    BY <1>11 DEF NumberOK
  <1> QED
    BY <1>1, <1>3, <1>4, <1>8, <1>12 DEF IInv, LinesOK

\* The current TRT: nobody has read a version of this number, unless two have it.
LEMMA SaveCurrentIInv ==
  ASSUME IInv, NEW s \in Slots, SaveCurrent(s)
  PROVE  IInv'
  <1> DEFINE m == slot[s].number
             lines == slot[s].read.trt
             ops == slot[s].patch.ops
  <1>1. /\ slot[s] # None /\ slot[s].at = "stored" /\ SlotOK(slot[s]) /\ NumberOK(s)
        /\ trt' = Patched(lines, ops) /\ version' = m
        /\ latest' = latest /\ twice' = twice /\ mode' = mode
        /\ slot' = [slot EXCEPT ![s] = None]
    BY DEF SaveCurrent, Standing, IInv
  <1>2. latest \in Nat \ {0} /\ m \in 1 .. latest
    BY <1>1 DEF IInv, NumberOK, Writing
  <1>3. LinesOK(lines) /\ ops \in Seq(Range(ops))
    BY <1>1 DEF SlotOK, PatchKeeps, Early, Applying, Writing
  <1>4. LinesOK(trt')
    <2>1. DOMAIN trt' = Lines
      BY <1>1 DEF Patched
    <2>2. \A l \in Lines : DOMAIN trt'[l] = DOMAIN lines[l]
      BY <1>1, <1>3, PatchedField
    <2> QED
      BY <1>3, <2>1, <2>2 DEF LinesOK
  <1>5. DOMAIN slot' = Slots /\ slot'[s] = None /\ \A x \in Slots \ {s} : slot'[x] = slot[x]
    BY <1>1 DEF IInv
  <1>6. ASSUME Once(m), NEW x \in Slots, slot'[x] # None
        PROVE  BaseOf(slot[x]) # m
    BY <1>1, <1>5, <1>6 DEF NumberOK, Writing
  <1>7. ASSUME NEW x \in Slots PROVE SlotOK(slot[x])'
    <2> SUFFICES ASSUME slot'[x] # None PROVE SlotOK(slot[x])'
      BY DEF SlotOK
    <2>1. slot'[x] = slot[x] /\ SlotOK(slot[x]) /\ slot[x] # None
      BY <1>5 DEF IInv
    <2>2. slot[x].at \in Early => Snapshot(slot[x].now)'
      BY <1>1, <1>6, <2>1 DEF Snapshot, Once, BaseOf
    <2>3. ~(slot[x].at = "reviewed" /\ slot[x].patch.base = version' /\ Once(m))
      BY <1>1, <1>6, <2>1 DEF BaseOf, Early
    <2> QED
      BY <1>1, <2>1, <2>2, <2>3 DEF SlotOK, PatchKeeps, Excludes, Once, BaseOf, Snapshot
  <1>8. ASSUME NEW x \in Slots, slot'[x] # None, slot'[x].at \in Writing PROVE NumberOK(x)'
    <2> DEFINE n == slot[x].number
    <2>1. x # s /\ slot'[x] = slot[x]
      BY <1>5, <1>8
    <2>2. /\ n \in 1 .. latest + 1
          /\ slot[x].at = "stored" => n <= latest
          /\ slot[x].at = "numbered" /\ Once(n) => n = latest + 1
      BY <1>8, <2>1 DEF IInv, NumberOK
    <2>3. ASSUME Once(n)
          PROVE  /\ \A y \in Slots : slot[y] # None => BaseOf(slot[y]) # n
                 /\ \A y \in Slots \ {x} :
                      slot[y] # None /\ slot[y].at \in Writing => slot[y].number # n
      BY <1>8, <2>1, <2>3 DEF IInv, NumberOK
    <2>4. Once(n) => m # n
      BY <1>1, <2>1, <2>3 DEF Writing
    <2>5. ASSUME Once(n)
          PROVE  /\ \A y \in Slots : slot'[y] # None => BaseOf(slot'[y]) # n
                 /\ \A y \in Slots \ {x} :
                      slot'[y] # None /\ slot'[y].at \in Writing => slot'[y].number # n
      BY <1>5, <2>3, <2>5
    <2> QED
      BY <1>1, <2>1, <2>2, <2>4, <2>5 DEF NumberOK, Once, BaseOf
  <1>9. \A x \in Slots : NumberOK(x)'
    BY <1>8 DEF NumberOK
  <1> QED
    BY <1>1, <1>2, <1>4, <1>5, <1>7, <1>9 DEF IInv, LinesOK

\* Together with the invariant, the next-state relation preserves it.
LEMMA NextIInv ==
  IInv /\ [Next]_vars => IInv'
  <1> SUFFICES ASSUME IInv, [Next]_vars PROVE IInv'
    OBVIOUS
  <1>1. ASSUME NEW s \in Slots, Receive(s) PROVE IInv'
    BY <1>1, ReceiveIInv
  <1>2. ASSUME NEW s \in Slots, Ask(s) PROVE IInv'
    BY <1>2, AskIInv
  <1>3. ASSUME NEW s \in Slots, Answer(s) PROVE IInv'
    BY <1>3, AnswerIInv
  <1>4. ASSUME NEW s \in Slots, ModelFails(s) PROVE IInv'
    BY <1>4, NoneOK, SlotStep DEF ModelFails
  <1>5. ASSUME NEW s \in Slots, Apply(s) PROVE IInv'
    BY <1>5, ApplyIInv
  <1>6. ASSUME NEW s \in Slots, Discard(s) PROVE IInv'
    BY <1>6, NoneOK, SlotStep DEF Discard
  <1>7. ASSUME NEW s \in Slots, Number(s) PROVE IInv'
    BY <1>7, NumberIInv
  <1>8. ASSUME NEW s \in Slots, SaveVersion(s) PROVE IInv'
    BY <1>8, SaveVersionIInv
  <1>9. ASSUME NEW s \in Slots, SaveCurrent(s) PROVE IInv'
    BY <1>9, SaveCurrentIInv
  <1>10. CASE UNCHANGED <<releases, mode, slot>>
    <2>1. /\ trt' = trt /\ version' = version /\ latest' = latest /\ twice' = twice
          /\ mode' = mode /\ slot' = slot
      BY <1>10 DEF releases
    <2> QED
      BY <2>1 DEF IInv, LinesOK, SlotOK, NumberOK, Snapshot, PatchKeeps, Excludes, Once, BaseOf
  <1>11. RecordTimes \/ UNCHANGED vars => UNCHANGED <<releases, mode, slot>>
    BY DEF RecordTimes, vars, releases
  <1> QED
    BY <1>1, <1>2, <1>3, <1>4, <1>5, <1>6, <1>7, <1>8, <1>9, <1>10, <1>11 DEF Next

\* The inductive invariant of the requests under way.
THEOREM IntentInvariant == Spec => []IInv
  BY InitIInv, NextIInv, PTL DEF Spec

-----------------------------------------------------------------------------
(* What a release may do. *)

\* Only the last step of an approval changes the current TRT.
LEMMA ReleasingStep ==
  ASSUME IInv, [Next]_vars, NEW s \in Slots, Releases(s)
  PROVE  /\ slot[s] # None /\ slot[s].at = "stored" /\ SlotOK(slot[s])
         /\ trt' = Patched(Before(s), slot[s].patch.ops) /\ mode' = mode
  <1>1. slot[s] # None /\ slot[s].at = "stored" /\ slot'[s] # slot[s] /\ DOMAIN slot = Slots
        /\ SlotOK(slot[s])
    BY DEF Releases, Standing, IInv
  <1>2. ASSUME NEW y \in Slots,
               Receive(y) \/ Ask(y) \/ Answer(y) \/ ModelFails(y) \/ Discard(y)
               \/ Apply(y) \/ Number(y) \/ SaveVersion(y)
        PROVE  FALSE
    <2>1. y = s
      BY <1>1, <1>2
      DEF Receive, Ask, Answer, ModelFails, Discard, Apply, Number, SaveVersion
    <2> QED
      BY <1>1, <1>2, <2>1
      DEF Receive, Ask, Answer, ModelFails, Discard, Apply, Number, SaveVersion, Standing, Reviewed
  <1>3. ASSUME NEW y \in Slots, SaveCurrent(y) PROVE y = s
    BY <1>1, <1>3 DEF SaveCurrent
  <1>4. ~(RecordTimes \/ UNCHANGED vars)
    BY <1>1 DEF RecordTimes, vars
  <1>5. SaveCurrent(s)
    BY <1>2, <1>3, <1>4 DEF Next
  <1> QED
    BY <1>1, <1>5 DEF SaveCurrent, Before

\* The lines after a release, by the operations of its patch.
LEMMA ReleasedField ==
  ASSUME NEW lines, NEW ops, ops \in Seq(Range(ops)), NEW l \in Lines,
         NEW f \in DOMAIN lines[l], Patched(lines, ops)[l][f] # lines[l][f]
  PROVE  \E o \in Range(ops) : o.line = l /\ o.field = f /\ Patched(lines, ops)[l][f] = o.value
  BY PatchedField

\* What the version excludes that a release is made of, the release excludes.
LEMMA ExclusionsStep ==
  ASSUME IInv, [Next]_vars, NEW s \in Slots, NEW l \in Lines, Releases(s),
         slot[s].read.version \notin twice
  PROVE  Before(s)[l].excluded \subseteq trt'[l].excluded
  <1> DEFINE ops == slot[s].patch.ops
             lines == Before(s)
  <1>1. SlotOK(slot[s]) /\ slot[s].at = "stored" /\ slot[s] # None /\ trt' = Patched(lines, ops)
    BY ReleasingStep
  <1>2. ops \in Seq(Range(ops)) /\ LinesOK(lines) /\ Excludes(lines, ops)
    BY <1>1 DEF SlotOK, PatchKeeps, Early, Applying, Writing, Once, Before
  <1> HIDE DEF ops, lines
  <1>3. "excluded" \in DOMAIN lines[l]
    BY <1>2 DEF LinesOK
  <1>4. ASSUME trt'[l]["excluded"] # lines[l]["excluded"]
        PROVE  lines[l].excluded \subseteq trt'[l].excluded
    <2>1. PICK o \in Range(ops) :
            o.line = l /\ o.field = "excluded" /\ trt'[l]["excluded"] = o.value
      BY <1>1, <1>2, <1>3, <1>4, ReleasedField
    <2> QED
      BY <1>2, <2>1 DEF Excludes
  <1> QED
    BY <1>4 DEF lines

\* Throughput and tooling policy of a line in error change only by its name.
LEMMA ErrorLineStep ==
  ASSUME IInv, [Next]_vars, NEW s \in Slots, NEW l \in Lines, Releases(s), mode[l] = "ERROR",
         <<trt'[l].kpi, trt'[l].policy>> # <<Before(s)[l].kpi, Before(s)[l].policy>>
  PROVE  l \in Named(slot[s].request)
  <1> DEFINE patch == slot[s].patch
             lines == Before(s)
  <1>1. SlotOK(slot[s]) /\ slot[s].at = "stored" /\ slot[s] # None
        /\ trt' = Patched(lines, patch.ops)
    BY ReleasingStep
  <1>2. PatchKeeps(slot[s].request, patch) /\ LinesOK(lines)
    BY <1>1 DEF SlotOK, Early, Applying, Writing, Before
  <1>3. trt'[l].kpi # lines[l].kpi \/ trt'[l].policy # lines[l].policy
    OBVIOUS
  <1> HIDE DEF patch, lines
  <1>4. ASSUME NEW f \in {"kpi", "policy"}, trt'[l][f] # lines[l][f]
        PROVE  l \in Named(slot[s].request)
    <2>1. f \in DOMAIN lines[l]
      BY <1>2 DEF LinesOK
    <2>2. \E o \in Range(patch.ops) : o.line = l /\ o.field = f
      <3>1. patch.ops \in Seq(Range(patch.ops))
        BY <1>2 DEF PatchKeeps
      <3> QED
        BY <1>1, <1>4, <2>1, <3>1, ReleasedField
    <2> QED
      BY <1>2, <2>2 DEF PatchKeeps
  <1> QED
    BY <1>3, <1>4

\* A request that names lines leaves all but the throughput of the others.
LEMMA UnnamedStep ==
  ASSUME IInv, [Next]_vars, NEW s \in Slots, Releases(s), Targeted(slot[s].request),
         NEW l \in Lines \ Named(slot[s].request)
  PROVE  trt'[l] = [Before(s)[l] EXCEPT !.kpi = trt'[l].kpi]
  <1> DEFINE patch == slot[s].patch
             lines == Before(s)
  <1>1. SlotOK(slot[s]) /\ slot[s].at = "stored" /\ slot[s] # None
        /\ trt' = Patched(lines, patch.ops)
    BY ReleasingStep
  <1>2. PatchKeeps(slot[s].request, patch)
    BY <1>1 DEF SlotOK, Early
  <1> HIDE DEF patch
  <1>3. patch.ops \in Seq(Range(patch.ops))
    BY <1>2 DEF PatchKeeps
  <1>4. \A o \in Range(patch.ops) : o.line = l => o.field = "kpi"
    BY <1>2 DEF PatchKeeps
  <1>5. l \in Lines
    OBVIOUS
  <1>6. Patched(lines, patch.ops)[l] = [lines[l] EXCEPT !.kpi = Patched(lines, patch.ops)[l].kpi]
    BY <1>3, <1>4, <1>5, KpiPatched
  <1> QED
    BY <1>1, <1>6

\* What a version excludes, the versions made from it exclude: every release is
\* computed from the exclusions of the version it is made of, unless two approvals
\* have written that version under one number.
THEOREM IntentExclusionsAccumulate == Spec => ExclusionsAccumulate
  <1>1. IInv /\ [Next]_vars =>
          [\A s \in Slots, l \in Lines :
             Releases(s) /\ slot[s].read.version \notin twice =>
               Before(s)[l].excluded \subseteq trt'[l].excluded]_vars
    BY ExclusionsStep
  <1> QED
    BY <1>1, IntentInvariant, PTL DEF Spec, ExclusionsAccumulate

\* Throughput and tooling policy of a line in error change only on requests that
\* name the line.
THEOREM IntentErrorLineNamed == Spec => ErrorLineNamed
  <1>1. IInv /\ [Next]_vars =>
          [\A s \in Slots, l \in Lines :
             Releases(s) /\ mode[l] = "ERROR"
             /\ <<trt'[l].kpi, trt'[l].policy>> # <<Before(s)[l].kpi, Before(s)[l].policy>> =>
               l \in Named(slot[s].request)]_vars
    BY ErrorLineStep
  <1> QED
    BY <1>1, IntentInvariant, PTL DEF Spec, ErrorLineNamed

\* A request all of whose parts name lines changes nothing but throughput targets
\* on other lines.
THEOREM IntentUnnamedLinesKept == Spec => UnnamedLinesKept
  <1>1. IInv /\ [Next]_vars =>
          [\A s \in Slots :
             LET c == slot[s].request IN
             Releases(s) /\ Targeted(c) =>
               \A l \in Lines \ Named(c) :
                 trt'[l] = [Before(s)[l] EXCEPT !.kpi = trt'[l].kpi]]_vars
    BY UnnamedStep
  <1> QED
    BY <1>1, IntentInvariant, PTL DEF Spec, UnnamedLinesKept

-----------------------------------------------------------------------------
(***************************************************************************)
(* The values of the simulation configuration.                             *)
(***************************************************************************)

LEMMA Overlay ==
  ASSUME NEW g, NEW h
  PROVE  /\ DOMAIN Over(g, h) = DOMAIN g \cup DOMAIN h
         /\ \A f \in DOMAIN g : Over(g, h)[f] = g[f]
         /\ \A f \in DOMAIN h : f \notin DOMAIN g => Over(g, h)[f] = h[f]
  BY DEF Over

\* The text's values over others: its own where it takes no arithmetic.
LEMMA TextValues ==
  ASSUME NEW sim, NEW said, said # None, NEW f
  PROVE  LET s == WithTextValues(sim, said) IN
         /\ f \in DOMAIN s <=> f \in DOMAIN sim \/ f \in NonArithmetic \cap DOMAIN said.stated
         /\ f \in NonArithmetic \cap DOMAIN said.stated => s[f] = said.stated[f]
         /\ f \in DOMAIN s /\ f \notin NonArithmetic \cap DOMAIN said.stated => s[f] = sim[f]
  <1> DEFINE g == Restricted(said.stated, NonArithmetic)
  <1>1. DOMAIN g = NonArithmetic \cap DOMAIN said.stated
        /\ \A x \in DOMAIN g : g[x] = said.stated[x]
    BY DEF Restricted, Restrict
  <1>2. WithTextValues(sim, said) = Over(g, sim)
    BY DEF WithTextValues
  <1>3. /\ DOMAIN Over(g, sim) = DOMAIN g \cup DOMAIN sim
        /\ \A x \in DOMAIN g : Over(g, sim)[x] = g[x]
        /\ \A x \in DOMAIN sim : x \notin DOMAIN g => Over(g, sim)[x] = sim[x]
    BY Overlay
  <1> DEFINE s == Over(g, sim)
  <1> HIDE DEF g
  <1>4. /\ f \in DOMAIN s <=> f \in DOMAIN sim \/ f \in NonArithmetic \cap DOMAIN said.stated
        /\ f \in NonArithmetic \cap DOMAIN said.stated => s[f] = said.stated[f]
        /\ f \in DOMAIN s /\ f \notin NonArithmetic \cap DOMAIN said.stated => s[f] = sim[f]
    BY <1>1, <1>3
  <1> HIDE DEF s
  <1> QED
    BY <1>2, <1>4 DEF s

\* Does a configuration have the value expected of a field, if any?
Right(sim, f, expected) == f \in DOMAIN sim => sim[f] = expected[f]

\* A text without arithmetic for f asks for what it states.
LEMMA StatedExpected ==
  ASSUME NEW said, NEW base, said # None, Legible(said),
         NEW f \in NonArithmetic \cap DOMAIN said.stated
  PROVE  Expected(said, base)[f] = said.stated[f]
  <1>1. CASE base = None
    BY <1>1 DEF Expected
  <1>2. CASE base # None
    <2> DEFINE g == [x \in DOMAIN said.relative \ Negative(said, base) |->
                       base[x] + said.relative[x]]
    <2>1. Expected(said, base) = Over(g, said.stated)
      BY <1>2 DEF Expected
    <2>2. f \notin DOMAIN g
      BY DEF Legible
    <2>3. \A x \in DOMAIN said.stated : x \notin DOMAIN g => Over(g, said.stated)[x] = said.stated[x]
      BY Overlay
    <2> HIDE DEF g
    <2> QED
      BY <2>1, <2>2, <2>3
  <1> QED
    BY <1>1, <1>2

\* The text's values over right ones are right.
LEMMA TextValuesRight ==
  ASSUME NEW said, NEW base, said # None, Legible(said), NEW sim, NEW f,
         Right(sim, f, Expected(said, base))
  PROVE  Right(WithTextValues(sim, said), f, Expected(said, base))
  <1>1. CASE f \in NonArithmetic \cap DOMAIN said.stated
    BY <1>1, StatedExpected, TextValues DEF Right
  <1>2. CASE f \notin NonArithmetic \cap DOMAIN said.stated
    BY <1>2, TextValues DEF Right
  <1> QED
    BY <1>1, <1>2

\* Values found by the number patterns are right where they are what is expected.
LEMMA CoercedRight ==
  ASSUME NEW c, DOMAIN c = Fields, NEW f, NEW expected, Right(c.sim, f, expected),
         c.said # None =>
           /\ Right(WithTextValues(c.sim, c.said), f, expected)
           /\ Right(c.said.loose, f, expected)
  PROVE  Right(CoerceSimulation(c).sim, f, expected)
  <1> DEFINE values == WithTextValues(c.sim, c.said)
             updates == Over(c.said.loose, values)
  <1>1. CASE c.said = None \/ DOMAIN updates = {}
    BY <1>1 DEF CoerceSimulation
  <1>2. CASE ~(c.said = None \/ DOMAIN updates = {})
    <2>1. CoerceSimulation(c).sim = updates
      BY <1>2 DEF CoerceSimulation, Fields
    <2>2. Right(values, f, expected) /\ Right(c.said.loose, f, expected)
      BY <1>2
    <2> HIDE DEF values
    <2> DEFINE loose == c.said.loose
    <2>3. /\ DOMAIN Over(loose, values) = DOMAIN loose \cup DOMAIN values
          /\ \A x \in DOMAIN loose : Over(loose, values)[x] = loose[x]
          /\ \A x \in DOMAIN values : x \notin DOMAIN loose => Over(loose, values)[x] = values[x]
      <3> HIDE DEF loose
      <3> QED
        BY Overlay
    <2>4. Right(updates, f, expected)
      BY <2>2, <2>3 DEF Right
    <2> QED
      BY <2>1, <2>4
  <1> QED
    BY <1>1, <1>2

\* A request without errors has the expected values, if its parts have none.
LEMMA OwnValuesRight ==
  ASSUME NEW c, Formed(c), c.said # None, \A p \in Range(c.parts) : DOMAIN p.sim = {},
         NEW base, DerivationErrors(c, base) = {}, NEW f \in DOMAIN Expected(c.said, base)
  PROVE  Right(c.sim, f, Expected(c.said, base))
  <1> DEFINE sims == [i \in DOMAIN c.parts |-> c.parts[i].sim]
             n == Len(c.parts) + 1
             fs == sims \o <<c.sim>>
             updates == Merge(fs)
  <1>1. c.parts \in Seq(Range(c.parts)) /\ Len(c.parts) \in Nat /\ DOMAIN c.parts = 1 .. Len(c.parts)
    BY DEF Formed
  <1>2. sims \in Seq(Range(sims)) /\ Len(sims) = Len(c.parts)
    <2>1. sims = [i \in 1 .. Len(c.parts) |-> c.parts[i].sim]
      BY <1>1
    <2> QED
      BY <1>1, <2>1 DEF Range
  <1>3. \A i \in 1 .. Len(c.parts) : DOMAIN sims[i] = {}
    BY <1>1 DEF Range
  <1>4. /\ n \in Nat /\ DOMAIN fs = 1 .. n /\ fs[n] = c.sim
        /\ \A i \in 1 .. n : i # n => DOMAIN fs[i] = {}
    <2> HIDE DEF sims
    <2>1. fs \in Seq(Range(sims) \cup {c.sim}) /\ Len(fs) = n /\ fs[n] = c.sim
          /\ \A i \in 1 .. Len(sims) : fs[i] = sims[i]
      BY <1>1, <1>2
    <2>2. DOMAIN fs = 1 .. n
      BY <2>1
    <2> HIDE DEF fs
    <2> QED
      BY <1>1, <1>2, <1>3, <2>1, <2>2
  <1> HIDE DEF fs, n
  <1>5. ASSUME f \in DOMAIN c.sim PROVE f \in DOMAIN updates /\ updates[f] = c.sim[f]
    <2>1. n \in 1 .. n
      BY <1>1 DEF n
    <2>2. /\ DOMAIN Merge(fs) = UNION {DOMAIN fs[i] : i \in 1 .. n}
          /\ \A x \in DOMAIN Merge(fs) :
               \E i \in 1 .. n : x \in DOMAIN fs[i] /\ Merge(fs)[x] = fs[i][x]
      <3>1. n \in Nat /\ DOMAIN fs = 1 .. n
        BY <1>4
      <3> QED
        BY <3>1, MergedValue
    <2>3. f \in DOMAIN updates
      BY <1>4, <1>5, <2>1, <2>2
    <2>4. PICK i \in 1 .. n : f \in DOMAIN fs[i] /\ updates[f] = fs[i][f]
      BY <2>3, <2>2
    <2>5. i = n
      BY <1>4, <2>4
    <2> QED
      BY <1>4, <2>3, <2>4, <2>5
  <1>6. DOMAIN updates # {} => f \in DOMAIN updates /\ updates[f] = Expected(c.said, base)[f]
    <2>1. DerivationErrors(c, base) =
            (IF base = None THEN {} ELSE Negative(c.said, base))
            \cup IF DOMAIN updates = {} THEN {}
                 ELSE {x \in DOMAIN Expected(c.said, base) :
                         x \notin DOMAIN updates \/ updates[x] # Expected(c.said, base)[x]}
      BY DEF DerivationErrors, fs
    <2> HIDE DEF updates
    <2> QED
      BY <2>1
  <1> HIDE DEF updates
  <1> QED
    BY <1>5, <1>6 DEF Right

\* A part without values of its own takes only right ones over from the text.
LEMMA PartRight ==
  ASSUME NEW e, e.said # None, Readable(e.said), NEW base,
         Silent(e.said.target), Silent(e.said.order),
         NEW f \in DOMAIN Expected(e.said, base),
         NEW p, DOMAIN p = Fields, Legible(p.said), Silent(p.said), DOMAIN p.sim = {}
  PROVE  Right(CoerceSimulation(PartCandidate(e, RepairedPart(e, p))).sim, f,
               Expected(e.said, base))
  <1> DEFINE q == PartCandidate(e, RepairedPart(e, p))
             expected == Expected(e.said, base)
  <1>1. /\ DOMAIN q = Fields
        /\ q.said \in {p.said} \cup {e.said.target, e.said.order}
        /\ q.sim = p.sim \/ q.sim = WithTextValues(p.sim, Or(q.said, e.said))
    BY CompletedPart
  <1>2. Silent(q.said)
    BY <1>1
  <1> HIDE DEF q
  <1>3. Right(p.sim, f, expected)
    BY DEF Right
  <1>4. ASSUME NEW sim, Right(sim, f, expected), q.said # None
        PROVE  Right(WithTextValues(sim, q.said), f, expected)
    <2>1. DOMAIN q.said.stated = {}
      BY <1>2, <1>4 DEF Silent
    <2> DEFINE s == WithTextValues(sim, q.said)
    <2>2. (f \in DOMAIN s <=> f \in DOMAIN sim) /\ (f \in DOMAIN s => s[f] = sim[f])
      BY <1>4, <2>1, TextValues
    <2> HIDE DEF s
    <2>3. Right(s, f, expected)
      BY <1>4, <2>2 DEF Right
    <2> QED
      BY <2>3 DEF s
  <1>5. Right(q.sim, f, expected)
    <2>1. CASE q.sim = p.sim
      BY <1>3, <2>1
    <2>2. CASE q.sim = WithTextValues(p.sim, Or(q.said, e.said)) /\ q.said = None
      <3>1. Legible(e.said)
        BY DEF Readable
      <3>2. q.sim = WithTextValues(p.sim, e.said)
        BY <2>2 DEF Or
      <3> QED
        BY <1>3, <3>1, <3>2, TextValuesRight
    <2>3. CASE q.sim = WithTextValues(p.sim, Or(q.said, e.said)) /\ q.said # None
      <3>1. q.sim = WithTextValues(p.sim, q.said)
        BY <2>3 DEF Or
      <3> QED
        BY <1>3, <1>4, <2>3, <3>1
    <2> QED
      BY <1>1, <2>1, <2>2, <2>3
  <1>6. q.said # None => Right(WithTextValues(q.sim, q.said), f, expected)
    BY <1>4, <1>5
  <1>7. q.said # None => Right(q.said.loose, f, expected)
    BY <1>2 DEF Silent, Right
  <1> HIDE DEF expected
  <1>8. Right(CoerceSimulation(q).sim, f, expected)
    BY <1>1, <1>5, <1>6, <1>7, CoercedRight
  <1> QED
    BY <1>8 DEF q, expected

\* Merged right values are right.
LEMMA MergedRight ==
  ASSUME NEW n \in Nat, NEW fs, DOMAIN fs = 1 .. n, NEW f, NEW expected,
         \A i \in 1 .. n : Right(fs[i], f, expected)
  PROVE  Right(Merge(fs), f, expected)
  <1> SUFFICES ASSUME f \in DOMAIN Merge(fs) PROVE Merge(fs)[f] = expected[f]
    BY DEF Right
  <1>1. \A x \in DOMAIN Merge(fs) : \E i \in 1 .. n : x \in DOMAIN fs[i] /\ Merge(fs)[x] = fs[i][x]
    BY MergedValue
  <1>2. PICK i \in 1 .. n : f \in DOMAIN fs[i] /\ Merge(fs)[f] = fs[i][f]
    BY <1>1
  <1> QED
    BY <1>2 DEF Right

LEMMA RequestRight ==
  ASSUME NEW c, FormedRequest(c), c.said # None, SaidOnce(c), NEW now, NEW base,
         Normalized(c, now, base) # None,
         NEW f \in DOMAIN Expected(c.said, base),
         Right(c.said.loose, f, Expected(c.said, base))
  PROVE  Right(Normalized(c, now, base).sim, f, Expected(c.said, base))
  <1> DEFINE patch == Normalized(c, now, base)
             expected == Expected(c.said, base)
             e == Expanded(c)
             q(i) == PartCandidate(e, RepairedPart(e, e.parts[i]))
             patches == [i \in DOMAIN e.parts |-> NormalizedPart(q(i), now)]
  <1>1. DerivationErrors(c, base) = {}
        /\ patch = IF e.parts # <<>> THEN Joined(e, patches) ELSE NormalizedPart(e, now)
    BY DEF Normalized, Composite
  <1>2. Readable(c.said) /\ Legible(c.said) /\ Formed(c) /\ \A r \in Parts(c) : Silent(r.said) /\ DOMAIN r.sim = {}
    BY DEF FormedRequest, Formed, Readable, SaidOnce
  <1>3. /\ DOMAIN e = Fields /\ e.said = c.said /\ e.base = c.base
        /\ e.parts \in Seq(Range(e.parts))
        /\ e.sim = IF DOMAIN c.sim = {} THEN c.sim ELSE WithTextValues(c.sim, c.said)
        /\ \A p \in Range(e.parts) : PartOf(c, p)
    BY ExpandedRequest
  <1> HIDE DEF patch, e
  <1>4. Right(c.sim, f, expected)
    <2>1. \A p \in Range(c.parts) : DOMAIN p.sim = {}
      BY <1>2 DEF Parts
    <2> QED
      BY <1>1, <1>2, <2>1, OwnValuesRight
  <1>5. Right(e.sim, f, expected)
    <2>1. Right(WithTextValues(c.sim, c.said), f, expected)
      BY <1>2, <1>4, TextValuesRight
    <2> QED
      BY <1>3, <1>4, <2>1
  <1>6. Right(WithTextValues(e.sim, e.said), f, expected)
    BY <1>2, <1>3, <1>5, TextValuesRight
  <1>7. CASE e.parts = <<>>
    <2>1. patch = NormalizedPart(e, now) /\ patch # None
      BY <1>1, <1>7 DEF patch
    <2>2. patch.sim = CoerceSimulation(e).sim
      BY <1>2, <1>3, <2>1, PatchOfPart
    <2> HIDE DEF expected
    <2>3. Right(CoerceSimulation(e).sim, f, expected)
      <3>1. Right(e.said.loose, f, expected)
        BY <1>3 DEF expected
      <3> QED
        BY <1>3, <1>5, <1>6, <3>1, CoercedRight
    <2> QED
      BY <2>2, <2>3 DEF patch, expected
  <1>8. CASE e.parts # <<>>
    <2> DEFINE n == Len(e.parts)
               own == WithTextValues(e.sim, e.said)
               sims == [i \in DOMAIN patches |-> patches[i].sim]
               fs == <<own>> \o sims
    <2>1. n \in Nat /\ DOMAIN e.parts = 1 .. n
      BY <1>3
    <2>2. patch = Joined(e, patches) /\ patch # None
      BY <1>1, <1>8 DEF patch
    <2>3. DOMAIN patches = 1 .. n
      BY <2>1
    <2> HIDE DEF patches
    <2>4. None \notin Range(patches) /\ patch.sim = Merge(fs)
      BY <2>2 DEF Joined
    <2>5. ASSUME NEW i \in 1 .. n PROVE Right(sims[i], f, expected)
      <3>1. patches[i] = NormalizedPart(q(i), now)
        BY <2>1 DEF patches
      <3>2. patches[i] # None /\ sims[i] = patches[i].sim
        BY <2>3, <2>4 DEF Range
      <3>3. PartOf(c, e.parts[i])
        BY <1>3, <2>1 DEF Range
      <3> DEFINE p == e.parts[i]
      <3>4. DOMAIN p = Fields /\ Legible(p.said) /\ Silent(p.said) /\ DOMAIN p.sim = {}
        BY <1>2, <3>3 DEF PartOf, Silent
      <3> HIDE DEF p
      <3>5. DOMAIN q(i) = Fields /\ Legible(q(i).said)
        BY <1>2, <1>3, <3>4, CompletedPart DEF p
      <3>6. patches[i].sim = CoerceSimulation(q(i)).sim
        <4> HIDE DEF q
        <4> QED
          BY <3>1, <3>2, <3>5, PatchOfPart
      <3>7. Silent(e.said.target) /\ Silent(e.said.order)
        BY <1>3 DEF SaidOnce
      <3>8. Right(CoerceSimulation(q(i)).sim, f, expected)
        BY <1>2, <1>3, <3>4, <3>7, PartRight DEF p
      <3> QED
        BY <3>2, <3>6, <3>8
    <2>6. /\ DOMAIN fs = 1 .. n + 1 /\ fs[1] = own
          /\ \A i \in 1 .. n : fs[i + 1] = sims[i]
      <3>1. DOMAIN sims = 1 .. n
        BY <2>3
      <3>2. sims = [i \in 1 .. n |-> sims[i]]
        BY <2>3
      <3>3. sims \in Seq(Range(sims)) /\ Len(sims) = n
        BY <2>1, <3>1, <3>2 DEF Range
      <3> HIDE DEF sims, own, n
      <3> DEFINE T == Range(sims) \cup {own}
                 first == <<own>>
      <3>4. first \in Seq(T) /\ sims \in Seq(T) /\ Len(first) = 1 /\ first[1] = own
        BY <3>3
      <3> HIDE DEF T, first
      <3>5. /\ Len(first \o sims) = Len(first) + Len(sims)
            /\ \A i \in 1 .. Len(first) + Len(sims) :
                  (first \o sims)[i] = IF i <= Len(first) THEN first[i] ELSE sims[i - Len(first)]
            /\ first \o sims \in Seq(T)
        BY <3>4, ConcatProperties
      <3>6. DOMAIN (first \o sims) = 1 .. n + 1
        BY <2>1, <3>3, <3>4, <3>5
      <3>7. (first \o sims)[1] = own
        BY <2>1, <3>3, <3>4, <3>5
      <3>8. \A i \in 1 .. n : (first \o sims)[i + 1] = sims[i]
        BY <2>1, <3>3, <3>4, <3>5
      <3> QED
        BY <3>6, <3>7, <3>8 DEF first
    <2> HIDE DEF fs, sims, own, n
    <2>7. \A i \in 1 .. n + 1 : Right(fs[i], f, expected)
      <3> TAKE i \in 1 .. n + 1
      <3>1. CASE i = 1
        BY <1>6, <2>6, <3>1 DEF own
      <3>2. CASE i # 1
        <4>1. i - 1 \in 1 .. n /\ fs[i] = sims[i - 1]
          BY <2>1, <2>6, <3>2
        <4> QED
          BY <2>5, <4>1
      <3> QED
        BY <3>1, <3>2
    <2> HIDE DEF expected
    <2>8. Right(Merge(fs), f, expected)
      BY <2>1, <2>6, <2>7, MergedRight
    <2> QED
      BY <2>4, <2>8 DEF patch, expected
  <1> QED
    BY <1>7, <1>8

\* What RequestedValuesReviewed says of one slot.
ValuesKept(r) ==
  r # None /\ r.at = "reviewed" /\ r.request.said # None /\ SaidOnce(r.request) =>
    \A f \in DOMAIN Expected(r.request.said, r.base) \cap DOMAIN r.patch.sim :
      Right(r.request.said.loose, f, Expected(r.request.said, r.base)) =>
        r.patch.sim[f] = Expected(r.request.said, r.base)[f]

LEMMA OutcomeKeeps ==
  ASSUME NEW c, FormedRequest(c), NEW now, NEW base
  PROVE  ValuesKept(Outcome(c, now, base))
  <1> DEFINE patch == Normalized(c, now, base)
             r == Outcome(c, now, base)
  <1>1. CASE patch = None
    BY <1>1 DEF Outcome, Reviewing, ValuesKept
  <1>2. CASE patch # None
    <2>1. r = [at |-> "reviewed", request |-> c, base |-> base, patch |-> patch]
      BY <1>2 DEF Outcome, Reviewing
    <2>2. ASSUME c.said # None, SaidOnce(c),
                 NEW f \in DOMAIN Expected(c.said, base) \cap DOMAIN patch.sim,
                 Right(c.said.loose, f, Expected(c.said, base))
          PROVE  patch.sim[f] = Expected(c.said, base)[f]
      BY <1>2, <2>2, RequestRight DEF Right
    <2> HIDE DEF patch, r
    <2>3. ValuesKept(r)
      BY <2>1, <2>2 DEF ValuesKept
    <2> QED
      BY <2>3 DEF r
  <1> QED
    BY <1>1, <1>2

AllKept == \A s \in Slots : ValuesKept(slot[s])

\* Only Receive and Answer complete a request; they complete it with right values.
LEMMA NextKeeps ==
  ASSUME IInv, AllKept, [Next]_vars
  PROVE  AllKept'
  <1>1. ASSUME NEW s \in Slots, NEW r, ValuesKept(r), slot' = [slot EXCEPT ![s] = r]
        PROVE  AllKept'
    <2>1. \A x \in Slots : ValuesKept(slot'[x])
      BY <1>1 DEF AllKept, IInv
    <2> QED
      BY <2>1 DEF AllKept, ValuesKept
  <1>2. ValuesKept(None)
    BY DEF ValuesKept
  <1>3. ASSUME NEW s \in Slots, Receive(s) PROVE AllKept'
    <2>1. PICK candidate \in Candidates, claimed \in 1 .. version :
            slot' = [slot EXCEPT ![s] =
              IF DerivationErrors(Recovered([candidate EXCEPT !.base = claimed], times), times) = {}
              THEN Outcome(Recovered([candidate EXCEPT !.base = claimed], times),
                           [trt |-> trt, version |-> version], times)
              ELSE [at |-> "regenerate",
                    request |-> Recovered([candidate EXCEPT !.base = claimed], times),
                    now |-> [trt |-> trt, version |-> version], base |-> times]]
      BY <1>3 DEF Receive
    <2> DEFINE c == Recovered([candidate EXCEPT !.base = claimed], times)
               now == [trt |-> trt, version |-> version]
               o == Outcome(c, now, times)
               asked == [at |-> "regenerate", request |-> c, now |-> now, base |-> times]
               r == IF DerivationErrors(c, times) = {} THEN o ELSE asked
    <2>2. FormedRequest(c)
      BY ReceivedFormed
    <2> HIDE DEF c, now
    <2>3. ValuesKept(o)
      BY <2>2, OutcomeKeeps
    <2>4. ValuesKept(asked)
      BY DEF ValuesKept
    <2>5. ValuesKept(r)
      <3> HIDE DEF o, asked
      <3> QED
        BY <2>3, <2>4
    <2>6. slot' = [slot EXCEPT ![s] = r]
      BY <2>1 DEF c, now
    <2> HIDE DEF r
    <2> QED
      BY <1>1, <2>5, <2>6
  <1>4. ASSUME NEW s \in Slots, Answer(s) PROVE AllKept'
    <2>1. PICK updates \in Regenerations :
            slot' = [slot EXCEPT ![s] =
              IF DerivationErrors(Regenerated(slot[s].request, slot[s].base, updates), slot[s].asked) = {}
              THEN Outcome(Regenerated(slot[s].request, slot[s].base, updates), slot[s].now, slot[s].base)
              ELSE IF slot[s].tries + 1 < MaxAttempts
                   THEN [slot[s] EXCEPT !.tries = slot[s].tries + 1] ELSE None]
      BY <1>4 DEF Answer, IInv
    <2> DEFINE c == Regenerated(slot[s].request, slot[s].base, updates)
               o == Outcome(c, slot[s].now, slot[s].base)
               again == [slot[s] EXCEPT !.tries = slot[s].tries + 1]
               r == IF DerivationErrors(c, slot[s].asked) = {} THEN o
                    ELSE IF slot[s].tries + 1 < MaxAttempts THEN again ELSE None
    <2>2. slot[s] # None /\ slot[s].at = "model" /\ FormedRequest(slot[s].request)
      BY <1>4 DEF Answer, IInv, SlotOK
    <2>3. FormedRequest(c)
      BY <2>2, ValuesFormed DEF Regenerated
    <2> HIDE DEF c
    <2>4. ValuesKept(o)
      BY <2>3, OutcomeKeeps
    <2>5. ValuesKept(again)
      <3>1. again.at = slot[s].at
        OBVIOUS
      <3> HIDE DEF again
      <3> QED
        BY <2>2, <3>1 DEF ValuesKept
    <2>6. ValuesKept(r)
      <3> HIDE DEF o, again
      <3> QED
        BY <1>2, <2>4, <2>5
    <2>7. slot' = [slot EXCEPT ![s] = r]
      BY <2>1 DEF c
    <2> HIDE DEF r
    <2> QED
      BY <1>1, <2>6, <2>7
  <1>5. ASSUME NEW s \in Slots, Ask(s) PROVE AllKept'
    <2> DEFINE r == [at |-> "model", request |-> slot[s].request, now |-> slot[s].now,
                     base |-> slot[s].base, asked |-> times, tries |-> 0]
    <2>1. slot' = [slot EXCEPT ![s] = r]
      BY <1>5 DEF Ask, IInv
    <2>2. ValuesKept(r)
      BY DEF ValuesKept
    <2> HIDE DEF r
    <2> QED
      BY <1>1, <2>1, <2>2
  <1>6. ASSUME NEW s \in Slots, ModelFails(s) \/ Discard(s) \/ SaveCurrent(s) PROVE AllKept'
    BY <1>1, <1>2, <1>6 DEF ModelFails, Discard, SaveCurrent
  <1>8. ASSUME NEW s \in Slots, Apply(s) \/ Number(s) \/ SaveVersion(s) PROVE AllKept'
    <2>1. \A x \in Slots \ {s} : slot'[x] = slot[x]
      BY <1>8 DEF Apply, Number, SaveVersion, IInv
    <2>2. s \in DOMAIN slot
      BY DEF IInv
    <2>6. slot'[s] = None \/ slot'[s].at # "reviewed"
      <3>1. CASE Apply(s)
        BY <2>2, <3>1 DEF Apply
      <3>2. CASE Number(s)
        BY <2>2, <3>2 DEF Number
      <3>3. CASE SaveVersion(s)
        <4> DEFINE r == [slot[s] EXCEPT !.at = "stored"]
        <4>1. slot' = [slot EXCEPT ![s] = r]
          BY <3>3 DEF SaveVersion
        <4>2. r.at = "stored"
          BY <3>3 DEF SaveVersion, Standing
        <4> QED
          BY <2>2, <4>1, <4>2
      <3> QED
        BY <1>8, <3>1, <3>2, <3>3
    <2> QED
      BY <2>1, <2>6 DEF AllKept, ValuesKept
  <1>7. CASE RecordTimes \/ UNCHANGED vars
    BY <1>7 DEF RecordTimes, vars, AllKept, ValuesKept
  <1> QED
    BY <1>3, <1>4, <1>5, <1>6, <1>7, <1>8 DEF Next

\* The simulation values that are reviewed are the requested ones, counted from the
\* state recorded when the request came, whatever changed while the model answered.
THEOREM IntentRequestedValues == Spec => []RequestedValuesReviewed
  <1>1. Init => AllKept
    BY DEF Init, AllKept, ValuesKept
  <1>2. IInv /\ AllKept /\ [Next]_vars => AllKept'
    BY NextKeeps
  <1>3. AllKept => RequestedValuesReviewed
    BY DEF AllKept, ValuesKept, RequestedValuesReviewed, Reviewed, Standing, Right
  <1> QED
    BY <1>1, <1>2, <1>3, IntentInvariant, PTL DEF Spec

================================================================================
