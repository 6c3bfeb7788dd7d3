--------------------------- MODULE AgentTurnProofs ---------------------------
(***************************************************************************)
(* What the tool loop of one turn promises, for every set of tools and     *)
(* rules, any number of tool uses, iterations and suspensions, compaction  *)
(* included: of the calls of the tools and of the history; of the tools of *)
(* a streamed reply; and what is shown of a job whose turns end, whatever  *)
(* is asked of it in between.                                              *)
(***************************************************************************)
EXTENDS AgenticLoop, TurnOutcome, ResponseStream, SequenceLemmas, FiniteSetTheorems

-----------------------------------------------------------------------------
(* The permission checker.                                                  *)

RuleRec == [matches : SUBSET Tool, decision : Decisions, priority : Int]

\* The rules that are about a tool.
About(tool) == {r \in RuleRec : tool \in r.matches}

LEMMA RuleAt ==
  /\ Rules \in Seq(RuleRec) /\ Len(Rules) \in Nat /\ DOMAIN Rules = 1 .. Len(Rules)
  /\ \A i \in 1 .. Len(Rules) : Rules[i] \in RuleRec
<1>1. Rules \in Seq(RuleRec)
  BY LoopAssumption DEF RuleRec
<1> QED
  BY <1>1

LEMMA MatchingAbout ==
  ASSUME NEW s \in Seq(RuleRec), NEW tool
  PROVE  Matching(s, tool) = KeepOnly(s, About(tool)) /\ Matching(s, tool) \in Seq(RuleRec)
<1> DEFINE M == {r \in Range(s) : tool \in r.matches}
<1>1. Range(s) \subseteq RuleRec
  BY DEF Range
<1>2. Range(s) \cap M = Range(s) \cap About(tool)
  BY <1>1 DEF About
<1>3. KeepOnly(s, M) = KeepOnly(s, About(tool))
  BY <1>2, KeepSame
<1> QED
  BY <1>3, KeepRange DEF Matching

\* A sequence of rules one rule longer, and the rules it keeps.
LEMMA OneRule ==
  ASSUME NEW rule \in RuleRec, NEW S
  PROVE  <<rule>> \in Seq(RuleRec) /\ KeepOnly(<<rule>>, S) = IF rule \in S THEN <<rule>> ELSE <<>>
<1>1. <<rule>> = Append(<<>>, rule) /\ <<>> \in Seq(RuleRec)
  OBVIOUS
<1>2. KeepOnly(<<>>, S) = <<>>
  BY KeepEmpty
<1>3. KeepOnly(Append(<<>>, rule), S) = IF rule \in S THEN Append(<<>>, rule) ELSE <<>>
  BY <1>1, <1>2, KeepAppend
<1> QED
  BY <1>1, <1>3

\* What add_rule leaves of the rules about a tool: those with at least its
\* priority, the rule itself if it is about the tool, and the others.
LEMMA AddedAbout ==
  ASSUME NEW s \in Seq(RuleRec), NEW rule \in RuleRec, NEW tool
  PROVE  /\ AddRule(s, rule) \in Seq(RuleRec)
         /\ LET q == Matching(s, tool) IN
            Matching(AddRule(s, rule), tool) =
              (KeepOnly(q, {r \in RuleRec : r.priority >= rule.priority})
                 \o (IF tool \in rule.matches THEN <<rule>> ELSE <<>>))
                 \o KeepOnly(q, {r \in RuleRec : r.priority < rule.priority})
<1> DEFINE Hi == {r \in RuleRec : r.priority >= rule.priority}
           Lo == {r \in RuleRec : r.priority < rule.priority}
           M == About(tool)
           q == Matching(s, tool)
           hi == KeepOnly(s, Hi)
           lo == KeepOnly(s, Lo)
<1>1. Range(s) \subseteq RuleRec
  BY DEF Range
<1>2. AddRule(s, rule) = (hi \o <<rule>>) \o lo
  <2>1. Range(s) \cap {r \in Range(s) : r.priority >= rule.priority} = Range(s) \cap Hi
    BY <1>1
  <2>2. Range(s) \cap {r \in Range(s) : r.priority < rule.priority} = Range(s) \cap Lo
    BY <1>1
  <2>3. KeepOnly(s, {r \in Range(s) : r.priority >= rule.priority}) = hi
    BY <2>1, KeepSame
  <2>4. KeepOnly(s, {r \in Range(s) : r.priority < rule.priority}) = lo
    BY <2>2, KeepSame
  <2> QED
    BY <2>3, <2>4 DEF AddRule
<1>3. hi \in Seq(RuleRec) /\ lo \in Seq(RuleRec) /\ <<rule>> \in Seq(RuleRec)
  BY KeepRange, OneRule
<1> HIDE DEF hi, lo
<1> DEFINE front == hi \o <<rule>>
<1>4. front \in Seq(RuleRec) /\ front \o lo \in Seq(RuleRec)
  BY <1>3
<1>5. KeepOnly(front, M) = KeepOnly(hi, M) \o KeepOnly(<<rule>>, M)
  BY <1>3, KeepConcat
<1> HIDE DEF front
<1>6. KeepOnly(front \o lo, M) = KeepOnly(front, M) \o KeepOnly(lo, M)
  BY <1>3, <1>4, KeepConcat
<1>7. KeepOnly(<<rule>>, M) = IF tool \in rule.matches THEN <<rule>> ELSE <<>>
  BY OneRule DEF About
<1>8. ASSUME NEW S PROVE KeepOnly(KeepOnly(s, S), M) = KeepOnly(q, S)
  <2>1. q = KeepOnly(s, M)
    BY MatchingAbout
  <2>2. KeepOnly(KeepOnly(s, S), M) = KeepOnly(s, S \cap M)
    BY KeepAgain
  <2>3. KeepOnly(KeepOnly(s, M), S) = KeepOnly(s, M \cap S)
    BY KeepAgain
  <2>4. S \cap M = M \cap S
    OBVIOUS
  <2> QED
    BY <2>1, <2>2, <2>3, <2>4
<1>9. Matching(AddRule(s, rule), tool) = KeepOnly(front \o lo, M)
  BY <1>2, <1>4, MatchingAbout DEF front
<1> HIDE DEF q, M
<1>10. KeepOnly(hi, M) = KeepOnly(q, Hi) /\ KeepOnly(lo, M) = KeepOnly(q, Lo)
  BY <1>8 DEF hi, lo
<1> QED
  BY <1>2, <1>4, <1>5, <1>6, <1>7, <1>9, <1>10 DEF q, front

\* The first of a list is one of the highest priority.
LedByHighest(q) == q # <<>> => \A r \in Range(q) : r.priority <= Head(q).priority

\* What is left of a list of rules about a tool when one more is added.
AfterAdding(q, rule, about) ==
  (KeepOnly(q, {r \in RuleRec : r.priority >= rule.priority})
     \o (IF about THEN <<rule>> ELSE <<>>))
     \o KeepOnly(q, {r \in RuleRec : r.priority < rule.priority})

\* A rule that is added comes first of those about a tool if its priority is
\* higher than what came first.
LEMMA FirstOfAdded ==
  ASSUME NEW q \in Seq(RuleRec), LedByHighest(q), NEW rule \in RuleRec, NEW about \in BOOLEAN, NEW z,
         z = AfterAdding(q, rule, about)
  PROVE  /\ LedByHighest(z)
         /\ ~about => (q = <<>> => z = <<>>) /\ (q # <<>> => z # <<>> /\ Head(z) = Head(q))
         /\ about => z # <<>> /\ Head(z) = IF q # <<>> /\ Head(q).priority >= rule.priority THEN Head(q) ELSE rule
<1> DEFINE Hi == {r \in RuleRec : r.priority >= rule.priority}
           Lo == {r \in RuleRec : r.priority < rule.priority}
           hi == KeepOnly(q, Hi)
           lo == KeepOnly(q, Lo)
           mid == IF about THEN <<rule>> ELSE <<>>
<1>1. hi \in Seq(RuleRec) /\ lo \in Seq(RuleRec) /\ mid \in Seq(RuleRec)
  BY KeepRange, OneRule
<1>2. Range(hi) = Range(q) \cap Hi /\ Range(lo) = Range(q) \cap Lo
  BY KeepRange
<1>3. Range(q) \subseteq RuleRec /\ rule.priority \in Int
  <2>1. Range(q) \subseteq RuleRec
    BY DEF Range
  <2> QED
    BY <2>1 DEF RuleRec
<1>4. about => mid # <<>> /\ Head(mid) = rule /\ Range(mid) = {rule}
  <2>1. SUFFICES ASSUME about PROVE mid # <<>> /\ Head(mid) = rule /\ Range(mid) = {rule}
    OBVIOUS
  <2>2. mid = <<rule>>
    BY <2>1
  <2>3. Range(<<rule>>) = {rule}
    BY DEF Range
  <2> QED
    BY <2>2, <2>3
<1>5. ~about => mid = <<>> /\ Range(mid) = {}
  BY EmptyRange
<1>6. z = (hi \o mid) \o lo
  BY DEF AfterAdding
<1>7. q = <<>> => hi = <<>> /\ lo = <<>> /\ Range(q) = {}
  BY KeepEmpty, EmptyRange
<1>8. q # <<>> => Head(q) \in RuleRec /\ Head(q) \in Range(q)
  BY TailRange
<1>9. q # <<>> /\ Head(q).priority >= rule.priority => hi # <<>> /\ Head(hi) = Head(q)
  <2>1. SUFFICES ASSUME q # <<>>, Head(q).priority >= rule.priority PROVE hi # <<>> /\ Head(hi) = Head(q)
    OBVIOUS
  <2>2. Head(q) \in Hi
    BY <1>8, <2>1
  <2> HIDE DEF Hi
  <2> QED
    BY <2>1, <2>2, KeepHead
<1>10. q # <<>> /\ ~(Head(q).priority >= rule.priority) =>
         hi = <<>> /\ lo # <<>> /\ Head(lo) = Head(q)
  <2>1. SUFFICES ASSUME q # <<>>, ~(Head(q).priority >= rule.priority)
                 PROVE  hi = <<>> /\ lo # <<>> /\ Head(lo) = Head(q)
    OBVIOUS
  <2>2. Head(q).priority \in Int
    BY <1>8, <2>1 DEF RuleRec
  <2>3. Head(q) \in Lo
    BY <1>3, <1>8, <2>1, <2>2
  <2>4. Range(q) \cap Hi = {}
    <3>1. ASSUME NEW r \in Range(q) PROVE ~(r.priority >= rule.priority)
      <4>1. r.priority <= Head(q).priority /\ r.priority \in Int
        BY <1>3, <2>1 DEF LedByHighest, RuleRec
      <4> QED
        BY <1>3, <2>1, <2>2, <4>1
    <3> QED
      BY <3>1
  <2> HIDE DEF Hi, Lo, hi, lo
  <2>5. hi = <<>>
    <3>1. Range(hi) = {}
      BY <1>2, <2>4
    <3>2. hi # <<>> => Head(hi) \in Range(hi)
      BY <1>1, TailRange
    <3> QED
      BY <3>1, <3>2
  <2>6. lo # <<>> /\ Head(lo) = Head(q)
    BY <2>1, <2>3, KeepHead DEF lo
  <2> QED
    BY <2>5, <2>6
<1> HIDE DEF hi, lo, mid, Hi, Lo
<1> DEFINE front == hi \o mid
<1>11. /\ front \in Seq(RuleRec) /\ Range(front) = Range(hi) \cup Range(mid)
       /\ hi # <<>> => front # <<>> /\ Head(front) = Head(hi)
       /\ hi = <<>> => front = mid
  BY <1>1, ConcatHead
<1>12. z = front \o lo
  BY <1>6
<1> HIDE DEF front
<1>13. /\ z \in Seq(RuleRec) /\ Range(z) = Range(front) \cup Range(lo)
       /\ front # <<>> => z # <<>> /\ Head(z) = Head(front)
       /\ front = <<>> => z = lo
  <2>1. /\ front \o lo \in Seq(RuleRec) /\ Range(front \o lo) = Range(front) \cup Range(lo)
        /\ front # <<>> => front \o lo # <<>> /\ Head(front \o lo) = Head(front)
        /\ front = <<>> => front \o lo = lo
    BY <1>1, <1>11, ConcatHead
  <2> QED
    BY <1>12, <2>1
<1>14. ~about => (q = <<>> => z = <<>>) /\ (q # <<>> => z # <<>> /\ Head(z) = Head(q))
  BY <1>5, <1>7, <1>9, <1>10, <1>11, <1>13
<1>15. about => z # <<>> /\ Head(z) = IF q # <<>> /\ Head(q).priority >= rule.priority THEN Head(q) ELSE rule
  BY <1>4, <1>7, <1>9, <1>10, <1>11, <1>13
<1>16. Range(z) \subseteq Range(q) \cup Range(mid)
  BY <1>2, <1>11, <1>13
<1>17. LedByHighest(z)
  <2> SUFFICES ASSUME z # <<>>, NEW r \in Range(z) PROVE r.priority <= Head(z).priority
    BY DEF LedByHighest
  <2>1. r \in Range(q) => q # <<>> /\ r.priority <= Head(q).priority /\ r.priority \in Int
    BY <1>3, <1>7 DEF LedByHighest, RuleRec
  <2>2. q # <<>> => Head(q).priority \in Int
    BY <1>8 DEF RuleRec
  <2>3. CASE about
    <3>1. r \in Range(q) \/ r = rule
      BY <1>4, <1>16, <2>3
    <3>2. CASE q # <<>> /\ Head(q).priority >= rule.priority
      <4>1. Head(z) = Head(q)
        BY <1>15, <2>3, <3>2
      <4> QED
        BY <1>3, <2>1, <2>2, <3>1, <3>2, <4>1
    <3>3. CASE ~(q # <<>> /\ Head(q).priority >= rule.priority)
      <4>1. Head(z) = rule
        BY <1>15, <2>3, <3>3
      <4> QED
        BY <1>3, <2>1, <2>2, <3>1, <3>3, <4>1
    <3> QED
      BY <3>2, <3>3
  <2>4. CASE ~about
    BY <1>5, <1>14, <1>16, <2>1, <2>2, <2>4
  <2> QED
    BY <2>3, <2>4
<1> QED
  BY <1>14, <1>15, <1>17

\* The list after each rule that was added.
LEMMA AddedDef ==
  /\ Added[0] = <<>>
  /\ \A n \in 1 .. Len(Rules) : Added[n] = AddRule(Added[n - 1], Rules[n])
  /\ \A n \in 0 .. Len(Rules) : Added[n] \in Seq(RuleRec)
<1> DEFINE N == Len(Rules)
           S == Seq(RuleRec)
           g == [n \in 1 .. N |-> [v \in S |-> AddRule(v, Rules[n])]]
           Body(h, n) == IF n = 0 THEN <<>> ELSE AddRule(h[n - 1], Rules[n])
<1>1. N \in Nat /\ <<>> \in S
  BY RuleAt
<1>2. \A n \in 1 .. N : \A v \in S : AddRule(v, Rules[n]) \in S
  BY RuleAt, AddedAbout
<1>3. /\ g \in [1 .. N -> [S -> S]]
      /\ \A n \in 1 .. N : \A v \in S : g[n][v] = AddRule(v, Rules[n])
  BY <1>2
<1> HIDE DEF g, S, N
<1>4. PICK f \in [0 .. N -> S] : f[0] = <<>> /\ \A n \in 1 .. N : f[n] = g[n][f[n - 1]]
  <2>1. Stepwise(N, S, <<>>, g) # {}
    BY ONLY <1>1, <1>3, StepwiseExists
  <2> QED
    BY <2>1 DEF Stepwise
<1>5. \A n \in 0 .. N : f[n] = Body(f, n)
  <2> TAKE n \in 0 .. N
  <2>1. CASE n = 0
    BY <1>4, <2>1
  <2>2. CASE n # 0
    <3>1. n \in 1 .. N /\ n - 1 \in 0 .. N
      BY <1>1, <2>2
    <3>2. f[n - 1] \in S /\ f[n] = g[n][f[n - 1]]
      BY <1>4, <3>1
    <3>3. f[n] = AddRule(f[n - 1], Rules[n])
      BY <1>3, <3>1, <3>2
    <3> QED
      BY <2>2, <3>3
  <2> QED
    BY <2>1, <2>2
<1>6. Added = CHOOSE h : h = [n \in 0 .. N |-> Body(h, n)]
  BY DEF Added, N
<1> HIDE DEF Body
<1>7. f = [n \in 0 .. N |-> Body(f, n)]
  <2>1. f = [n \in 0 .. N |-> f[n]]
    BY <1>4
  <2>2. [n \in 0 .. N |-> f[n]] = [n \in 0 .. N |-> Body(f, n)]
    BY <1>5
  <2> QED
    BY <2>1, <2>2
<1> DEFINE k == Added
<1>8. k = [n \in 0 .. N |-> Body(k, n)]
  BY <1>6, <1>7
<1> HIDE DEF k
<1>9. \A n \in 0 .. N : k[n] = Body(k, n)
  BY <1>8
<1>10. k[0] = <<>> /\ \A n \in 1 .. N : k[n] = AddRule(k[n - 1], Rules[n])
  BY <1>1, <1>9 DEF Body
<1>11. \A n \in 0 .. N : k[n] \in S
  <2> DEFINE Bad == {n \in 0 .. N : k[n] \notin S}
  <2>1. SUFFICES ASSUME Bad # {} PROVE FALSE
    OBVIOUS
  <2>2. PICK n \in Bad : \A i \in Bad : n <= i
    <3>1. Bad \in SUBSET Nat
      OBVIOUS
    <3> HIDE DEF Bad
    <3> QED
      BY <2>1, <3>1, LeastExists
  <2>3. n \in 1 .. N /\ n - 1 \in 0 .. N
    BY <1>1, <1>10, <2>2
  <2>4. k[n - 1] \in S
    BY <2>2, <2>3
  <2>5. k[n] \in S
    BY <1>2, <1>10, <2>3, <2>4
  <2> QED
    BY <2>2, <2>5
<1> QED
  BY <1>10, <1>11 DEF k, N, S

\* The rules about a tool among the first n, and the one of them that counts.
AboutFirst(n, tool) == {i \in 1 .. n : tool \in Rules[i].matches}
Wins(i, m) == \A j \in m : \/ Rules[j].priority < Rules[i].priority
                           \/ Rules[j].priority = Rules[i].priority /\ i <= j

\* A list q tells which of the rules m counts.
Decided(q, m) ==
  /\ q \in Seq(RuleRec) /\ LedByHighest(q)
  /\ m = {} => q = <<>>
  /\ m # {} => q # <<>> /\ \E i \in m : Wins(i, m) /\ Head(q) = Rules[i]

LEMMA DecidedStep ==
  ASSUME NEW tool, NEW n \in 1 .. Len(Rules),
         Decided(Matching(Added[n - 1], tool), AboutFirst(n - 1, tool))
  PROVE  Decided(Matching(Added[n], tool), AboutFirst(n, tool))
<1> DEFINE q == Matching(Added[n - 1], tool)
           z == Matching(Added[n], tool)
           rule == Rules[n]
           about == tool \in rule.matches
           m == AboutFirst(n - 1, tool)
           k == AboutFirst(n, tool)
<1>1. /\ rule \in RuleRec /\ rule.priority \in Int /\ Len(Rules) \in Nat
      /\ \A i \in 1 .. Len(Rules) : Rules[i].priority \in Int
  BY RuleAt DEF RuleRec
<1>2. /\ Added[n] = AddRule(Added[n - 1], rule)
      /\ Added[n - 1] \in Seq(RuleRec) /\ Added[n] \in Seq(RuleRec)
  <2>1. n - 1 \in 0 .. Len(Rules) /\ n \in 0 .. Len(Rules)
    BY <1>1
  <2> QED
    BY <2>1, AddedDef
<1>3. z = AfterAdding(q, rule, about)
  BY <1>1, <1>2, AddedAbout DEF AfterAdding
<1>4. z \in Seq(RuleRec) /\ q \in Seq(RuleRec) /\ LedByHighest(q) /\ about \in BOOLEAN
  BY <1>2, MatchingAbout DEF Decided
<1>5. k = IF about THEN m \cup {n} ELSE m
  BY <1>1 DEF AboutFirst
<1>6. m \subseteq 1 .. (n - 1) /\ n \notin m /\ m \subseteq 1 .. Len(Rules)
  BY <1>1 DEF AboutFirst
<1>7. /\ m = {} => q = <<>>
      /\ m # {} => q # <<>> /\ \E i \in m : Wins(i, m) /\ Head(q) = Rules[i]
  BY DEF Decided
<1> HIDE DEF q, z, rule, m, k, about
<1>8. /\ LedByHighest(z)
      /\ ~about => (q = <<>> => z = <<>>) /\ (q # <<>> => z # <<>> /\ Head(z) = Head(q))
      /\ about => z # <<>> /\ Head(z) = IF q # <<>> /\ Head(q).priority >= rule.priority THEN Head(q) ELSE rule
  BY <1>1, <1>3, <1>4, FirstOfAdded
<1>9. CASE ~about
  <2>1. k = m
    BY <1>5, <1>9
  <2>2. Decided(z, m)
    BY <1>4, <1>7, <1>8, <1>9 DEF Decided
  <2> QED
    BY <2>1, <2>2 DEF z, k
<1>10. CASE about
  <2>1. k = m \cup {n} /\ z # <<>>
    BY <1>5, <1>8, <1>10
  <2>2. SUFFICES \E i \in k : Wins(i, k) /\ Head(z) = Rules[i]
    BY <1>4, <1>8, <2>1 DEF Decided, z, k
  <2>3. CASE m = {}
    <3>1. Wins(n, k)
      BY <1>1, <2>1, <2>3 DEF Wins
    <3>2. Head(z) = rule
      BY <1>7, <1>8, <1>10, <2>3
    <3> QED
      BY <2>1, <3>1, <3>2 DEF rule
  <2>4. CASE m # {}
    <3>1. PICK i \in m : Wins(i, m) /\ Head(q) = Rules[i]
      BY <1>7, <2>4
    <3>2. i \in 1 .. (n - 1) /\ Rules[i].priority \in Int
      BY <1>1, <1>6
    <3>3. CASE Rules[i].priority >= rule.priority
      <4>1. Head(z) = Rules[i]
        BY <1>7, <1>8, <1>10, <2>4, <3>1, <3>3
      <4>2. Rules[n].priority < Rules[i].priority \/ (Rules[n].priority = Rules[i].priority /\ i <= n)
        BY <1>1, <3>2, <3>3 DEF rule
      <4>3. Wins(i, k)
        BY <2>1, <3>1, <4>2 DEF Wins
      <4> QED
        BY <2>1, <4>1, <4>3
    <3>4. CASE ~(Rules[i].priority >= rule.priority)
      <4>1. Head(z) = rule
        BY <1>8, <1>10, <3>1, <3>4
      <4>2. ASSUME NEW j \in m PROVE Rules[j].priority < Rules[n].priority
        <5>1. Rules[j].priority \in Int /\ Rules[j].priority <= Rules[i].priority
          BY <1>1, <1>6, <3>1, <3>2 DEF Wins
        <5> QED
          BY <1>1, <3>2, <3>4, <5>1 DEF rule
      <4>3. Wins(n, k)
        BY <1>1, <2>1, <4>2 DEF Wins
      <4> QED
        BY <2>1, <4>1, <4>3 DEF rule
    <3> QED
      BY <3>3, <3>4
  <2> QED
    BY <2>3, <2>4
<1> QED
  BY <1>9, <1>10

\* After every rule, the list tells which of the rules about a tool counts: one
\* of the highest priority, and the first added of these.
LEMMA RulesDecide ==
  ASSUME NEW tool
  PROVE  \A n \in 0 .. Len(Rules) : Decided(Matching(Added[n], tool), AboutFirst(n, tool))
<1> DEFINE Fine(n) == Decided(Matching(Added[n], tool), AboutFirst(n, tool))
           Bad == {n \in 0 .. Len(Rules) : ~Fine(n)}
<1>1. SUFFICES ASSUME Bad # {} PROVE FALSE
  OBVIOUS
<1>2. Len(Rules) \in Nat
  BY RuleAt
<1>3. Fine(0)
  <2>1. Matching(<<>>, tool) = <<>>
    <3>1. <<>> \in Seq(RuleRec)
      OBVIOUS
    <3>2. Matching(<<>>, tool) = KeepOnly(<<>>, About(tool))
      BY <3>1, MatchingAbout
    <3> QED
      BY <3>2, KeepEmpty
  <2>2. AboutFirst(0, tool) = {}
    BY DEF AboutFirst
  <2>3. Decided(<<>>, {})
    BY DEF Decided, LedByHighest
  <2>4. Added[0] = <<>>
    BY AddedDef
  <2> QED
    BY <2>1, <2>2, <2>3, <2>4
<1>4. ASSUME NEW n \in 1 .. Len(Rules), Fine(n - 1) PROVE Fine(n)
  BY <1>4, DecidedStep
<1> HIDE DEF Fine
<1>5. PICK n \in Bad : \A i \in Bad : n <= i
  <2>1. Bad \in SUBSET Nat
    BY <1>2
  <2> HIDE DEF Bad
  <2> QED
    BY <1>1, <2>1, LeastExists
<1>6. n \in 1 .. Len(Rules) /\ n - 1 \in 0 .. Len(Rules) /\ ~Fine(n)
  BY <1>2, <1>3, <1>5
<1>7. Fine(n - 1)
  BY <1>2, <1>5, <1>6
<1> QED
  BY <1>4, <1>6, <1>7

\* What the checker answers is what the rules say.
LEMMA CheckerRules ==
  ASSUME NEW tool, Mode \notin {"none", "allow_all", "deny_all"}
  PROVE  HasPermission(tool) = Ruling(tool) /\ Ruling(tool) \in Decisions
<1> DEFINE m == {i \in DOMAIN Rules : tool \in Rules[i].matches}
           q == Matching(Added[Len(Rules)], tool)
           wins(i) == \A j \in m : \/ Rules[j].priority < Rules[i].priority
                                   \/ Rules[j].priority = Rules[i].priority /\ i <= j
           default == IF Policy = "none" THEN "ask" ELSE Policy
<1>1. HasPermission(tool) = IF q # <<>> THEN Head(q).decision ELSE default
  BY DEF HasPermission
<1>2. Ruling(tool) = IF m = {} THEN default ELSE Rules[CHOOSE i \in m : wins(i)].decision
  BY DEF Ruling
<1>3. default \in Decisions
  BY LoopAssumption DEF Decisions
<1>4. Decided(q, m)
  <2>1. Len(Rules) \in 0 .. Len(Rules) /\ DOMAIN Rules = 1 .. Len(Rules)
    BY RuleAt
  <2>2. AboutFirst(Len(Rules), tool) = m
    BY <2>1 DEF AboutFirst
  <2> QED
    BY <2>1, <2>2, RulesDecide
<1>5. \A i \in m : wins(i) <=> Wins(i, m)
  BY DEF Wins
<1>6. m \subseteq 1 .. Len(Rules) /\ \A i \in m : Rules[i].priority \in Int /\ Rules[i].decision \in Decisions
  BY RuleAt DEF RuleRec
<1>7. \A i, j \in m : Wins(i, m) /\ Wins(j, m) => i = j
  <2> TAKE i \in m, j \in m
  <2>1. HAVE Wins(i, m) /\ Wins(j, m)
  <2>2. /\ Rules[j].priority < Rules[i].priority \/ (Rules[j].priority = Rules[i].priority /\ i <= j)
        /\ Rules[i].priority < Rules[j].priority \/ (Rules[i].priority = Rules[j].priority /\ j <= i)
    BY <2>1 DEF Wins
  <2>3. i \in Int /\ j \in Int /\ Rules[i].priority \in Int /\ Rules[j].priority \in Int
    BY <1>6
  <2> QED
    BY <2>2, <2>3
<1> HIDE DEF q, m, default
<1>8. CASE m = {}
  BY <1>1, <1>2, <1>3, <1>4, <1>8 DEF Decided
<1>9. CASE m # {}
  <2>1. PICK i \in m : Wins(i, m) /\ Head(q) = Rules[i]
    BY <1>4, <1>9 DEF Decided
  <2> DEFINE c == CHOOSE j \in m : wins(j)
  <2>2. c \in m /\ wins(c)
    BY <1>5, <2>1
  <2>3. c = i
    BY <1>5, <1>7, <2>1, <2>2
  <2>4. q # <<>>
    BY <1>4, <1>9 DEF Decided
  <2> QED
    BY <1>1, <1>2, <1>6, <1>9, <2>1, <2>3, <2>4
<1> QED
  BY <1>8, <1>9

-----------------------------------------------------------------------------
(* What a turn keeps.                                                       *)

UseRec == [id : Nat, tool : Tool]
MessageRec == {m \in [role : {"user", "assistant"}, uses : Seq(UseRec), use : Nat, weight : Nat,
                      filtered : BOOLEAN, cleared : BOOLEAN] : m.role = "assistant" => m.use = NoUse}
InvRec == [phase : {"none", "executing", "completed", "failed", "permission_requested"}, perm : {"not_required", "allowed", "denied", "requested"}]

\* The tool uses the messages name.
Named(ms) == UNION {Range(ms[i].uses) : i \in DOMAIN ms}

\* A use has one tool, and there is one for every counter.
Counted(ms, n) ==
  /\ \A u, v \in Named(ms) : u.id = v.id => u = v
  /\ \A u \in Named(ms) : u.id \in 1 .. n
  /\ \A id \in 1 .. n : \E u \in Named(ms) : u.id = id

TypesHold ==
  /\ messages \in Seq(MessageRec)
  /\ ran \in Seq(Nat)
  /\ uses \in Seq(UseRec)
  /\ inv \in Seq(InvRec) /\ DOMAIN inv = DOMAIN uses
  /\ cursor \in Nat \ {0} /\ (pc = "tools" => cursor \in DOMAIN uses)

\* The uses of the current response are among those named, each once.
UsesNamed ==
  /\ Range(uses) \subseteq Named(messages)
  /\ \A k, j \in DOMAIN uses : uses[k].id = uses[j].id => k = j

\* What is not run yet, and who is asked.
NotRunYet ==
  /\ \A k \in DOMAIN uses : inv[k].phase \in {"none", "permission_requested"} => ran[uses[k].id] = 0
  /\ \A k \in DOMAIN uses : inv[k].phase = "permission_requested" => Ruling(uses[k].tool) = "ask"

WaitsForUser ==
  /\ pc \in {"suspended", "resumed"} =>
       suspended \in DOMAIN uses /\ inv[suspended].phase = "permission_requested"
  /\ pc = "resumed" => uses[suspended].id \in granted

\* Where a tool may have been run.
MayHaveRun(u) ==
  /\ ran[u.id] <= 1
  /\ ran[u.id] = 1 => Ruling(u.tool) = "allow" \/ (Ruling(u.tool) = "ask" /\ u.id \in granted)

AsAllowed == \A u \in Named(messages) : MayHaveRun(u)

TurnInv ==
  /\ TypesHold
  /\ Counted(messages, Len(ran))
  /\ UsesNamed
  /\ NotRunYet
  /\ WaitsForUser
  /\ AsAllowed

-----------------------------------------------------------------------------
(* Messages and the uses they name.                                         *)

LEMMA MessageParts ==
  ASSUME NEW m \in MessageRec
  PROVE  /\ m.uses \in Seq(UseRec) /\ m.use \in Nat /\ m.weight \in Nat
         /\ m.role \in {"user", "assistant"} /\ (m.role = "assistant" => m.use = NoUse)
         /\ [m EXCEPT !.cleared = TRUE] \in MessageRec /\ [m EXCEPT !.cleared = TRUE].uses = m.uses
         /\ [m EXCEPT !.filtered = TRUE] \in MessageRec /\ [m EXCEPT !.filtered = TRUE].uses = m.uses
BY DEF MessageRec

LEMMA NewMessage ==
  ASSUME NEW role \in {"user", "assistant"}, NEW us \in Seq(UseRec), NEW use \in Nat, NEW weight \in Nat,
         role = "assistant" => use = NoUse
  PROVE  Message(role, us, use, weight) \in MessageRec /\ Message(role, us, use, weight).uses = us
BY DEF Message, MessageRec

LEMMA NewMessages ==
  /\ UserMsg \in MessageRec /\ Range(UserMsg.uses) = {}
  /\ \A us \in Seq(UseRec) : AssistantMsg(us) \in MessageRec /\ AssistantMsg(us).uses = us
  /\ \A id \in Nat : ResultMsg(id) \in MessageRec /\ Range(ResultMsg(id).uses) = {}
<1>1. NoUse \in Nat /\ <<>> \in Seq(UseRec) /\ Range(<<>>) = {} /\ 1 \in Nat /\ 3 \in Nat
  BY EmptyRange DEF NoUse
<1>2. UserMsg \in MessageRec /\ UserMsg.uses = <<>>
  BY <1>1, NewMessage DEF UserMsg
<1>3. \A us \in Seq(UseRec) : AssistantMsg(us) \in MessageRec /\ AssistantMsg(us).uses = us
  BY <1>1, NewMessage DEF AssistantMsg
<1>4. \A id \in Nat : ResultMsg(id) \in MessageRec /\ ResultMsg(id).uses = <<>>
  <2> TAKE id \in Nat
  <2>1. "user" \in {"user", "assistant"} /\ "user" # "assistant"
    OBVIOUS
  <2>2. Message("user", <<>>, id, 3) \in MessageRec /\ Message("user", <<>>, id, 3).uses = <<>>
    BY <1>1, <2>1, NewMessage
  <2> QED
    BY <2>2 DEF ResultMsg
<1> QED
  BY <1>1, <1>2, <1>3, <1>4

\* Messages that name the same uses, place by place.
LEMMA NamedAlike ==
  ASSUME NEW ms \in Seq(MessageRec), NEW ks, DOMAIN ks = DOMAIN ms,
         \A i \in DOMAIN ms : ks[i].uses = ms[i].uses
  PROVE  Named(ks) = Named(ms)
BY DEF Named

LEMMA NamedConcat ==
  ASSUME NEW ms \in Seq(MessageRec), NEW ks \in Seq(MessageRec)
  PROVE  ms \o ks \in Seq(MessageRec) /\ Named(ms \o ks) = Named(ms) \cup Named(ks)
<1> DEFINE c == ms \o ks
           Uses(s) == {m.uses : m \in Range(s)}
<1>1. c \in Seq(MessageRec) /\ Range(c) = Range(ms) \cup Range(ks)
  BY ConcatHead
<1>2. ASSUME NEW s PROVE Named(s) = UNION {Range(m.uses) : m \in Range(s)}
  BY DEF Named, Range
<1> HIDE DEF c
<1>3. Named(c) = Named(ms) \cup Named(ks)
  BY <1>1, <1>2
<1> QED
  BY <1>1, <1>3 DEF c

LEMMA NamedAppend ==
  ASSUME NEW ms \in Seq(MessageRec), NEW m \in MessageRec
  PROVE  Append(ms, m) \in Seq(MessageRec) /\ Named(Append(ms, m)) = Named(ms) \cup Range(m.uses)
<1> DEFINE c == Append(ms, m)
<1>1. c \in Seq(MessageRec) /\ Range(c) = Range(ms) \cup {m}
  BY AppendRange, AppendProperties
<1>2. ASSUME NEW s PROVE Named(s) = UNION {Range(k.uses) : k \in Range(s)}
  BY DEF Named, Range
<1> HIDE DEF c
<1>3. Named(c) = Named(ms) \cup Range(m.uses)
  BY <1>1, <1>2
<1> QED
  BY <1>1, <1>3 DEF c

\* A result names no use.
LEMMA ResultAppends ==
  ASSUME NEW ms \in Seq(MessageRec), NEW id \in Nat
  PROVE  Append(ms, ResultMsg(id)) \in Seq(MessageRec) /\ Named(Append(ms, ResultMsg(id))) = Named(ms)
<1> DEFINE m == ResultMsg(id)
<1>1. m \in MessageRec /\ Range(m.uses) = {}
  BY NewMessages
<1> HIDE DEF m
<1>2. Append(ms, m) \in Seq(MessageRec) /\ Named(Append(ms, m)) = Named(ms) \cup Range(m.uses)
  BY <1>1, NamedAppend
<1> QED
  BY <1>1, <1>2 DEF m

\* No assistant message of the loop has a tool_use_id: there is nothing to pair.
LEMMA PairNothing ==
  ASSUME NEW ms \in Seq(MessageRec)
  PROVE  Pair(ms) = ms
<1>1. \A i \in DOMAIN ms : ~(ms[i].role = "assistant" /\ ms[i].use # NoUse)
  <2>1. \A i \in DOMAIN ms : ms[i] \in MessageRec
    OBVIOUS
  <2> QED
    BY <2>1, MessageParts
<1> QED
  BY <1>1 DEF Pair

\* Pairing finds nothing to pair, and compaction only marks messages.
LEMMA Prepared ==
  ASSUME NEW ms \in Seq(MessageRec)
  PROVE  Prepare(ms) \in Seq(MessageRec) /\ Named(Prepare(ms)) = Named(ms)
<1>1. /\ DOMAIN ms = 1 .. Len(ms) /\ Len(ms) \in Nat
      /\ \A i \in DOMAIN ms : ms[i] \in MessageRec
  OBVIOUS
<1>2. Pair(ms) = ms
  BY PairNothing
<1>3. ASSUME NEW ks \in Seq(MessageRec), NEW end
      PROVE  Cleared(ks, end) \in Seq(MessageRec) /\ Named(Cleared(ks, end)) = Named(ks)
  <2> DEFINE c == Cleared(ks, end)
  <2>1. /\ DOMAIN ks = 1 .. Len(ks) /\ Len(ks) \in Nat
        /\ \A i \in DOMAIN ks : ks[i] \in MessageRec
    OBVIOUS
  <2>2. c = [i \in 1 .. Len(ks) |-> c[i]] /\ \A i \in DOMAIN ks : c[i] = ks[i] \/ c[i] = [ks[i] EXCEPT !.cleared = TRUE]
    BY <2>1 DEF Cleared
  <2> HIDE DEF c
  <2>3. \A i \in DOMAIN ks : c[i] \in MessageRec /\ c[i].uses = ks[i].uses
    BY <2>1, <2>2, MessageParts
  <2>4. c \in Seq(MessageRec)
    BY <2>1, <2>2, <2>3 DEF Seq
  <2>5. DOMAIN c = DOMAIN ks
    BY <2>1, <2>2
  <2>6. Named(c) = Named(ks)
    BY <2>3, <2>5, NamedAlike
  <2> QED
    BY <2>4, <2>6 DEF c
<1>4. ASSUME NEW ks \in Seq(MessageRec), NEW end, NEW target
      PROVE  FilterOldest(ks, end, target) \in Seq(MessageRec) /\ Named(FilterOldest(ks, end, target)) = Named(ks)
  <2> DEFINE c == FilterOldest(ks, end, target)
  <2>1. /\ DOMAIN ks = 1 .. Len(ks) /\ Len(ks) \in Nat
        /\ \A i \in DOMAIN ks : ks[i] \in MessageRec
    OBVIOUS
  <2>2. \E G : c = [k \in DOMAIN ks |-> IF k \in G THEN [ks[k] EXCEPT !.filtered = TRUE] ELSE ks[k]]
    BY DEF FilterOldest
  <2>3. c = [i \in 1 .. Len(ks) |-> c[i]] /\ \A i \in DOMAIN ks : c[i] = ks[i] \/ c[i] = [ks[i] EXCEPT !.filtered = TRUE]
    BY <2>1, <2>2
  <2> HIDE DEF c
  <2>4. \A i \in DOMAIN ks : c[i] \in MessageRec /\ c[i].uses = ks[i].uses
    BY <2>1, <2>3, MessageParts
  <2>5. c \in Seq(MessageRec)
    BY <2>1, <2>3, <2>4 DEF Seq
  <2>6. DOMAIN c = DOMAIN ks
    BY <2>1, <2>3
  <2>7. Named(c) = Named(ks)
    BY <2>4, <2>6, NamedAlike
  <2> QED
    BY <2>5, <2>7 DEF c
<1>5. ASSUME NEW n PROVE Compact(ms, n) \in Seq(MessageRec) /\ Named(Compact(ms, n)) = Named(ms)
  <2> DEFINE clear == Cleared(ms, Boundary(ms, n))
  <2>1. clear \in Seq(MessageRec) /\ Named(clear) = Named(ms)
    BY <1>3
  <2> HIDE DEF clear
  <2>2. \E end, target : Compact(ms, n) \in {ms, clear, FilterOldest(clear, end, target)}
    BY DEF Compact, clear
  <2> QED
    BY <1>4, <2>1, <2>2
<1> QED
  BY <1>2, <1>5 DEF Prepare

\* The tool of a use that is named.
LEMMA ToolNamed ==
  ASSUME NEW u \in Named(messages), \A v, w \in Named(messages) : v.id = w.id => v = w
  PROVE  ToolOf(u.id) = u.tool
<1> DEFINE i == CHOOSE j \in DOMAIN messages : \E k \in DOMAIN messages[j].uses : messages[j].uses[k].id = u.id
           us == messages[i].uses
           k == CHOOSE n \in DOMAIN us : us[n].id = u.id
<1>1. \E j \in DOMAIN messages : \E n \in DOMAIN messages[j].uses : messages[j].uses[n].id = u.id
  BY DEF Named, Range
<1>2. i \in DOMAIN messages /\ \E n \in DOMAIN us : us[n].id = u.id
  BY <1>1
<1>3. k \in DOMAIN us /\ us[k].id = u.id
  BY <1>2
<1>4. ToolOf(u.id) = us[k].tool
  BY DEF ToolOf
<1> HIDE DEF i, k
<1>5. us[k] \in Named(messages)
  BY <1>2, <1>3 DEF Named, Range
<1>6. us[k] = u
  BY <1>3, <1>5
<1> QED
  BY <1>4, <1>6

-----------------------------------------------------------------------------
(* A tool is called once, and only as allowed.                              *)

\* A checker that allows or asks does so by its rules.
LEMMA AllowsByRules ==
  ASSUME NEW tool, Mode \notin {"none", "allow_all"}
  PROVE  /\ HasPermission(tool) \in Decisions
         /\ HasPermission(tool) = "allow" => Ruling(tool) = "allow"
         /\ HasPermission(tool) = "ask" => Ruling(tool) = "ask"
<1>1. CASE Mode = "deny_all"
  BY <1>1 DEF HasPermission, Decisions
<1>2. CASE Mode # "deny_all"
  BY <1>2, CheckerRules
<1> QED
  BY <1>1, <1>2

LEMMA TurnInit == Init => TurnInv
<1> SUFFICES ASSUME Init PROVE TurnInv
  OBVIOUS
<1>1. /\ messages = <<UserMsg>> /\ ran = <<>> /\ uses = <<>> /\ inv = <<>> /\ cursor = 1 /\ pc = "loop"
  BY DEF Init
<1>2. <<UserMsg>> = Append(<<>>, UserMsg) /\ <<>> \in Seq(MessageRec) /\ Named(<<>>) = {}
  BY DEF Named
<1>3. messages \in Seq(MessageRec) /\ Named(messages) = {}
  BY <1>1, <1>2, NewMessages, NamedAppend
<1>4. TypesHold
  BY <1>1, <1>3 DEF TypesHold
<1>5. Counted(messages, Len(ran))
  BY <1>1, <1>3 DEF Counted
<1>6. UsesNamed
  BY <1>1, EmptyRange DEF UsesNamed
<1>7. NotRunYet /\ WaitsForUser
  BY <1>1 DEF NotRunYet, WaitsForUser
<1>8. AsAllowed
  BY <1>3 DEF AsAllowed
<1> QED
  BY <1>4, <1>5, <1>6, <1>7, <1>8 DEF TurnInv

\* What a step keeps that names no other uses and runs nothing.
LEMMA NamesAsBefore ==
  ASSUME TurnInv, Named(messages') = Named(messages), ran' = ran, granted \subseteq granted'
  PROVE  Counted(messages, Len(ran))' /\ AsAllowed' /\ (uses' = uses => UsesNamed')
<1>1. Counted(messages', Len(ran'))
  BY DEF TurnInv, Counted
<1>2. AsAllowed'
  BY DEF TurnInv, AsAllowed, MayHaveRun
<1>3. uses' = uses => UsesNamed'
  BY DEF TurnInv, UsesNamed
<1> QED
  BY <1>1, <1>2, <1>3

\* What holds when the records of a response are handed on.
LEMMA Forgotten ==
  ASSUME Forget
  PROVE  /\ uses' \in Seq(UseRec) /\ inv' \in Seq(InvRec) /\ DOMAIN inv' = DOMAIN uses'
         /\ cursor' \in Nat \ {0}
         /\ UsesNamed' /\ NotRunYet'
<1>1. uses' = <<>> /\ inv' = <<>> /\ cursor' = 1
  BY DEF Forget
<1>2. UsesNamed'
  BY <1>1, EmptyRange DEF UsesNamed
<1>3. NotRunYet'
  BY <1>1 DEF NotRunYet
<1> QED
  BY <1>1, <1>2, <1>3

\* A step that only ends the turn or goes on with the loop.
LEMMA MovesOn ==
  ASSUME TurnInv, messages' \in Seq(MessageRec), Named(messages') = Named(messages),
         UNCHANGED <<ran, granted, uses, inv, cursor>>, pc' \notin {"tools", "suspended", "resumed"}
  PROVE  TurnInv'
<1>1. Counted(messages, Len(ran))' /\ AsAllowed' /\ UsesNamed'
  BY NamesAsBefore
<1>2. TypesHold'
  BY DEF TurnInv, TypesHold
<1>3. NotRunYet'
  BY DEF TurnInv, NotRunYet
<1>4. WaitsForUser'
  BY DEF WaitsForUser
<1> QED
  BY <1>1, <1>2, <1>3, <1>4 DEF TurnInv

LEMMA ReplyTextStep == ASSUME TurnInv, ReplyText PROVE TurnInv'
<1> DEFINE ms == Prepare(messages)
<1>1. ms \in Seq(MessageRec) /\ Named(ms) = Named(messages)
  BY Prepared DEF TurnInv, TypesHold
<1>2. /\ AssistantMsg(<<>>) \in MessageRec /\ Range(AssistantMsg(<<>>).uses) = {}
      /\ UserMsg \in MessageRec /\ Range(UserMsg.uses) = {}
  <2>1. <<>> \in Seq(UseRec)
    OBVIOUS
  <2> QED
    BY <2>1, NewMessages, EmptyRange
<1>3. UNCHANGED <<ran, granted, uses, inv, cursor>> /\ pc' \notin {"tools", "suspended", "resumed"}
  BY DEF ReplyText, Call, Finals
<1> HIDE DEF ms
<1>4. messages' \in {ms \o <<AssistantMsg(<<>>), UserMsg>>, Append(ms, AssistantMsg(<<>>))}
  BY DEF ReplyText, ms
<1>5. /\ Append(ms, AssistantMsg(<<>>)) \in Seq(MessageRec)
      /\ Named(Append(ms, AssistantMsg(<<>>))) = Named(messages)
  BY <1>1, <1>2, NamedAppend
<1>6. ms \o <<AssistantMsg(<<>>), UserMsg>> = Append(Append(ms, AssistantMsg(<<>>)), UserMsg)
  BY <1>1, <1>2
<1>7. messages' \in Seq(MessageRec) /\ Named(messages') = Named(messages)
  <2> DEFINE one == Append(ms, AssistantMsg(<<>>))
  <2>1. one \in Seq(MessageRec) /\ Named(one) = Named(messages) /\ messages' \in {one, Append(one, UserMsg)}
    BY <1>4, <1>5, <1>6
  <2> HIDE DEF one
  <2>2. Append(one, UserMsg) \in Seq(MessageRec) /\ Named(Append(one, UserMsg)) = Named(one) \cup Range(UserMsg.uses)
    BY <1>2, <2>1, NamedAppend
  <2> QED
    BY <1>2, <2>1, <2>2
<1> QED
  BY <1>3, <1>7, MovesOn

LEMMA ReplyToolsStep == ASSUME TurnInv, ReplyTools PROVE TurnInv'
<1> DEFINE ms == Prepare(messages)
           N == Len(ran)
<1>1. ms \in Seq(MessageRec) /\ Named(ms) = Named(messages)
  BY Prepared DEF TurnInv, TypesHold
<1>2. N \in Nat /\ ran \in Seq(Nat) /\ DOMAIN ran = 1 .. N
  BY DEF TurnInv, TypesHold
<1>3. PICK n \in 1 .. MaxUses : \E tools \in [1 .. n -> Tool] : Start(ms, tools)
  BY DEF ReplyTools
<1>4. PICK tools \in [1 .. n -> Tool] : Start(ms, tools)
  BY <1>3
<1> DEFINE us == [k \in 1 .. n |-> [id |-> N + k, tool |-> tools[k]]]
           zeros == [k \in 1 .. n |-> 0]
           idle == [k \in 1 .. n |-> IdleInv]
<1>5. n \in Nat /\ n >= 1
  BY LoopAssumption
<1>6. messages' = Append(ms, AssistantMsg(us)) /\ uses' = us /\ inv' = idle /\ ran' = ran \o zeros
  BY <1>4 DEF Start
<1>7. cursor' = 1 /\ pc' = "tools" /\ granted' = granted
  BY DEF ReplyTools, Call
<1>8. \A k \in 1 .. n : us[k] = [id |-> N + k, tool |-> tools[k]] /\ us[k] \in UseRec /\ us[k].id = N + k
  BY <1>2, <1>5 DEF UseRec
<1>9. us \in Seq(UseRec) /\ DOMAIN us = 1 .. n /\ zeros \in Seq(Nat) /\ Len(zeros) = n /\ DOMAIN zeros = 1 .. n
  BY <1>5, <1>8 DEF Seq
<1>10. idle \in Seq(InvRec) /\ DOMAIN idle = 1 .. n /\ \A k \in 1 .. n : idle[k].phase = "none"
  <2>1. IdleInv \in InvRec /\ IdleInv.phase = "none"
    BY DEF IdleInv, InvRec
  <2> QED
    BY <1>5, <2>1 DEF Seq
<1>11. /\ ran' \in Seq(Nat) /\ Len(ran') = N + n /\ DOMAIN ran' = 1 .. (N + n)
       /\ \A i \in 1 .. N : ran'[i] = ran[i]
       /\ \A k \in 1 .. n : ran'[N + k] = 0
  <2>1. zeros \in Seq(Nat) /\ \A k \in 1 .. n : zeros[k] = 0
    BY <1>9
  <2> DEFINE prior == ran
             new == prior \o zeros
  <2>2. prior \in Seq(Nat) /\ Len(prior) = N
    BY <1>2
  <2> HIDE DEF zeros, N, prior
  <2>3. /\ new \in Seq(Nat) /\ Len(new) = N + n
        /\ \A i \in 1 .. Len(prior) : new[i] = prior[i]
        /\ \A k \in 1 .. Len(zeros) : new[Len(prior) + k] = zeros[k]
    <3>1. /\ new \in Seq(Nat) /\ Len(new) = Len(prior) + Len(zeros)
          /\ \A i \in 1 .. Len(prior) + Len(zeros) : new[i] = IF i <= Len(prior) THEN prior[i] ELSE zeros[i - Len(prior)]
      BY <1>9, <2>2, ConcatProperties
    <3> HIDE DEF new
    <3>2. Len(prior) = N /\ Len(zeros) = n /\ N \in Nat /\ n \in Nat
      BY <1>2, <1>5, <1>9, <2>2
    <3>3. ASSUME NEW i \in 1 .. Len(prior) PROVE new[i] = prior[i]
      BY <3>1, <3>2
    <3>4. ASSUME NEW k \in 1 .. Len(zeros) PROVE new[Len(prior) + k] = zeros[k]
      <4>1. Len(prior) + k \in 1 .. Len(prior) + Len(zeros) /\ ~(Len(prior) + k <= Len(prior)) /\ Len(prior) + k - Len(prior) = k
        BY <3>2
      <4> QED
        BY <3>1, <4>1
    <3> QED
      BY <3>1, <3>2, <3>3, <3>4
  <2>4. ran' = new
    BY <1>6 DEF prior
  <2> HIDE DEF new
  <2>5. DOMAIN new = 1 .. Len(new)
    BY <2>3
  <2> QED
    BY <1>9, <2>1, <2>2, <2>3, <2>4, <2>5 DEF prior
<1> HIDE DEF ms, N, us, zeros, idle
<1>12. messages' \in Seq(MessageRec) /\ Named(messages') = Named(messages) \cup Range(us)
  BY <1>1, <1>6, <1>9, NewMessages, NamedAppend
<1>13. \A u \in Range(us) : \E k \in 1 .. n : u = us[k] /\ u.id = N + k
  BY <1>8, <1>9 DEF Range
<1>14. \A k \in 1 .. n : us[k] \in Range(us)
  BY <1>9 DEF Range
<1>15. /\ \A u, v \in Named(messages) : u.id = v.id => u = v
       /\ \A u \in Named(messages) : u.id \in 1 .. N
       /\ \A id \in 1 .. N : \E u \in Named(messages) : u.id = id
  BY DEF TurnInv, Counted, N
<1>16. TypesHold'
  BY <1>5, <1>6, <1>7, <1>9, <1>10, <1>11, <1>12 DEF TypesHold
<1>17. Counted(messages, Len(ran))'
  <2>1. ASSUME NEW u \in Named(messages'), NEW v \in Named(messages'), u.id = v.id PROVE u = v
    <3>1. u \in Named(messages) /\ v \in Named(messages) => u = v
      BY <1>15, <2>1
    <3>2. u \in Range(us) /\ v \in Range(us) => u = v
      BY <1>2, <1>13, <2>1
    <3>3. ~(u \in Named(messages) /\ v \in Range(us)) /\ ~(v \in Named(messages) /\ u \in Range(us))
      BY <1>2, <1>13, <1>15, <2>1
    <3> QED
      BY <1>12, <3>1, <3>2, <3>3
  <2>2. ASSUME NEW u \in Named(messages') PROVE u.id \in 1 .. (N + n)
    BY <1>2, <1>5, <1>12, <1>13, <1>15
  <2>3. ASSUME NEW id \in 1 .. (N + n) PROVE \E u \in Named(messages') : u.id = id
    <3>1. CASE id \in 1 .. N
      BY <1>12, <1>15, <3>1
    <3>2. CASE id \notin 1 .. N
      <4>1. id - N \in 1 .. n /\ N + (id - N) = id
        BY <1>2, <1>5, <3>2
      <4>2. us[id - N] \in Range(us) /\ us[id - N].id = id
        BY <1>8, <1>14, <4>1
      <4> QED
        BY <1>12, <4>2
    <3> QED
      BY <3>1, <3>2
  <2> QED
    BY <1>11, <2>1, <2>2, <2>3 DEF Counted
<1>18. UsesNamed'
  <2>1. ASSUME NEW k \in 1 .. n, NEW j \in 1 .. n, us[k].id = us[j].id PROVE k = j
    <3>1. us[k].id = N + k /\ us[j].id = N + j
      BY <1>8
    <3>2. N + k = N + j
      BY <2>1, <3>1
    <3>3. N \in Int /\ k \in Int /\ j \in Int
      BY <1>2, <1>5
    <3> QED
      BY ONLY <3>2, <3>3
  <2> QED
    BY <1>6, <1>9, <1>12, <2>1 DEF UsesNamed
<1>19. NotRunYet'
  <2>1. \A k \in 1 .. n : ran'[us[k].id] = 0
    BY <1>8, <1>11
  <2> QED
    BY <1>6, <1>9, <1>10, <2>1 DEF NotRunYet
<1>20. WaitsForUser'
  BY <1>7 DEF WaitsForUser
<1>21. AsAllowed'
  <2>1. ASSUME NEW u \in Named(messages') PROVE MayHaveRun(u)'
    <3>1. CASE u \in Named(messages)
      <4>1. ran'[u.id] = ran[u.id] /\ MayHaveRun(u)
        BY <1>11, <1>15, <3>1 DEF TurnInv, AsAllowed
      <4> QED
        BY <1>7, <4>1 DEF MayHaveRun
    <3>2. CASE u \in Range(us)
      <4>1. ran'[u.id] = 0
        BY <1>11, <1>13, <3>2
      <4> QED
        BY <4>1 DEF MayHaveRun
    <3> QED
      BY <1>12, <3>1, <3>2
  <2> QED
    BY <2>1 DEF AsAllowed
<1> QED
  BY <1>16, <1>17, <1>18, <1>19, <1>20, <1>21 DEF TurnInv

\* What the uses and the counters are, under the invariant.
LEMMA UseParts ==
  ASSUME TurnInv, NEW k \in DOMAIN uses
  PROVE  /\ uses[k] \in Named(messages) /\ uses[k].id \in Nat /\ uses[k].id \in DOMAIN ran
         /\ ran[uses[k].id] \in Nat /\ inv[k] \in InvRec /\ k \in DOMAIN inv /\ k \in Nat
         /\ \A j \in DOMAIN uses : uses[j].id = uses[k].id => j = k
         /\ \A u \in Named(messages) : u.id = uses[k].id => u = uses[k]
<1>1. /\ uses \in Seq(UseRec) /\ inv \in Seq(InvRec) /\ DOMAIN inv = DOMAIN uses /\ ran \in Seq(Nat)
  BY DEF TurnInv, TypesHold
<1>2. uses[k] \in Named(messages)
  BY DEF TurnInv, UsesNamed, Range
<1>3. uses[k].id \in Nat /\ k \in Nat /\ inv[k] \in InvRec
  <2>1. uses[k] \in UseRec /\ inv[k] \in InvRec /\ k \in Nat
    BY <1>1, ElementOfSeq
  <2> QED
    BY <2>1 DEF UseRec
<1>4. uses[k].id \in 1 .. Len(ran)
  BY <1>2 DEF TurnInv, Counted
<1>5. uses[k].id \in DOMAIN ran /\ ran[uses[k].id] \in Nat
  BY <1>1, <1>4
<1>6. \A j \in DOMAIN uses : uses[j].id = uses[k].id => j = k
  BY DEF TurnInv, UsesNamed
<1>7. \A u \in Named(messages) : u.id = uses[k].id => u = uses[k]
  BY <1>2 DEF TurnInv, Counted
<1> QED
  BY <1>1, <1>2, <1>3, <1>5, <1>6, <1>7

\* One tool is called that was not called before and may be.
LEMMA RunsOne ==
  ASSUME TurnInv, NEW k \in DOMAIN uses, ran[uses[k].id] = 0,
         ran' = [ran EXCEPT ![uses[k].id] = @ + 1],
         Named(messages') = Named(messages), granted \subseteq granted',
         Ruling(uses[k].tool) = "allow" \/ (Ruling(uses[k].tool) = "ask" /\ uses[k].id \in granted')
  PROVE  /\ ran' \in Seq(Nat) /\ Counted(messages, Len(ran))' /\ AsAllowed'
         /\ \A j \in DOMAIN uses : j # k => ran'[uses[j].id] = ran[uses[j].id]
<1> DEFINE id == uses[k].id
<1>1. /\ uses[k] \in Named(messages) /\ id \in DOMAIN ran /\ ran[id] = 0
      /\ \A j \in DOMAIN uses : uses[j].id = id => j = k
      /\ \A u \in Named(messages) : u.id = id => u = uses[k]
  BY UseParts
<1>2. ran \in Seq(Nat)
  BY DEF TurnInv, TypesHold
<1> HIDE DEF id
<1>3. ran' = [ran EXCEPT ![id] = 1]
  BY <1>1, <1>2 DEF id
<1>4. ran' \in Seq(Nat) /\ Len(ran') = Len(ran) /\ DOMAIN ran' = DOMAIN ran
  BY <1>1, <1>2, <1>3, ExceptSeq
<1>5. ran'[id] = 1 /\ \A i \in DOMAIN ran : i # id => ran'[i] = ran[i]
  BY <1>1, <1>3
<1>6. Counted(messages, Len(ran))'
  BY <1>4 DEF TurnInv, Counted
<1>7. ASSUME NEW u \in Named(messages') PROVE MayHaveRun(u)'
  <2>1. u \in Named(messages) /\ u.id \in DOMAIN ran
    BY <1>2 DEF TurnInv, Counted
  <2>2. CASE u.id = id
    <3>1. u = uses[k]
      BY <1>1, <2>1, <2>2
    <3> QED
      BY <1>5, <2>2, <3>1 DEF MayHaveRun, id
  <2>3. CASE u.id # id
    <3>1. MayHaveRun(u) /\ ran'[u.id] = ran[u.id]
      BY <1>5, <2>1, <2>3 DEF TurnInv, AsAllowed
    <3> QED
      BY <3>1 DEF MayHaveRun
  <2> QED
    BY <2>2, <2>3
<1>8. ASSUME NEW j \in DOMAIN uses, j # k PROVE ran'[uses[j].id] = ran[uses[j].id]
  <2>1. uses[j].id \in DOMAIN ran /\ uses[j].id # id
    BY <1>1, <1>8, UseParts
  <2> QED
    BY <1>5, <2>1
<1> QED
  BY <1>4, <1>6, <1>7, <1>8 DEF AsAllowed

\* One record changes, and the turn stays with its tools.
LEMMA OneRecord ==
  ASSUME TurnInv, NEW k \in DOMAIN uses, NEW r \in InvRec, inv' = [inv EXCEPT ![k] = r],
         UNCHANGED <<messages, uses, cursor, pc, granted>>, pc = "tools",
         ran' \in Seq(Nat), Counted(messages, Len(ran))', AsAllowed',
         \A j \in DOMAIN uses : j # k => ran'[uses[j].id] = ran[uses[j].id],
         r.phase # "none",
         r.phase = "permission_requested" => ran'[uses[k].id] = 0 /\ Ruling(uses[k].tool) = "ask"
  PROVE  TurnInv'
<1>1. /\ inv \in Seq(InvRec) /\ DOMAIN inv = DOMAIN uses
  BY DEF TurnInv, TypesHold
<1>2. /\ inv' \in Seq(InvRec) /\ DOMAIN inv' = DOMAIN uses' /\ inv'[k] = r
      /\ \A j \in DOMAIN uses : j # k => inv'[j] = inv[j]
  BY <1>1, ExceptSeq
<1>3. TypesHold'
  BY <1>2 DEF TurnInv, TypesHold
<1>4. UsesNamed'
  BY DEF TurnInv, UsesNamed
<1>5. NotRunYet'
  <2>1. ASSUME NEW j \in DOMAIN uses
        PROVE  /\ inv'[j].phase \in {"none", "permission_requested"} => ran'[uses[j].id] = 0
               /\ inv'[j].phase = "permission_requested" => Ruling(uses[j].tool) = "ask"
    <3>1. CASE j = k
      BY <1>2, <3>1
    <3>2. CASE j # k
      BY <1>2, <3>2 DEF TurnInv, NotRunYet
    <3> QED
      BY <3>1, <3>2
  <2> QED
    BY <2>1 DEF NotRunYet
<1>6. WaitsForUser'
  BY DEF WaitsForUser
<1> QED
  BY <1>3, <1>4, <1>5, <1>6 DEF TurnInv

LEMMA ToolsStep ==
  ASSUME TurnInv, Mode \notin {"none", "allow_all"}, Tools PROVE TurnInv'
<1>1. PICK k \in DOMAIN uses : Refuse(k) \/ Check(k) \/ Return(k)
  BY DEF Tools
<1>2. /\ inv[k] \in InvRec /\ k \in DOMAIN inv
      /\ \A p \in {"failed", "completed"} : [inv[k] EXCEPT !.phase = p] \in InvRec /\ [inv[k] EXCEPT !.phase = p].phase = p
  <2>1. inv[k] \in InvRec /\ k \in DOMAIN inv
    BY UseParts
  <2> QED
    BY <2>1 DEF InvRec
<1>3. ran \in Seq(Nat)
  BY DEF TurnInv, TypesHold
<1>4. CASE Refuse(k) \/ Return(k)
  <2> DEFINE p == IF Refuse(k) THEN "failed" ELSE "completed"
             r == [inv[k] EXCEPT !.phase = p]
  <2>1. inv' = [inv EXCEPT ![k] = r] /\ r \in InvRec /\ r.phase \in {"failed", "completed"}
    <3>1. inv' = [inv EXCEPT ![k].phase = p]
      BY <1>4 DEF Refuse, Return
    <3>2. p \in {"failed", "completed"}
      OBVIOUS
    <3> QED
      BY <1>2, <3>1, <3>2
  <2> HIDE DEF r, p
  <2>2. UNCHANGED <<messages, uses, cursor, pc, granted, ran>> /\ pc = "tools"
    BY <1>4 DEF Refuse, Return, MayStart
  <2>3. Counted(messages, Len(ran))' /\ AsAllowed'
    BY <2>2, NamesAsBefore
  <2> QED
    BY <1>3, <2>1, <2>2, <2>3, OneRecord
<1>5. CASE Check(k)
  <2> DEFINE d == HasPermission(uses[k].tool)
             r == CASE d = "allow" -> [phase |-> "executing",
                                       perm |-> IF Mode = "none" THEN "not_required" ELSE "allowed"]
                    [] d = "deny"  -> [phase |-> "failed", perm |-> "denied"]
                    [] OTHER       -> [phase |-> "permission_requested", perm |-> "requested"]
  <2>1. /\ d \in Decisions
        /\ d = "allow" => Ruling(uses[k].tool) = "allow"
        /\ d = "ask" => Ruling(uses[k].tool) = "ask"
    BY AllowsByRules
  <2>2. /\ d = "allow" => r.phase = "executing" /\ r \in InvRec
        /\ d = "deny" => r.phase = "failed" /\ r \in InvRec
        /\ d = "ask" => r.phase = "permission_requested" /\ r \in InvRec
    <3> HIDE DEF d
    <3>1. CASE d = "allow"
      BY <3>1 DEF InvRec
    <3>2. CASE d = "deny"
      BY <3>2 DEF InvRec
    <3>3. CASE d = "ask"
      BY <3>3 DEF InvRec
    <3> QED
      BY <3>1, <3>2, <3>3
  <2>3. /\ inv' = [inv EXCEPT ![k] = r] /\ inv[k].phase = "none"
        /\ ran' = IF inv'[k].phase = "executing" THEN [ran EXCEPT ![uses[k].id] = @ + 1] ELSE ran
        /\ UNCHANGED <<messages, uses, cursor, pc, granted>> /\ pc = "tools"
    BY <1>5 DEF Check, MayStart
  <2> HIDE DEF d, r
  <2>4. inv'[k] = r /\ r \in InvRec /\ r.phase # "none"
    BY <1>2, <2>1, <2>2, <2>3 DEF Decisions
  <2>5. ran[uses[k].id] = 0
    BY <2>3 DEF TurnInv, NotRunYet
  <2>6. CASE d = "allow"
    <3>1. ran' = [ran EXCEPT ![uses[k].id] = @ + 1] /\ r.phase # "permission_requested"
      BY <2>2, <2>3, <2>4, <2>6
    <3>2. /\ ran' \in Seq(Nat) /\ Counted(messages, Len(ran))' /\ AsAllowed'
          /\ \A j \in DOMAIN uses : j # k => ran'[uses[j].id] = ran[uses[j].id]
      BY <2>1, <2>3, <2>5, <2>6, <3>1, RunsOne
    <3> QED
      BY <2>3, <2>4, <3>1, <3>2, OneRecord
  <2>7. CASE d # "allow"
    <3>1. ran' = ran /\ (r.phase = "permission_requested" => d = "ask")
      BY <2>1, <2>2, <2>3, <2>4, <2>7 DEF Decisions
    <3>2. Counted(messages, Len(ran))' /\ AsAllowed'
      BY <2>3, <3>1, NamesAsBefore
    <3>3. r.phase = "permission_requested" => ran'[uses[k].id] = 0 /\ Ruling(uses[k].tool) = "ask"
      BY <2>1, <2>5, <3>1
    <3> QED
      BY <1>3, <2>3, <2>4, <3>1, <3>2, <3>3, OneRecord
  <2> QED
    BY <2>6, <2>7
<1> QED
  BY <1>1, <1>4, <1>5

\* The segment behind the cursor: it starts there, and has a last use.
LEMMA SegmentOfUses ==
  ASSUME cursor \in Nat \ {0}, uses \in Seq(UseRec), pc = "tools" => cursor \in DOMAIN uses
  PROVE  /\ Segment \subseteq DOMAIN uses
         /\ pc = "tools" => cursor \in Segment /\ \E last \in Segment : \A j \in Segment : j <= last
<1>1. /\ cursor \in Nat \ {0} /\ Len(uses) \in Nat /\ DOMAIN uses = 1 .. Len(uses)
      /\ pc = "tools" => cursor \in DOMAIN uses
  OBVIOUS
<1>2. Segment \subseteq cursor .. Len(uses)
  BY DEF Segment
<1>3. cursor .. Len(uses) \subseteq DOMAIN uses
  BY <1>1
<1>4. ASSUME pc = "tools" PROVE cursor \in Segment
  <2>1. cursor \in cursor .. Len(uses) /\ \A j \in cursor .. cursor : j = cursor
    BY <1>1, <1>4
  <2> QED
    BY <2>1 DEF Segment
<1>5. ASSUME cursor \in Segment PROVE \E last \in Segment : \A j \in Segment : j <= last
  <2> DEFINE Behind == {Len(uses) - j : j \in Segment}
  <2>1. \A j \in Segment : j \in Nat /\ Len(uses) - j \in Nat
    BY <1>1, <1>2
  <2>2. Behind \in SUBSET Nat /\ Behind # {}
    BY <1>5, <2>1
  <2>3. PICK b \in Behind : \A n \in Behind : b <= n
    <3> HIDE DEF Behind
    <3> QED
      BY <2>2, LeastExists
  <2>4. PICK last \in Segment : b = Len(uses) - last
    BY <2>3
  <2>5. ASSUME NEW j \in Segment PROVE j <= last
    <3>1. Len(uses) - last <= Len(uses) - j
      BY <2>3, <2>4
    <3>2. j \in Nat /\ last \in Nat
      BY <2>1
    <3> QED
      BY <1>1, <3>1, <3>2
  <2> QED
    BY <2>5
<1> QED
  BY <1>2, <1>3, <1>4, <1>5

LEMMA CollectStep == ASSUME TurnInv, Collect PROVE TurnInv'
<1> DEFINE last == CHOOSE k \in Segment : \A j \in Segment : j <= k
           n == last - cursor + 1
           results == [i \in 1 .. n |-> ResultMsg(uses[cursor + i - 1].id)]
<1>1. /\ cursor \in Nat \ {0} /\ Len(uses) \in Nat /\ DOMAIN uses = 1 .. Len(uses) /\ messages \in Seq(MessageRec)
  BY DEF TurnInv, TypesHold
<1>2. last \in Segment /\ last \in DOMAIN uses /\ cursor <= last
  <2>1. pc = "tools"
    BY DEF Collect, Joined
  <2>2. /\ Segment \subseteq DOMAIN uses
        /\ cursor \in Segment /\ \E k \in Segment : \A j \in Segment : j <= k
    BY <2>1, SegmentOfUses DEF TurnInv, TypesHold
  <2>3. last \in Segment /\ \A j \in Segment : j <= last
    BY <2>2
  <2> QED
    BY <2>2, <2>3
<1>3. messages' = messages \o results
  BY DEF Collect
<1>4. /\ UNCHANGED <<ran, granted>>
      /\ \/ last < Len(uses) /\ cursor' = last + 1 /\ UNCHANGED <<uses, inv, pc>>
         \/ Forget /\ pc' = "loop"
  BY DEF Collect
<1> HIDE DEF last
<1>5. n \in Nat /\ \A i \in 1 .. n : cursor + i - 1 \in DOMAIN uses
  BY <1>1, <1>2
<1>6. \A i \in 1 .. n : ResultMsg(uses[cursor + i - 1].id) \in MessageRec /\ Range(ResultMsg(uses[cursor + i - 1].id).uses) = {}
  <2> TAKE i \in 1 .. n
  <2>1. uses[cursor + i - 1].id \in Nat
    BY <1>5, UseParts
  <2> QED
    BY <2>1, NewMessages
<1> HIDE DEF n
<1>7. results \in Seq(MessageRec) /\ Named(results) = {}
  <2>1. /\ DOMAIN results = 1 .. n
        /\ \A i \in 1 .. n : results[i] \in MessageRec /\ Range(results[i].uses) = {}
    BY <1>6
  <2>2. results = [i \in 1 .. n |-> results[i]]
    OBVIOUS
  <2> HIDE DEF results
  <2>3. results \in Seq(MessageRec)
    BY <1>5, <2>1, <2>2 DEF Seq
  <2> QED
    BY <2>1, <2>3 DEF Named
<1> HIDE DEF results
<1>8. messages' \in Seq(MessageRec) /\ Named(messages') = Named(messages)
  <2> DEFINE all == messages \o results
  <2>1. all \in Seq(MessageRec) /\ Named(all) = Named(messages) \cup Named(results)
    BY <1>1, <1>7, NamedConcat
  <2>2. messages' = all
    BY <1>3
  <2> HIDE DEF all
  <2> QED
    BY <1>7, <2>1, <2>2
<1>9. Counted(messages, Len(ran))' /\ AsAllowed' /\ (uses' = uses => UsesNamed')
  BY <1>4, <1>8, NamesAsBefore
<1>10. CASE last < Len(uses) /\ cursor' = last + 1 /\ UNCHANGED <<uses, inv, pc>>
  <2>1. cursor' \in Nat \ {0} /\ cursor' \in DOMAIN uses
    BY <1>1, <1>2, <1>10
  <2>2. TypesHold'
    BY <1>4, <1>8, <1>10, <2>1 DEF TurnInv, TypesHold
  <2>3. NotRunYet'
    BY <1>4, <1>10 DEF TurnInv, NotRunYet
  <2>4. WaitsForUser'
    BY <1>10 DEF WaitsForUser, Collect, Joined
  <2> QED
    BY <1>9, <1>10, <2>2, <2>3, <2>4 DEF TurnInv
<1>11. CASE Forget /\ pc' = "loop"
  <2>1. TypesHold' /\ UsesNamed' /\ NotRunYet'
    BY <1>4, <1>8, <1>11, Forgotten DEF TurnInv, TypesHold
  <2>2. WaitsForUser'
    BY <1>11 DEF WaitsForUser
  <2> QED
    BY <1>9, <2>1, <2>2 DEF TurnInv
<1> QED
  BY <1>4, <1>10, <1>11

LEMMA SuspendStep == ASSUME TurnInv, Suspend PROVE TurnInv'
<1>1. UNCHANGED <<messages, ran, granted, uses, inv, cursor>> /\ messages' \in Seq(MessageRec) /\ Named(messages') = Named(messages)
  BY DEF Suspend, TurnInv, TypesHold
<1>2. CASE config.kind = "followup"
  <2>1. pc' = "failed"
    BY <1>2 DEF Suspend
  <2> QED
    BY <1>1, <2>1, MovesOn
<1>3. CASE config.kind # "followup"
  <2>1. pc' = "suspended" /\ suspended' = First(Asking) /\ Asking # {}
    BY <1>3 DEF Suspend
  <2>2. Asking \subseteq DOMAIN uses /\ Asking \subseteq Nat /\ \A k \in Asking : inv[k].phase = "permission_requested"
    <3>1. Asking \subseteq DOMAIN uses
      BY SegmentOfUses DEF Asking, TurnInv, TypesHold
    <3>2. \A k \in DOMAIN uses : k \in Nat
      BY UseParts
    <3> QED
      BY <3>1, <3>2 DEF Asking
  <2>3. First(Asking) \in Asking
    BY <2>1, <2>2, LeastExists DEF First
  <2>4. Counted(messages, Len(ran))' /\ AsAllowed' /\ UsesNamed'
    BY <1>1, NamesAsBefore
  <2>5. TypesHold'
    BY <1>1, <2>1 DEF TurnInv, TypesHold
  <2>6. NotRunYet'
    BY <1>1 DEF TurnInv, NotRunYet
  <2>7. WaitsForUser'
    BY <1>1, <2>1, <2>2, <2>3 DEF WaitsForUser
  <2> QED
    BY <2>4, <2>5, <2>6, <2>7 DEF TurnInv
<1> QED
  BY <1>2, <1>3

LEMMA AnswerStep == ASSUME TurnInv, Answer PROVE TurnInv'
<1>1. PICK allowed \in BOOLEAN : Verdict(allowed)
  BY DEF Answer
<1>2. /\ pc = "suspended" /\ suspended \in DOMAIN uses /\ inv[suspended].phase = "permission_requested"
      /\ UNCHANGED ran /\ granted \subseteq granted'
  <2>1. pc = "suspended"
    BY <1>1 DEF Verdict
  <2> QED
    BY <1>1, <2>1 DEF Verdict, TurnInv, WaitsForUser
<1>3. inv[suspended] \in InvRec /\ suspended \in DOMAIN inv /\ uses[suspended].id \in Nat
  BY <1>2, UseParts
<1>4. /\ messages \in Seq(MessageRec) /\ ran \in Seq(Nat) /\ uses \in Seq(UseRec)
      /\ inv \in Seq(InvRec) /\ DOMAIN inv = DOMAIN uses /\ cursor \in Nat \ {0}
  BY DEF TurnInv, TypesHold
<1>5. CASE allowed
  <2> DEFINE r == [inv[suspended] EXCEPT !.perm = "allowed"]
  <2>1. /\ pc' = "resumed" /\ inv' = [inv EXCEPT ![suspended].perm = "allowed"]
        /\ UNCHANGED <<messages, uses, cursor, suspended>> /\ granted' = granted \cup {uses[suspended].id}
    BY <1>1, <1>5 DEF Verdict
  <2>2. r \in InvRec /\ r.phase = inv[suspended].phase
    BY <1>3 DEF InvRec
  <2>3. inv' = [inv EXCEPT ![suspended] = r]
    BY <2>1
  <2> HIDE DEF r
  <2>4. inv' \in Seq(InvRec) /\ DOMAIN inv' = DOMAIN inv /\ \A k \in DOMAIN inv : inv'[k].phase = inv[k].phase
    BY <1>3, <1>4, <2>2, <2>3, ExceptSeq
  <2>5. Counted(messages, Len(ran))' /\ AsAllowed' /\ UsesNamed'
    BY <1>2, <2>1, NamesAsBefore
  <2>6. TypesHold'
    BY <1>2, <1>4, <2>1, <2>4 DEF TypesHold
  <2>7. NotRunYet'
    BY <1>2, <1>4, <2>1, <2>4 DEF TurnInv, NotRunYet
  <2>8. WaitsForUser'
    BY <1>2, <1>4, <2>1, <2>4 DEF WaitsForUser
  <2> QED
    BY <2>5, <2>6, <2>7, <2>8 DEF TurnInv
<1>6. CASE ~allowed
  <2>1. pc' = "loop" /\ messages' = Append(messages, ResultMsg(uses[suspended].id)) /\ Forget
    BY <1>1, <1>6 DEF Verdict
  <2>2. messages' \in Seq(MessageRec) /\ Named(messages') = Named(messages)
    BY <1>3, <1>4, <2>1, ResultAppends
  <2>3. Counted(messages, Len(ran))' /\ AsAllowed'
    BY <1>2, <2>2, NamesAsBefore
  <2>4. TypesHold' /\ UsesNamed' /\ NotRunYet'
    BY <1>2, <1>4, <2>1, <2>2, Forgotten DEF TypesHold
  <2>5. WaitsForUser'
    BY <2>1 DEF WaitsForUser
  <2> QED
    BY <2>3, <2>4, <2>5 DEF TurnInv
<1> QED
  BY <1>5, <1>6

LEMMA RunResumedStep == ASSUME TurnInv, NEW ok \in BOOLEAN, RunResumed(ok) PROVE TurnInv'
<1> DEFINE id == uses[suspended].id
<1>1. /\ pc = "resumed" /\ suspended \in DOMAIN uses /\ inv[suspended].phase = "permission_requested"
      /\ id \in granted /\ granted' = granted
  <2>1. pc = "resumed"
    BY DEF RunResumed
  <2> QED
    BY <2>1 DEF RunResumed, TurnInv, WaitsForUser
<1>2. ran[id] = 0 /\ Ruling(uses[suspended].tool) = "ask" /\ id \in Nat
  BY <1>1, UseParts DEF TurnInv, NotRunYet
<1>3. messages \in Seq(MessageRec) /\ ran \in Seq(Nat)
  BY DEF TurnInv, TypesHold
<1>4. /\ ran' = [ran EXCEPT ![id] = @ + 1] \/ ran' = ran
      /\ messages' \in {messages, Append(messages, ResultMsg(id))}
      /\ pc' \in {"loop", "failed"} /\ Forget
  BY DEF RunResumed
<1> HIDE DEF id
<1>5. messages' \in Seq(MessageRec) /\ Named(messages') = Named(messages)
  BY <1>2, <1>3, <1>4, ResultAppends DEF TurnInv
<1>6. ran' \in Seq(Nat) /\ Counted(messages, Len(ran))' /\ AsAllowed'
  <2>1. CASE ran' = ran
    BY <1>1, <1>3, <1>5, <2>1, NamesAsBefore
  <2>2. CASE ran' = [ran EXCEPT ![id] = @ + 1]
    BY <1>1, <1>2, <1>5, <2>2, RunsOne DEF id
  <2> QED
    BY <1>4, <2>1, <2>2
<1>7. TypesHold' /\ UsesNamed' /\ NotRunYet'
  BY <1>4, <1>5, <1>6, Forgotten DEF TypesHold
<1>8. WaitsForUser'
  BY <1>4 DEF WaitsForUser
<1> QED
  BY <1>6, <1>7, <1>8 DEF TurnInv

LEMMA TurnStep ==
  ASSUME TurnInv, Mode \notin {"none", "allow_all"}, [Next]_vars PROVE TurnInv'
<1>1. CASE HitLimit \/ ProviderFails
  <2>1. UNCHANGED <<messages, ran, granted, uses, inv, cursor>> /\ pc' \in {"completed", "failed"}
    BY <1>1 DEF HitLimit, ProviderFails, Call
  <2>2. messages \in Seq(MessageRec)
    BY DEF TurnInv, TypesHold
  <2> QED
    BY <2>1, <2>2, MovesOn
<1>2. CASE ReplyText
  BY <1>2, ReplyTextStep
<1>3. CASE ReplyTools
  BY <1>3, ReplyToolsStep
<1>4. CASE Tools
  BY <1>4, ToolsStep
<1>5. CASE Collect
  BY <1>5, CollectStep
<1>6. CASE Suspend
  BY <1>6, SuspendStep
<1>7. CASE \E ok \in BOOLEAN : RunResumed(ok)
  BY <1>7, RunResumedStep
<1>8. CASE Answer
  BY <1>8, AnswerStep
<1>9. CASE UNCHANGED vars
  <2>1. UNCHANGED <<messages, ran, granted, uses, inv, cursor, pc, suspended>>
    BY <1>9 DEF vars
  <2>2. TypesHold' /\ Counted(messages, Len(ran))'
    BY <2>1 DEF TurnInv, TypesHold, Counted
  <2>3. UsesNamed' /\ NotRunYet'
    BY <2>1 DEF TurnInv, UsesNamed, NotRunYet
  <2>4. WaitsForUser' /\ AsAllowed'
    BY <2>1 DEF TurnInv, WaitsForUser, AsAllowed, MayHaveRun
  <2> QED
    BY <2>2, <2>3, <2>4 DEF TurnInv
<1> QED
  BY <1>1, <1>2, <1>3, <1>4, <1>5, <1>6, <1>7, <1>8, <1>9 DEF Next, Turn

\* Under a permission checker that does not just allow everything, a tool is
\* called at most once for a use, over suspension and resumption, and only
\* where the rules allow it or the user did (run_tool_use,
\* execute_tool_after_permission, PermissionChecker::has_permission): for every
\* set of tools and rules, however many segments, suspensions and compactions
\* there are.
THEOREM ToolsRunOnceAsAllowed ==
  ASSUME Mode \notin {"none", "allow_all"}
  PROVE  Spec => []RunsOnceAsAllowed
<1>1. Init => TurnInv
  BY TurnInit
<1>2. TurnInv /\ [Next]_vars => TurnInv'
  BY TurnStep
<1>3. TurnInv => RunsOnceAsAllowed
  <2> SUFFICES ASSUME TurnInv, NEW id \in DOMAIN ran
               PROVE  /\ ran[id] <= 1
                      /\ ran[id] = 1 => Ruling(ToolOf(id)) = "allow" \/ (Ruling(ToolOf(id)) = "ask" /\ id \in granted)
    BY DEF RunsOnceAsAllowed
  <2>1. id \in 1 .. Len(ran)
    BY DEF TurnInv, TypesHold
  <2>2. PICK u \in Named(messages) : u.id = id
    BY <2>1 DEF TurnInv, Counted
  <2>3. ToolOf(id) = u.tool
    BY <2>2, ToolNamed DEF TurnInv, Counted
  <2>4. MayHaveRun(u)
    BY DEF TurnInv, AsAllowed
  <2> QED
    BY <2>2, <2>3, <2>4 DEF MayHaveRun
<1> QED
  BY <1>1, <1>2, <1>3, PTL DEF Spec

-----------------------------------------------------------------------------
(* The history.                                                             *)

\* The history begins with a message of the user, and a result stands behind
\* another or behind an assistant message.
Shaped(ms) ==
  /\ ms \in Seq(MessageRec) /\ Len(ms) >= 1
  /\ ms[1].role = "user" /\ ~IsResult(ms[1])
  /\ \A i \in 2 .. Len(ms) : IsResult(ms[i]) => IsResult(ms[i - 1]) \/ ms[i - 1].role = "assistant"

\* ResultsInOrder of any history.
Ordered(ms) ==
  \A i \in DOMAIN ms : IsResult(ms[i]) =>
    LET a   == Asker(ms, i)
        ids == {ms[a].uses[k].id : k \in DOMAIN ms[a].uses} IN
    /\ ms[i].use \in ids
    /\ \A j \in a + 1 .. i - 1 : IsResult(ms[j]) => ms[j].use < ms[i].use

\* The assistant messages from a place on.
Spoken(ms, i) == {j \in i .. Len(ms) : ms[j].role = "assistant"}

\* CompactedWhole of any history.
Whole(ms, n) ==
  /\ ~ms[1].filtered
  /\ \A i \in DOMAIN ms : IsResult(ms[i]) => ms[i].filtered = ms[Asker(ms, i)].filtered
  /\ \A i \in DOMAIN ms : Cardinality(Spoken(ms, i)) < n => ~ms[i].filtered /\ ~ms[i].cleared

Good(ms, n) == Shaped(ms) /\ Ordered(ms) /\ Whole(ms, n)

LEMMA ShapedParts ==
  ASSUME NEW ms, Shaped(ms)
  PROVE  /\ ms \in Seq(MessageRec) /\ Len(ms) \in Nat /\ Len(ms) >= 1 /\ DOMAIN ms = 1 .. Len(ms)
         /\ \A i \in DOMAIN ms : ms[i] \in MessageRec /\ i \in Nat /\ (IsResult(ms[i]) => ms[i].role = "user" /\ i >= 2)
<1>1. /\ ms \in Seq(MessageRec) /\ Len(ms) \in Nat /\ Len(ms) >= 1 /\ DOMAIN ms = 1 .. Len(ms)
  BY DEF Shaped
<1>2. ASSUME NEW i \in DOMAIN ms
      PROVE  ms[i] \in MessageRec /\ i \in Nat /\ (IsResult(ms[i]) => ms[i].role = "user" /\ i >= 2)
  <2>1. ms[i] \in MessageRec /\ i \in Nat /\ i >= 1
    BY <1>1
  <2>2. IsResult(ms[i]) => ms[i].role = "user"
    BY DEF IsResult
  <2>3. IsResult(ms[i]) => i # 1
    BY DEF Shaped
  <2> QED
    BY <2>1, <2>2, <2>3
<1> QED
  BY <1>1, <1>2

\* The asker is the one behind which there is no other.
LEMMA AskerIs ==
  ASSUME NEW ms, NEW i \in Nat, NEW a \in 1 .. i - 1, ms[a].role = "assistant",
         \A k \in a + 1 .. i - 1 : ms[k].role # "assistant"
  PROVE  Asker(ms, i) = a
<1> DEFINE before == {j \in 1 .. i - 1 : ms[j].role = "assistant"}
<1>1. a \in before /\ \A k \in before : k <= a
  OBVIOUS
<1>2. \A b \in before : (\A k \in before : k <= b) => b = a
  <2> TAKE b \in before
  <2> HAVE \A k \in before : k <= b
  <2>1. a <= b /\ b <= a
    BY <1>1
  <2> QED
    BY <2>1
<1>3. Asker(ms, i) = CHOOSE j \in before : \A k \in before : k <= j
  BY DEF Asker
<1> HIDE DEF before
<1> QED
  BY <1>1, <1>2, <1>3

\* A result has an asker, with nothing but results between.
LEMMA AskerFound ==
  ASSUME NEW ms, Shaped(ms), NEW i \in DOMAIN ms, IsResult(ms[i])
  PROVE  /\ Asker(ms, i) \in 2 .. i - 1 /\ Asker(ms, i) \in DOMAIN ms
         /\ ms[Asker(ms, i)].role = "assistant"
         /\ \A k \in Asker(ms, i) + 1 .. i : IsResult(ms[k])
<1> DEFINE From == {j \in 1 .. i - 1 : \A k \in j + 1 .. i : IsResult(ms[k])}
<1>1. i \in Nat /\ i >= 2 /\ i \in 1 .. Len(ms) /\ Len(ms) \in Nat
  BY ShapedParts
<1>2. i - 1 \in From
  BY <1>1
<1>3. From \in SUBSET Nat /\ From # {}
  BY <1>1, <1>2
<1>4. PICK a \in From : \A j \in From : a <= j
  <2> HIDE DEF From
  <2> QED
    BY <1>3, LeastExists
<1>5. a \in 1 .. i - 1 /\ (\A k \in a + 1 .. i : IsResult(ms[k])) /\ a \in Nat
  BY <1>1, <1>4
<1>6. IsResult(ms[a]) \/ ms[a].role = "assistant"
  <2>1. a + 1 \in 2 .. Len(ms) /\ a + 1 \in a + 1 .. i /\ a + 1 - 1 = a
    BY <1>1, <1>5
  <2>2. IsResult(ms[a + 1])
    BY <1>5, <2>1
  <2> QED
    BY <2>1, <2>2 DEF Shaped
<1>7. ~IsResult(ms[a])
  <2> SUFFICES ASSUME IsResult(ms[a]) PROVE FALSE
    OBVIOUS
  <2>1. a >= 2
    <3>1. a \in DOMAIN ms
      BY <1>1, <1>5, ShapedParts
    <3> QED
      BY <3>1, ShapedParts
  <2>2. a - 1 \in 1 .. i - 1
    BY <1>1, <1>5, <2>1
  <2>3. ASSUME NEW k \in a - 1 + 1 .. i PROVE IsResult(ms[k])
    <3>1. k = a \/ k \in a + 1 .. i
      BY <1>1, <1>5
    <3> QED
      BY <1>5, <3>1
  <2>4. a - 1 \in From
    BY <2>2, <2>3
  <2> HIDE DEF From
  <2>5. a <= a - 1
    BY <1>4, <2>4
  <2> QED
    BY <1>5, <2>5
<1>8. ms[a].role = "assistant" /\ a # 1
  BY <1>6, <1>7 DEF Shaped
<1>9. \A k \in a + 1 .. i - 1 : ms[k].role # "assistant"
  BY <1>1, <1>5 DEF IsResult
<1>10. Asker(ms, i) = a
  BY <1>1, <1>5, <1>8, <1>9, AskerIs
<1>11. a \in DOMAIN ms
  BY <1>1, <1>5, ShapedParts
<1> QED
  BY <1>1, <1>5, <1>8, <1>10, <1>11

\* What depends on roles and uses alone.
LEMMA SameHistory ==
  ASSUME NEW ms, Shaped(ms), Ordered(ms), NEW ks \in Seq(MessageRec), DOMAIN ks = DOMAIN ms,
         \A i \in DOMAIN ms : ks[i].role = ms[i].role /\ ks[i].use = ms[i].use /\ ks[i].uses = ms[i].uses
  PROVE  /\ Shaped(ks) /\ Ordered(ks) /\ Len(ks) = Len(ms)
         /\ \A i \in DOMAIN ms : /\ IsResult(ks[i]) <=> IsResult(ms[i])
                                 /\ Asker(ks, i) = Asker(ms, i) /\ Spoken(ks, i) = Spoken(ms, i)
<1>1. /\ Len(ms) \in Nat /\ Len(ms) >= 1 /\ DOMAIN ms = 1 .. Len(ms)
  BY ShapedParts
<1>2. Len(ks) = Len(ms)
  <2>1. DOMAIN ks = 1 .. Len(ks) /\ Len(ks) \in Nat
    OBVIOUS
  <2> QED
    BY <1>1, <2>1
<1>3. \A i \in DOMAIN ms : IsResult(ks[i]) <=> IsResult(ms[i])
  BY DEF IsResult
<1>4. Shaped(ks)
  <2>1. ASSUME NEW i \in 2 .. Len(ks), IsResult(ks[i]) PROVE IsResult(ks[i - 1]) \/ ks[i - 1].role = "assistant"
    <3>1. i \in DOMAIN ms /\ i - 1 \in DOMAIN ms /\ i \in 2 .. Len(ms)
      BY <1>1, <1>2
    <3>2. IsResult(ms[i])
      BY <1>3, <2>1, <3>1
    <3>3. IsResult(ms[i - 1]) \/ ms[i - 1].role = "assistant"
      BY <3>1, <3>2 DEF Shaped
    <3> QED
      BY <1>3, <3>1, <3>3
  <2>2. 1 \in DOMAIN ms
    BY <1>1
  <2>3. ms[1].role = "user" /\ ~IsResult(ms[1])
    BY DEF Shaped
  <2>4. ks[1].role = "user" /\ ~IsResult(ks[1])
    BY <1>3, <2>2, <2>3
  <2> QED
    BY <1>1, <1>2, <2>1, <2>4 DEF Shaped
<1>5. ASSUME NEW i \in DOMAIN ms PROVE Asker(ks, i) = Asker(ms, i) /\ Spoken(ks, i) = Spoken(ms, i)
  <2>1. {j \in 1 .. i - 1 : ks[j].role = "assistant"} = {j \in 1 .. i - 1 : ms[j].role = "assistant"}
    <3>1. \A j \in 1 .. i - 1 : j \in DOMAIN ms
      BY <1>1
    <3> QED
      BY <3>1
  <2>2. \A j \in i .. Len(ms) : j \in DOMAIN ms
    BY <1>1
  <2>3. Spoken(ks, i) = Spoken(ms, i)
    BY <1>2, <2>2 DEF Spoken
  <2> QED
    BY <2>1, <2>3 DEF Asker
<1>6. Ordered(ks)
  <2>1. ASSUME NEW i \in DOMAIN ks, IsResult(ks[i])
        PROVE  /\ ks[i].use \in {ks[Asker(ks, i)].uses[k].id : k \in DOMAIN ks[Asker(ks, i)].uses}
               /\ \A j \in Asker(ks, i) + 1 .. i - 1 : IsResult(ks[j]) => ks[j].use < ks[i].use
    <3> DEFINE a == Asker(ms, i)
    <3>1. i \in DOMAIN ms /\ IsResult(ms[i]) /\ Asker(ks, i) = a
      BY <1>3, <1>5, <2>1
    <3>2. a \in DOMAIN ms /\ a \in 2 .. i - 1
      BY <3>1, AskerFound
    <3>3. /\ ms[i].use \in {ms[a].uses[k].id : k \in DOMAIN ms[a].uses}
          /\ \A j \in a + 1 .. i - 1 : IsResult(ms[j]) => ms[j].use < ms[i].use
      BY <3>1 DEF Ordered
    <3> HIDE DEF a
    <3>4. \A j \in a + 1 .. i - 1 : j \in DOMAIN ms
      BY <1>1, <3>1, <3>2
    <3>5. ks[a].uses = ms[a].uses /\ ks[i].use = ms[i].use
      BY <3>1, <3>2
    <3>6. \A j \in a + 1 .. i - 1 : IsResult(ks[j]) => ks[j].use < ks[i].use
      BY <1>3, <3>3, <3>4, <3>5
    <3> QED
      BY <3>1, <3>3, <3>5, <3>6
  <2> QED
    BY <2>1 DEF Ordered
<1> QED
  BY <1>2, <1>3, <1>4, <1>5, <1>6

\* A history that grows by messages that are as they came: what the new ones
\* have to be.
Continues(ms, new) ==
  /\ new \in Seq(MessageRec) /\ Len(ms) <= Len(new)
  /\ \A i \in DOMAIN ms : new[i] = ms[i]
  /\ \A i \in Len(ms) + 1 .. Len(new) :
       /\ ~new[i].filtered /\ ~new[i].cleared
       /\ IsResult(new[i]) =>
            /\ IsResult(new[i - 1]) \/ new[i - 1].role = "assistant"
            /\ ~new[Asker(new, i)].filtered
            /\ new[i].use \in {new[Asker(new, i)].uses[k].id : k \in DOMAIN new[Asker(new, i)].uses}
            /\ \A j \in Asker(new, i) + 1 .. i - 1 : IsResult(new[j]) => new[j].use < new[i].use

LEMMA Grown ==
  ASSUME NEW ms, NEW n \in Nat, Good(ms, n), NEW new, Continues(ms, new)
  PROVE  Good(new, n)
<1> USE DEF Continues
<1>1. /\ Len(ms) \in Nat /\ Len(ms) >= 1 /\ DOMAIN ms = 1 .. Len(ms) /\ Shaped(ms)
      /\ Len(new) \in Nat /\ DOMAIN new = 1 .. Len(new)
  BY ShapedParts DEF Good
<1>2. ASSUME NEW i \in DOMAIN ms PROVE Asker(new, i) = Asker(ms, i)
  <2>1. {j \in 1 .. i - 1 : new[j].role = "assistant"} = {j \in 1 .. i - 1 : ms[j].role = "assistant"}
    <3>1. \A j \in 1 .. i - 1 : j \in DOMAIN ms
      BY <1>1
    <3> QED
      BY <3>1
  <2> QED
    BY <2>1 DEF Asker
<1>3. ASSUME NEW i \in DOMAIN ms, IsResult(ms[i])
      PROVE  Asker(ms, i) \in DOMAIN ms /\ Asker(ms, i) \in 2 .. i - 1
  BY <1>1, <1>3, AskerFound
<1>4. ASSUME NEW i \in DOMAIN new PROVE i \in DOMAIN ms \/ i \in Len(ms) + 1 .. Len(new)
  BY <1>1
<1>5. Shaped(new)
  <2>1. ASSUME NEW i \in 2 .. Len(new), IsResult(new[i]) PROVE IsResult(new[i - 1]) \/ new[i - 1].role = "assistant"
    <3>1. CASE i \in DOMAIN ms
      <4>1. i \in 2 .. Len(ms) /\ i - 1 \in DOMAIN ms
        BY <1>1, <3>1
      <4> QED
        BY <1>1, <2>1, <4>1, <3>1 DEF Shaped
    <3>2. CASE i \in Len(ms) + 1 .. Len(new)
      BY <2>1, <3>2
    <3>3. i \in DOMAIN new
      BY <1>1
    <3> QED
      BY <1>4, <3>1, <3>2, <3>3
  <2>2. 1 \in DOMAIN ms /\ Len(new) >= 1
    BY <1>1
  <2> QED
    BY <1>1, <2>1, <2>2 DEF Shaped
<1>6. Ordered(new)
  <2>1. ASSUME NEW i \in DOMAIN new, IsResult(new[i])
        PROVE  /\ new[i].use \in {new[Asker(new, i)].uses[k].id : k \in DOMAIN new[Asker(new, i)].uses}
               /\ \A j \in Asker(new, i) + 1 .. i - 1 : IsResult(new[j]) => new[j].use < new[i].use
    <3>1. CASE i \in DOMAIN ms
      <4> DEFINE a == Asker(ms, i)
      <4>1. IsResult(ms[i]) /\ Asker(new, i) = a /\ new[i] = ms[i]
        BY <1>2, <2>1, <3>1
      <4>2. a \in DOMAIN ms /\ a \in 2 .. i - 1
        BY <1>3, <3>1, <4>1
      <4>3. /\ ms[i].use \in {ms[a].uses[k].id : k \in DOMAIN ms[a].uses}
            /\ \A j \in a + 1 .. i - 1 : IsResult(ms[j]) => ms[j].use < ms[i].use
        BY <3>1, <4>1 DEF Good, Ordered
      <4> HIDE DEF a
      <4>4. \A j \in a + 1 .. i - 1 : j \in DOMAIN ms
        BY <1>1, <3>1, <4>2
      <4>5. new[a] = ms[a] /\ \A j \in a + 1 .. i - 1 : new[j] = ms[j]
        BY <4>2, <4>4
      <4>6. \A j \in a + 1 .. i - 1 : IsResult(new[j]) => new[j].use < new[i].use
        BY <4>1, <4>3, <4>5
      <4> QED
        BY <4>1, <4>3, <4>5, <4>6
    <3>2. CASE i \in Len(ms) + 1 .. Len(new)
      BY <2>1, <3>2
    <3> QED
      BY <1>4, <3>1, <3>2
  <2> QED
    BY <2>1 DEF Ordered
<1>7. Whole(new, n)
  <2>1. ~new[1].filtered
    <3>1. 1 \in DOMAIN ms
      BY <1>1
    <3> QED
      BY <3>1 DEF Good, Whole
  <2>2. ASSUME NEW i \in DOMAIN new, IsResult(new[i]) PROVE new[i].filtered = new[Asker(new, i)].filtered
    <3>1. CASE i \in DOMAIN ms
      <4>1. IsResult(ms[i]) /\ Asker(new, i) = Asker(ms, i) /\ new[i] = ms[i]
        BY <1>2, <2>2, <3>1
      <4>2. Asker(ms, i) \in DOMAIN ms
        BY <1>3, <3>1, <4>1
      <4>3. ms[i].filtered = ms[Asker(ms, i)].filtered
        BY <3>1, <4>1 DEF Good, Whole
      <4> QED
        BY <4>1, <4>2, <4>3
    <3>2. CASE i \in Len(ms) + 1 .. Len(new)
      <4>1. ~new[i].filtered /\ ~new[Asker(new, i)].filtered
        BY <2>2, <3>2
      <4>2. new[i].filtered \in BOOLEAN /\ new[Asker(new, i)].filtered \in BOOLEAN
        <5>1. Asker(new, i) \in DOMAIN new
          BY <1>5, <2>2, AskerFound
        <5> QED
          BY <5>1 DEF MessageRec
      <4> QED
        BY <4>1, <4>2
    <3> QED
      BY <1>4, <3>1, <3>2
  <2>3. ASSUME NEW i \in DOMAIN new, Cardinality(Spoken(new, i)) < n PROVE ~new[i].filtered /\ ~new[i].cleared
    <3>1. CASE i \in DOMAIN ms
      <4>1. Spoken(ms, i) \subseteq Spoken(new, i)
        <5>1. \A j \in i .. Len(ms) : j \in DOMAIN ms /\ j \in i .. Len(new)
          BY <1>1, <3>1
        <5> QED
          BY <5>1 DEF Spoken
      <4>2. IsFiniteSet(Spoken(new, i))
        <5>1. IsFiniteSet(i .. Len(new))
          BY <1>1, <3>1, FS_Interval
        <5>2. Spoken(new, i) \subseteq i .. Len(new)
          BY DEF Spoken
        <5> QED
          BY <5>1, <5>2, FS_Subset
      <4>3. /\ Cardinality(Spoken(ms, i)) <= Cardinality(Spoken(new, i)) /\ Cardinality(Spoken(new, i)) \in Nat
            /\ Cardinality(Spoken(ms, i)) \in Nat
        BY <4>1, <4>2, FS_Subset, FS_CardinalityType
      <4>4. Cardinality(Spoken(ms, i)) < n
        BY <2>3, <4>3
      <4> QED
        BY <3>1, <4>4 DEF Good, Whole
    <3>2. CASE i \in Len(ms) + 1 .. Len(new)
      BY <3>2
    <3> QED
      BY <1>4, <3>1, <3>2
  <2> QED
    BY <2>1, <2>2, <2>3 DEF Whole
<1> QED
  BY <1>5, <1>6, <1>7 DEF Good

\* A message that is no result.
LEMMA GrowsByOne ==
  ASSUME NEW ms, NEW n \in Nat, Good(ms, n), NEW m \in MessageRec, ~IsResult(m), ~m.filtered, ~m.cleared
  PROVE  Good(Append(ms, m), n)
<1> DEFINE new == Append(ms, m)
<1>1. ms \in Seq(MessageRec) /\ Len(ms) \in Nat /\ DOMAIN ms = 1 .. Len(ms)
  BY ShapedParts DEF Good
<1>2. /\ new \in Seq(MessageRec) /\ Len(new) = Len(ms) + 1 /\ new[Len(ms) + 1] = m
      /\ \A i \in DOMAIN ms : new[i] = ms[i]
  BY <1>1, AppendProperties
<1> HIDE DEF new
<1>3. \A i \in Len(ms) + 1 .. Len(new) : new[i] = m
  BY <1>1, <1>2
<1>4. Good(new, n)
  BY <1>1, <1>2, <1>3, Grown DEF Continues
<1> QED
  BY <1>4 DEF new

\* The assistant message that is the last one to speak, and has not been touched.
Speaks(ms, a) ==
  /\ a \in DOMAIN ms /\ ms[a].role = "assistant" /\ ~ms[a].filtered
  /\ \A k \in a + 1 .. Len(ms) : IsResult(ms[k])

\* Behind it are results of its uses before place c, and no others.
ResultsBefore(ms, a, c) ==
  /\ Speaks(ms, a) /\ ms[a].uses \in Seq(UseRec)
  /\ \A j, k \in DOMAIN ms[a].uses : j < k => ms[a].uses[j].id < ms[a].uses[k].id
  /\ \A k \in DOMAIN ms[a].uses : ms[a].uses[k].id # NoUse
  /\ \A k \in a + 1 .. Len(ms) : \E j \in DOMAIN ms[a].uses : j < c /\ ms[k].use = ms[a].uses[j].id

\* The results of l more uses come.
ResultsCome(ms, a, c, l, new) ==
  /\ ResultsBefore(ms, a, c) /\ c \in Nat \ {0} /\ l \in Nat /\ c + l - 1 <= Len(ms[a].uses)
  /\ new = ms \o [i \in 1 .. l |-> ResultMsg(ms[a].uses[c + i - 1].id)]

LEMMA ResultsJoin ==
  ASSUME NEW ms, NEW n \in Nat, Good(ms, n), NEW a, NEW c, NEW l, NEW new, ResultsCome(ms, a, c, l, new)
  PROVE  /\ Good(new, n) /\ Speaks(new, a) /\ Len(new) \in Nat
         /\ \A i \in DOMAIN ms : new[i] = ms[i]
         /\ \A k \in a + 1 .. Len(new) : \E j \in DOMAIN ms[a].uses : j < c + l /\ new[k].use = ms[a].uses[j].id
<1> SUFFICES ASSUME
        c \in Nat \ {0}, l \in Nat, c + l - 1 <= Len(ms[a].uses),
        new = ms \o [i \in 1 .. l |-> ResultMsg(ms[a].uses[c + i - 1].id)],
        Speaks(ms, a), ms[a].uses \in Seq(UseRec),
        \A j, k \in DOMAIN ms[a].uses : j < k => ms[a].uses[j].id < ms[a].uses[k].id,
        \A k \in DOMAIN ms[a].uses : ms[a].uses[k].id # NoUse,
        \A k \in a + 1 .. Len(ms) : \E j \in DOMAIN ms[a].uses : j < c /\ ms[k].use = ms[a].uses[j].id
      PROVE  /\ Good(new, n) /\ Speaks(new, a) /\ Len(new) \in Nat
             /\ \A i \in DOMAIN ms : new[i] = ms[i]
             /\ \A k \in a + 1 .. Len(new) : \E j \in DOMAIN ms[a].uses : j < c + l /\ new[k].use = ms[a].uses[j].id
  BY DEF ResultsCome, ResultsBefore
<1> DEFINE us == ms[a].uses
           N == Len(ms)
           results == [i \in 1 .. l |-> ResultMsg(us[c + i - 1].id)]
<1>1. ms \in Seq(MessageRec) /\ N \in Nat /\ DOMAIN ms = 1 .. N /\ Shaped(ms) /\ a \in 1 .. N
  BY ShapedParts DEF Good, Speaks
<1>2. /\ DOMAIN us = 1 .. Len(us) /\ Len(us) \in Nat
      /\ \A i \in 1 .. l : c + i - 1 \in DOMAIN us
      /\ \A k \in DOMAIN us : us[k].id \in Nat /\ us[k].id # NoUse
  <2>1. DOMAIN us = 1 .. Len(us) /\ Len(us) \in Nat /\ \A k \in DOMAIN us : us[k] \in UseRec
    OBVIOUS
  <2>2. \A i \in 1 .. l : c + i - 1 \in DOMAIN us
    BY <2>1
  <2> QED
    BY <2>1, <2>2 DEF UseRec
<1> HIDE DEF us
<1>3. results \in Seq(MessageRec) /\ Len(results) = l /\ \A i \in 1 .. l : results[i] = ResultMsg(us[c + i - 1].id)
  <2>1. \A i \in 1 .. l : ResultMsg(us[c + i - 1].id) \in MessageRec
    <3> TAKE i \in 1 .. l
    <3>1. us[c + i - 1].id \in Nat
      BY <1>2
    <3> QED
      BY <3>1, NewMessages
  <2> QED
    BY <2>1 DEF Seq
<1>4. new = ms \o results
  BY DEF us
<1> HIDE DEF results
<1>5. /\ new \in Seq(MessageRec) /\ Len(new) = N + l
      /\ \A i \in 1 .. N + l : new[i] = IF i <= N THEN ms[i] ELSE results[i - N]
  <2> DEFINE all == ms \o results
  <2>1. /\ all \in Seq(MessageRec) /\ Len(all) = Len(ms) + Len(results)
        /\ \A i \in 1 .. Len(ms) + Len(results) : all[i] = IF i <= Len(ms) THEN ms[i] ELSE results[i - Len(ms)]
    <3>1. ms \in Seq(MessageRec) /\ results \in Seq(MessageRec)
      BY <1>1, <1>3
    <3> QED
      BY ONLY <3>1, ConcatProperties
  <2> HIDE DEF all
  <2>2. new = all
    BY <1>4 DEF all
  <2> QED
    BY <1>3, <2>1, <2>2
<1>6. \A i \in DOMAIN ms : new[i] = ms[i]
  BY <1>1, <1>5
<1>7. ASSUME NEW i \in N + 1 .. N + l
      PROVE  /\ new[i] = ResultMsg(us[c + (i - N) - 1].id) /\ c + (i - N) - 1 \in DOMAIN us
             /\ IsResult(new[i]) /\ new[i].use = us[c + (i - N) - 1].id
             /\ ~new[i].filtered /\ ~new[i].cleared
  <2>1. i - N \in 1 .. l /\ ~(i <= N) /\ i \in 1 .. N + l
    BY <1>1
  <2>2. new[i] = ResultMsg(us[c + (i - N) - 1].id) /\ c + (i - N) - 1 \in DOMAIN us
    BY <1>2, <1>3, <1>5, <2>1
  <2> DEFINE h == c + (i - N) - 1
             m == ResultMsg(us[h].id)
  <2>3. us[h].id # NoUse
    BY <1>2, <2>2
  <2> HIDE DEF h
  <2>4. IsResult(m) /\ m.use = us[h].id /\ ~m.filtered /\ ~m.cleared
    BY <2>3 DEF IsResult, ResultMsg, Message
  <2>5. new[i] = m /\ h \in DOMAIN us
    BY <2>2 DEF h
  <2> HIDE DEF m
  <2>6. IsResult(new[i]) /\ new[i].use = us[h].id /\ ~new[i].filtered /\ ~new[i].cleared
    BY <2>4, <2>5
  <2> QED
    BY <2>2, <2>6 DEF h
<1>8. ASSUME NEW k \in a + 1 .. N + l PROVE IsResult(new[k])
  <2>1. CASE k \in a + 1 .. N
    <3>1. k \in DOMAIN ms
      BY <1>1, <2>1
    <3> QED
      BY <1>6, <2>1, <3>1 DEF Speaks
  <2>2. CASE k \in N + 1 .. N + l
    BY <1>7, <2>2
  <2> QED
    BY <1>1, <2>1, <2>2
<1>9. new[a] = ms[a] /\ new[a].role = "assistant" /\ ~new[a].filtered /\ a \in DOMAIN new
  <2>1. a \in DOMAIN ms
    BY <1>1
  <2>2. a \in 1 .. N + l
    BY <1>1
  <2> QED
    BY <1>5, <1>6, <2>1, <2>2 DEF Speaks
<1>10. Speaks(new, a)
  BY <1>5, <1>8, <1>9 DEF Speaks
<1>11. ASSUME NEW k \in a + 1 .. N + l
       PROVE  \E j \in DOMAIN us : /\ j < c + l /\ new[k].use = us[j].id
                                   /\ k \in N + 1 .. N + l => j = c + (k - N) - 1
                                   /\ k <= N => j < c
  <2>1. CASE k \in a + 1 .. N
    <3>1. k \in DOMAIN ms
      BY <1>1, <2>1
    <3>2. PICK j \in DOMAIN us : j < c /\ ms[k].use = us[j].id
      BY <2>1 DEF us
    <3>3. j < c + l
      BY <1>2, <3>2
    <3> QED
      BY <1>1, <1>6, <2>1, <3>1, <3>2, <3>3
  <2>2. CASE k \in N + 1 .. N + l
    <3> DEFINE j == c + (k - N) - 1
    <3>1. j \in DOMAIN us /\ new[k].use = us[j].id
      BY <1>7, <2>2
    <3>2. j < c + l /\ ~(k <= N)
      BY <1>1, <2>2
    <3> QED
      BY <2>2, <3>1, <3>2
  <2>3. k \in a + 1 .. N \/ k \in N + 1 .. N + l
    BY <1>1
  <2> QED
    BY <2>1, <2>2, <2>3
<1>12. ASSUME NEW i \in N + 1 .. N + l
       PROVE  /\ IsResult(new[i - 1]) \/ new[i - 1].role = "assistant"
              /\ Asker(new, i) = a
              /\ \A j \in a + 1 .. i - 1 : IsResult(new[j]) => new[j].use < new[i].use
  <2>1. i \in Nat /\ a \in 1 .. i - 1 /\ (i - 1 = a \/ i - 1 \in a + 1 .. N + l)
    BY <1>1
  <2>2. \A k \in a + 1 .. i - 1 : new[k].role # "assistant"
    <3>1. \A k \in a + 1 .. i - 1 : k \in a + 1 .. N + l
      BY <1>1
    <3> QED
      BY <1>8, <3>1 DEF IsResult
  <2>3. Asker(new, i) = a
    BY <1>9, <2>1, <2>2, AskerIs
  <2>4. ASSUME NEW j \in a + 1 .. i - 1 PROVE new[j].use < new[i].use
    <3>1. j \in a + 1 .. N + l
      BY <1>1
    <3>2. PICK k \in DOMAIN us : /\ new[j].use = us[k].id
                                 /\ j \in N + 1 .. N + l => k = c + (j - N) - 1
                                 /\ j <= N => k < c
      BY <1>11, <3>1
    <3> DEFINE h == c + (i - N) - 1
    <3>3. h \in DOMAIN us /\ new[i].use = us[h].id
      BY <1>7
    <3>4. k < h
      <4>1. CASE j <= N
        BY <1>1, <1>2, <3>2, <4>1
      <4>2. CASE ~(j <= N)
        <5>1. j \in N + 1 .. N + l
          BY <1>1, <3>1, <4>2
        <5> QED
          BY <1>1, <3>2, <5>1
      <4> QED
        BY <4>1, <4>2
    <3> HIDE DEF h
    <3>5. us[k].id < us[h].id
      BY <3>3, <3>4 DEF us
    <3> QED
      BY <3>2, <3>3, <3>5
  <2> QED
    BY <1>8, <1>9, <2>1, <2>3, <2>4
<1>13. ASSUME NEW i \in N + 1 .. N + l PROVE new[i].use \in {new[a].uses[k].id : k \in DOMAIN new[a].uses}
  BY <1>7, <1>9 DEF us
<1>14. Good(new, n)
  <2> HIDE DEF N
  <2>1. Len(ms) = N
    BY DEF N
  <2>2. Len(ms) <= Len(new)
    BY <1>1, <1>5, <2>1
  <2>3. ASSUME NEW i \in Len(ms) + 1 .. Len(new)
        PROVE  /\ ~new[i].filtered /\ ~new[i].cleared
               /\ IsResult(new[i - 1]) \/ new[i - 1].role = "assistant"
               /\ ~new[Asker(new, i)].filtered
               /\ new[i].use \in {new[Asker(new, i)].uses[k].id : k \in DOMAIN new[Asker(new, i)].uses}
               /\ \A j \in Asker(new, i) + 1 .. i - 1 : IsResult(new[j]) => new[j].use < new[i].use
    <3>1. i \in N + 1 .. N + l
      BY <1>5, <2>1
    <3>2. ~new[i].filtered /\ ~new[i].cleared
      BY ONLY <1>7, <3>1
    <3>3. /\ Asker(new, i) = a /\ (IsResult(new[i - 1]) \/ new[i - 1].role = "assistant")
          /\ \A j \in a + 1 .. i - 1 : IsResult(new[j]) => new[j].use < new[i].use
      BY ONLY <1>12, <3>1
    <3>4. new[i].use \in {new[a].uses[k].id : k \in DOMAIN new[a].uses}
      BY ONLY <1>13, <3>1
    <3> QED
      BY ONLY <1>9, <3>2, <3>3, <3>4
  <2>4. Continues(ms, new)
    BY <1>5, <1>6, <2>2, <2>3 DEF Continues
  <2> QED
    BY <2>4, Grown
<1>15. \A k \in a + 1 .. Len(new) : \E j \in DOMAIN us : j < c + l /\ new[k].use = us[j].id
  <2> HIDE DEF N
  <2> QED
    BY <1>5, <1>11
<1>16. Len(new) \in Nat
  BY <1>1, <1>5
<1> QED
  BY <1>6, <1>10, <1>14, <1>15, <1>16 DEF us

LEMMA SpokenFinite ==
  ASSUME NEW ms, Shaped(ms), NEW i \in Nat
  PROVE  IsFiniteSet(Spoken(ms, i)) /\ Cardinality(Spoken(ms, i)) \in Nat
<1>1. IsFiniteSet(i .. Len(ms))
  BY ShapedParts, FS_Interval
<1>2. Spoken(ms, i) \subseteq i .. Len(ms)
  BY DEF Spoken
<1>3. IsFiniteSet(Spoken(ms, i))
  BY <1>1, <1>2, FS_Subset
<1> QED
  BY <1>3, FS_CardinalityType

\* There is a place from which on so many assistant messages speak.
LEMMA NthFromTheEnd ==
  ASSUME NEW ms, Shaped(ms), NEW n \in Nat, n # 0, ~(Cardinality(Spoken(ms, 1)) < n)
  PROVE  \E i \in DOMAIN ms : ms[i].role = "assistant" /\ Cardinality(Spoken(ms, i)) = n
<1> DEFINE Few == {i \in Nat : Cardinality(Spoken(ms, i)) < n}
<1>1. Len(ms) \in Nat /\ DOMAIN ms = 1 .. Len(ms)
  BY ShapedParts
<1>2. Len(ms) + 1 \in Few
  <2>1. Len(ms) + 1 .. Len(ms) = {}
    BY <1>1
  <2>2. Spoken(ms, Len(ms) + 1) = {}
    BY <2>1 DEF Spoken
  <2>3. Cardinality({}) = 0 /\ Len(ms) + 1 \in Nat
    BY <1>1, FS_EmptySet
  <2>4. Cardinality(Spoken(ms, Len(ms) + 1)) = 0
    BY <2>2, <2>3
  <2>5. 0 < n
    OBVIOUS
  <2> QED
    BY <2>3, <2>4, <2>5
<1>3. Few \in SUBSET Nat /\ Few # {}
  BY <1>2
<1>4. PICK x \in Few : \A y \in Few : x <= y
  <2> HIDE DEF Few
  <2> QED
    BY <1>3, LeastExists
<1>5. x \in Nat /\ x <= Len(ms) + 1 /\ Cardinality(Spoken(ms, x)) < n
  BY <1>2, <1>4
<1>6. ~(Cardinality(Spoken(ms, 0)) < n)
  <2>1. Spoken(ms, 1) \subseteq Spoken(ms, 0)
    BY <1>1 DEF Spoken
  <2>2. Cardinality(Spoken(ms, 1)) <= Cardinality(Spoken(ms, 0))
    BY <2>1, SpokenFinite, FS_Subset
  <2>3. Cardinality(Spoken(ms, 1)) \in Nat /\ Cardinality(Spoken(ms, 0)) \in Nat
    BY SpokenFinite
  <2> QED
    BY <2>2, <2>3
<1>7. x # 0 /\ x # 1
  BY <1>5, <1>6
<1> DEFINE i == x - 1
<1>8. i \in Nat /\ i \in DOMAIN ms /\ i + 1 = x /\ i < x
  BY <1>1, <1>5, <1>7
<1>9. ~(Cardinality(Spoken(ms, i)) < n)
  <2>1. i \notin Few
    <3> HIDE DEF Few
    <3>1. ~(x <= i)
      BY <1>5, <1>8
    <3> QED
      BY <1>4, <3>1
  <2> QED
    BY <1>8, <2>1
<1> HIDE DEF i
<1>10. Spoken(ms, i) = IF ms[i].role = "assistant" THEN Spoken(ms, x) \cup {i} ELSE Spoken(ms, x)
  <2>1. \A j : j \in i .. Len(ms) <=> (j = i \/ j \in x .. Len(ms))
    BY <1>1, <1>5, <1>8
  <2> QED
    BY <2>1 DEF Spoken
<1>11. Cardinality(Spoken(ms, x)) \in Nat /\ Cardinality(Spoken(ms, i)) \in Nat
  BY <1>5, <1>8, SpokenFinite
<1>12. ms[i].role = "assistant"
  BY <1>5, <1>9, <1>10
<1>13. Cardinality(Spoken(ms, i)) = Cardinality(Spoken(ms, x)) + 1
  <2>1. i \notin Spoken(ms, x)
    BY <1>1, <1>5, <1>8 DEF Spoken
  <2>2. IsFiniteSet(Spoken(ms, x))
    BY <1>5, SpokenFinite
  <2>3. Cardinality(Spoken(ms, x) \cup {i}) = Cardinality(Spoken(ms, x)) + 1
    BY <2>1, <2>2, FS_AddElement
  <2> QED
    BY <1>10, <1>12, <2>3
<1>14. Cardinality(Spoken(ms, i)) = n
  BY <1>5, <1>9, <1>11, <1>13
<1> QED
  BY <1>8, <1>12, <1>14

\* Where the recent turns begin.
Edge(ms, end) ==
  /\ end \in 1 .. Len(ms) + 1
  /\ end \in {1, Len(ms) + 1} \/ ms[end].role = "assistant"

LEMMA OldTurns ==
  ASSUME NEW ms, Shaped(ms), NEW n \in Nat
  PROVE  /\ Edge(ms, Boundary(ms, n))
         /\ \A i \in DOMAIN ms : i < Boundary(ms, n) => ~(Cardinality(Spoken(ms, i)) < n)
<1> DEFINE spoke == {i \in DOMAIN ms : ms[i].role = "assistant"}
           end == Boundary(ms, n)
<1>1. Len(ms) \in Nat /\ Len(ms) >= 1 /\ DOMAIN ms = 1 .. Len(ms) /\ ms # <<>>
  <2>1. Len(ms) \in Nat /\ Len(ms) >= 1 /\ DOMAIN ms = 1 .. Len(ms)
    BY ShapedParts
  <2>2. ms # <<>>
    BY <2>1
  <2> QED
    BY <2>1, <2>2
<1>2. spoke = Spoken(ms, 1)
  BY <1>1 DEF Spoken
<1>3. \A i \in DOMAIN ms : {j \in spoke : j >= i} = Spoken(ms, i)
  <2> TAKE i \in DOMAIN ms
  <2>1. \A j : j \in i .. Len(ms) <=> (j \in 1 .. Len(ms) /\ j >= i)
    BY <1>1
  <2> QED
    BY <1>1, <2>1 DEF Spoken
<1>4. end = IF n = 0 THEN Len(ms) + 1
            ELSE IF Cardinality(spoke) < n THEN 1
            ELSE CHOOSE i \in spoke : Cardinality({j \in spoke : j >= i}) = n
  BY <1>1 DEF Boundary
<1> HIDE DEF end
<1>5. CASE n = 0
  <2>1. ASSUME NEW i \in DOMAIN ms PROVE ~(Cardinality(Spoken(ms, i)) < n)
    <3>1. Cardinality(Spoken(ms, i)) \in Nat
      BY <1>1, SpokenFinite
    <3> QED
      BY <1>5, <3>1
  <2>2. Edge(ms, end)
    BY <1>1, <1>4, <1>5 DEF Edge
  <2> QED
    BY <2>1, <2>2 DEF end
<1>6. CASE n # 0 /\ Cardinality(spoke) < n
  <2>1. end = 1
    BY <1>4, <1>6
  <2>2. Edge(ms, end) /\ \A i \in DOMAIN ms : ~(i < end)
    BY <1>1, <2>1 DEF Edge
  <2> QED
    BY <2>2 DEF end
<1>7. CASE n # 0 /\ ~(Cardinality(spoke) < n)
  <2>1. PICK i \in DOMAIN ms : ms[i].role = "assistant" /\ Cardinality(Spoken(ms, i)) = n
    BY <1>2, <1>7, NthFromTheEnd
  <2>2. i \in spoke /\ Cardinality({j \in spoke : j >= i}) = n
    BY <1>3, <2>1
  <2>3. end = CHOOSE k \in spoke : Cardinality({j \in spoke : j >= k}) = n
    BY <1>4, <1>7
  <2> HIDE DEF spoke
  <2>4. end \in spoke /\ Cardinality({j \in spoke : j >= end}) = n
    BY <2>2, <2>3
  <2>5. end \in DOMAIN ms /\ ms[end].role = "assistant"
    BY <2>4 DEF spoke
  <2>6. Cardinality(Spoken(ms, end)) = n
    BY <1>3, <2>4, <2>5
  <2>7. ASSUME NEW k \in DOMAIN ms, k < end PROVE ~(Cardinality(Spoken(ms, k)) < n)
    <3>1. Spoken(ms, end) \subseteq Spoken(ms, k)
      <4>1. \A j \in end .. Len(ms) : j \in k .. Len(ms)
        BY <1>1, <2>5, <2>7
      <4> QED
        BY <4>1 DEF Spoken
    <3>2. IsFiniteSet(Spoken(ms, k)) /\ Cardinality(Spoken(ms, k)) \in Nat
      BY <1>1, SpokenFinite
    <3>3. n <= Cardinality(Spoken(ms, k))
      BY <2>6, <3>1, <3>2, FS_Subset
    <3> QED
      BY <3>2, <3>3
  <2>8. Edge(ms, end)
    BY <1>1, <2>5 DEF Edge
  <2> QED
    BY <2>7, <2>8 DEF end
<1> QED
  BY <1>5, <1>6, <1>7

\* What is gone when place i is passed, with what was gone before it.
Passed(ms, end, target, i, past) ==
  IF i < end /\ i \notin past /\ ~ms[i].filtered /\ Tokens(ms, past) < target
  THEN past \cup Group(ms, i, end) ELSE past

\* f says what is gone at each place, and what is filtered then.
GoesBy(ms, end, target, f) ==
  /\ f[1] = {} /\ \A i \in 2 .. Len(ms) : f[i] = Passed(ms, end, target, i, f[i - 1])
  /\ FilterOldest(ms, end, target) =
       [k \in DOMAIN ms |-> IF k \in f[Len(ms)] THEN [ms[k] EXCEPT !.filtered = TRUE] ELSE ms[k]]

LEMMA GoneSteps ==
  ASSUME NEW ms, Shaped(ms), NEW end \in Int, NEW target
  PROVE  \E f : GoesBy(ms, end, target, f)
<1> DEFINE N == Len(ms)
           S == SUBSET Int
           Body(h, i) == IF i = 1 THEN {} ELSE Passed(ms, end, target, i, h[i - 1])
           g == [i \in 1 .. N |-> [v \in S |-> IF i = 1 THEN {} ELSE Passed(ms, end, target, i, v)]]
<1>1. N \in Nat /\ N >= 1 /\ DOMAIN ms = 1 .. N /\ {} \in S
  BY ShapedParts
<1>2. \A i \in 1 .. N : \A v \in S : (IF i = 1 THEN {} ELSE Passed(ms, end, target, i, v)) \in S
  <2> TAKE i \in 1 .. N
  <2> TAKE v \in S
  <2>1. Group(ms, i, end) \subseteq Int
    <3>1. i \in Int /\ i + 1 .. end - 1 \subseteq Int
      BY <1>1
    <3> QED
      BY <3>1 DEF Group
  <2> QED
    BY <2>1 DEF Passed
<1>3. /\ g \in [1 .. N -> [S -> S]]
      /\ \A i \in 1 .. N : \A v \in S : g[i][v] = IF i = 1 THEN {} ELSE Passed(ms, end, target, i, v)
  BY <1>2
<1> HIDE DEF g, S, N
<1>4. PICK f \in [0 .. N -> S] : f[0] = {} /\ \A i \in 1 .. N : f[i] = g[i][f[i - 1]]
  <2>1. Stepwise(N, S, {}, g) # {}
    BY ONLY <1>1, <1>3, StepwiseExists
  <2> QED
    BY <2>1 DEF Stepwise
<1> DEFINE h == [i \in 1 .. N |-> f[i]]
<1>5. ASSUME NEW i \in 1 .. N PROVE h[i] = Body(h, i)
  <2>1. i - 1 \in 0 .. N
    BY <1>1
  <2>2. f[i - 1] \in S /\ f[i] = g[i][f[i - 1]]
    BY <1>4, <2>1
  <2>3. f[i] = IF i = 1 THEN {} ELSE Passed(ms, end, target, i, f[i - 1])
    BY <1>3, <2>2
  <2>4. i # 1 => i - 1 \in 1 .. N
    BY <1>1
  <2> QED
    BY <2>3, <2>4
<1> HIDE DEF Body
<1>6. h = [i \in 1 .. N |-> Body(h, i)]
  BY <1>5
<1> HIDE DEF h
<1> DEFINE k == CHOOSE q : q = [i \in 1 .. N |-> Body(q, i)]
<1>7. k = [i \in 1 .. N |-> Body(k, i)]
  BY <1>6
<1>8. FilterOldest(ms, end, target) =
        [j \in DOMAIN ms |-> IF j \in k[N] THEN [ms[j] EXCEPT !.filtered = TRUE] ELSE ms[j]]
  BY <1>1 DEF FilterOldest, Body, Passed, N
<1> HIDE DEF k
<1>9. \A i \in 1 .. N : k[i] = Body(k, i)
  BY <1>7
<1>10. k[1] = {}
  <2>1. 1 \in 1 .. N
    BY <1>1
  <2> QED
    BY <1>9, <2>1 DEF Body
<1>11. \A i \in 2 .. N : k[i] = Passed(ms, end, target, i, k[i - 1])
  <2> TAKE i \in 2 .. N
  <2>1. i \in 1 .. N /\ i # 1
    BY <1>1
  <2> QED
    BY <1>9, <2>1 DEF Body
<1>12. GoesBy(ms, end, target, k)
  BY <1>8, <1>10, <1>11 DEF GoesBy, N
<1> QED
  BY <1>12

\* Who asked for the group a place belongs to.
Asks(ms, i, a) == a = IF IsResult(ms[i]) THEN Asker(ms, i) ELSE i

\* What is gone at place i: whole groups of the old turns; and when a group
\* was spared, enough was freed.
GoneAt(ms, end, target, i, gone) ==
  /\ gone \subseteq 2 .. end - 1
  /\ \A r \in DOMAIN ms : IsResult(ms[r]) /\ ~ms[Asker(ms, r)].filtered => (Asker(ms, r) \in gone <=> r \in gone)
  /\ \A a : /\ Asks(ms, i, a) /\ ms[a].role = "assistant"
            /\ a < end /\ ~ms[a].filtered /\ a \notin gone
       => ~(Tokens(ms, gone) < target)

LEMMA GoneStep ==
  ASSUME NEW ms, NEW n, Shaped(ms), Whole(ms, n), NEW end, Edge(ms, end), NEW target, NEW i \in 2 .. Len(ms),
         NEW past, GoneAt(ms, end, target, i - 1, past)
  PROVE  GoneAt(ms, end, target, i, Passed(ms, end, target, i, past))
<1>1. /\ Len(ms) \in Nat /\ DOMAIN ms = 1 .. Len(ms) /\ i \in DOMAIN ms /\ i - 1 \in DOMAIN ms /\ i \in Nat
      /\ end \in Int /\ end <= Len(ms) + 1 /\ end >= 1
  BY ShapedParts DEF Edge
<1>2. ASSUME NEW r \in DOMAIN ms, IsResult(ms[r])
      PROVE  /\ Asker(ms, r) \in 2 .. r - 1 /\ Asker(ms, r) \in DOMAIN ms /\ ms[Asker(ms, r)].role = "assistant"
             /\ \A k \in Asker(ms, r) + 1 .. r : IsResult(ms[k])
             /\ ms[r].filtered = ms[Asker(ms, r)].filtered
  BY <1>2, AskerFound DEF Whole
<1>3. ASSUME NEW r \in DOMAIN ms PROVE ~(IsResult(ms[r]) /\ ms[r].role = "assistant")
  BY DEF IsResult
<1>4. past \subseteq 2 .. end - 1
  BY DEF GoneAt
<1>5. ASSUME NEW r \in DOMAIN ms, IsResult(ms[r]), ~ms[Asker(ms, r)].filtered
      PROVE  Asker(ms, r) \in past <=> r \in past
  BY <1>5 DEF GoneAt
<1> DEFINE gone == Passed(ms, end, target, i, past)
           Goes == i < end /\ i \notin past /\ ~ms[i].filtered /\ Tokens(ms, past) < target
<1>6. gone = IF Goes THEN past \cup Group(ms, i, end) ELSE past
  BY DEF Passed
<1> HIDE DEF gone
<1>7. CASE ms[i].role = "assistant"
  <2>1. Asks(ms, i, i) /\ \A a : Asks(ms, i, a) => a = i
    BY <1>1, <1>3, <1>7 DEF Asks
  <2>2. CASE Goes
    <3> DEFINE G == {j \in i + 1 .. end - 1 : \A k \in i + 1 .. j : IsResult(ms[k])}
    <3>1. gone = past \cup {i} \cup G
      BY <1>6, <1>7, <2>2 DEF Group
    <3>2. gone \subseteq 2 .. end - 1
      <4>1. i \in 2 .. end - 1
        BY <1>1, <2>2
      <4>2. G \subseteq 2 .. end - 1
        <5> SUFFICES ASSUME NEW j \in i + 1 .. end - 1 PROVE j \in 2 .. end - 1
          OBVIOUS
        <5> QED
          BY <1>1
      <4> HIDE DEF G
      <4> QED
        BY <1>4, <3>1, <4>1, <4>2
    <3>3. ASSUME NEW r \in DOMAIN ms, IsResult(ms[r]), ~ms[Asker(ms, r)].filtered
          PROVE  Asker(ms, r) \in gone <=> r \in gone
      <4> DEFINE a == Asker(ms, r)
      <4>1. /\ a \in 2 .. r - 1 /\ a \in DOMAIN ms /\ ms[a].role = "assistant"
            /\ \A k \in a + 1 .. r : IsResult(ms[k])
        BY <1>2, <3>3
      <4>2. a \in past <=> r \in past
        BY <1>5, <3>3
      <4>3. r # i /\ a \notin G
        <5>1. r # i
          BY <1>3, <1>7, <3>3
        <5>2. ASSUME a \in G PROVE FALSE
          <6>1. IsResult(ms[a])
            BY <1>1, <5>2
          <6> QED
            BY <1>3, <4>1, <6>1
        <5> QED
          BY <5>1, <5>2
      <4>4. ASSUME a = i PROVE r \in G
        <5>1. r \in i + 1 .. Len(ms) /\ i < end
          BY <1>1, <2>2, <4>1, <4>4
        <5>2. r < end
          <6>1. CASE end \in i + 1 .. r
            <7>1. IsResult(ms[end]) /\ end \in DOMAIN ms /\ end # 1 /\ end # Len(ms) + 1
              BY <1>1, <4>1, <4>4, <5>1, <6>1
            <7>2. ms[end].role = "assistant"
              BY <7>1 DEF Edge
            <7> QED
              BY <1>3, <7>1, <7>2
          <6> QED
            BY <1>1, <5>1, <6>1
        <5> QED
          BY <1>1, <4>1, <4>4, <5>1, <5>2
      <4>5. ASSUME r \in G PROVE a = i
        <5>1. r \in Nat /\ i \in 1 .. r - 1
          BY <1>1, <4>5
        <5>2. \A k \in i + 1 .. r - 1 : ms[k].role # "assistant"
          BY <1>1, <4>5 DEF IsResult
        <5> QED
          BY <1>7, <5>1, <5>2, AskerIs
      <4> HIDE DEF a, G
      <4>6. a \in gone <=> r \in gone
        BY <3>1, <4>2, <4>3, <4>4, <4>5
      <4> QED
        BY <4>6 DEF a
    <3>4. i \in gone
      BY <3>1
    <3> QED
      BY <2>1, <3>2, <3>3, <3>4 DEF GoneAt, gone
  <2>3. CASE ~Goes
    <3>1. gone = past
      BY <1>6, <2>3
    <3>2. i < end /\ ~ms[i].filtered /\ i \notin past => ~(Tokens(ms, past) < target)
      BY <2>3
    <3>3. GoneAt(ms, end, target, i, past)
      BY <1>4, <1>5, <2>1, <3>2 DEF GoneAt
    <3> QED
      BY <3>1, <3>3 DEF gone
  <2> QED
    BY <2>2, <2>3
<1>8. CASE IsResult(ms[i])
  <2> DEFINE a == Asker(ms, i)
  <2>1. /\ a \in 2 .. i - 1 /\ a \in DOMAIN ms /\ ms[a].role = "assistant"
        /\ \A k \in a + 1 .. i : IsResult(ms[k])
        /\ ms[i].filtered = ms[a].filtered
    BY <1>1, <1>2, <1>8
  <2>2. Asks(ms, i - 1, a)
    <3>1. CASE a = i - 1
      <4>1. ~IsResult(ms[i - 1])
        BY <1>1, <1>3, <2>1, <3>1
      <4> QED
        BY <3>1, <4>1 DEF Asks
    <3>2. CASE a # i - 1
      <4>1. i - 1 \in a + 1 .. i /\ a \in 1 .. (i - 1) - 1 /\ i - 1 \in Nat
        BY <1>1, <2>1, <3>2
      <4>2. \A k \in a + 1 .. (i - 1) - 1 : ms[k].role # "assistant"
        <5>1. \A k \in a + 1 .. (i - 1) - 1 : k \in a + 1 .. i
          BY <1>1, <2>1
        <5> QED
          BY <2>1, <5>1 DEF IsResult
      <4> HIDE DEF a
      <4>3. Asker(ms, i - 1) = a
        BY <2>1, <4>1, <4>2, AskerIs
      <4> QED
        BY <2>1, <4>1, <4>3 DEF Asks
    <3> QED
      BY <3>1, <3>2
  <2> HIDE DEF a
  <2>3. a < end /\ ~ms[a].filtered /\ a \notin past => ~(Tokens(ms, past) < target)
    BY <2>1, <2>2 DEF GoneAt
  <2>4. ~ms[a].filtered => (a \in past <=> i \in past)
    BY <1>1, <1>5, <1>8 DEF a
  <2>5. ~Goes
    <3> SUFFICES ASSUME Goes PROVE FALSE
      OBVIOUS
    <3>1. ~ms[a].filtered /\ a \notin past
      BY <2>1, <2>4
    <3>2. a < end
      BY <1>1, <2>1
    <3> QED
      BY <2>3, <3>1, <3>2
  <2>6. gone = past
    BY <1>6, <2>5
  <2>7. \A b : Asks(ms, i, b) => b = a
    BY <1>8 DEF Asks, a
  <2>8. GoneAt(ms, end, target, i, past)
    BY <1>4, <1>5, <2>3, <2>7 DEF GoneAt
  <2> QED
    BY <2>6, <2>8 DEF gone
<1>9. CASE ~IsResult(ms[i]) /\ ms[i].role # "assistant"
  <2>1. \A a : Asks(ms, i, a) => a = i
    BY <1>9 DEF Asks
  <2>2. gone = IF Goes THEN past \cup {i} ELSE past
    BY <1>6, <1>9 DEF Group
  <2>3. gone \subseteq 2 .. end - 1
    <3>1. CASE Goes
      <4>1. i \in 2 .. end - 1
        BY <1>1, <3>1
      <4> QED
        BY <1>4, <2>2, <3>1, <4>1
    <3>2. CASE ~Goes
      <4> HIDE DEF Goes
      <4> QED
        BY <1>4, <2>2, <3>2
    <3> QED
      BY <3>1, <3>2
  <2>4. ASSUME NEW r \in DOMAIN ms, IsResult(ms[r]), ~ms[Asker(ms, r)].filtered
        PROVE  Asker(ms, r) \in gone <=> r \in gone
    <3>1. r # i /\ Asker(ms, r) # i
      BY <1>2, <1>9, <2>4
    <3>2. Asker(ms, r) \in past <=> r \in past
      BY <1>5, <2>4
    <3> QED
      BY <2>2, <3>1, <3>2
  <2> QED
    BY <1>9, <2>1, <2>3, <2>4 DEF GoneAt, gone
<1> QED
  BY <1>7, <1>8, <1>9

\* A history with marks on some of the messages.
Marks(ms, ks) ==
  /\ ks = [i \in DOMAIN ms |-> ks[i]]
  /\ \A i \in DOMAIN ms : \/ ks[i] = ms[i]
                           \/ ks[i] = [ms[i] EXCEPT !.cleared = TRUE]
                           \/ ks[i] = [ms[i] EXCEPT !.filtered = TRUE]

\* It keeps its shape.
LEMMA Marked ==
  ASSUME NEW ms, NEW n \in Nat, Good(ms, n), NEW ks, Marks(ms, ks)
  PROVE  /\ ks \in Seq(MessageRec) /\ Shaped(ks) /\ Ordered(ks) /\ Len(ks) = Len(ms)
         /\ \A i \in DOMAIN ms : /\ IsResult(ks[i]) <=> IsResult(ms[i])
                                 /\ ks[i].role = ms[i].role
                                 /\ Asker(ks, i) = Asker(ms, i) /\ Spoken(ks, i) = Spoken(ms, i)
<1>1. /\ Shaped(ms) /\ Ordered(ms) /\ Len(ms) \in Nat /\ DOMAIN ms = 1 .. Len(ms)
      /\ \A i \in DOMAIN ms : ms[i] \in MessageRec
  BY ShapedParts DEF Good
<1> USE DEF Marks
<1>2. ASSUME NEW i \in DOMAIN ms
      PROVE  ks[i] \in MessageRec /\ ks[i].role = ms[i].role /\ ks[i].use = ms[i].use /\ ks[i].uses = ms[i].uses
  <2>1. ms[i] \in MessageRec
    BY <1>1
  <2>2. CASE ks[i] = ms[i]
    BY <2>1, <2>2
  <2>3. CASE ks[i] = [ms[i] EXCEPT !.cleared = TRUE]
    BY <2>1, <2>3 DEF MessageRec
  <2>4. CASE ks[i] = [ms[i] EXCEPT !.filtered = TRUE]
    BY <2>1, <2>4 DEF MessageRec
  <2> QED
    BY <2>2, <2>3, <2>4
<1>3. ks \in Seq(MessageRec) /\ DOMAIN ks = DOMAIN ms
  <2>1. ks = [i \in 1 .. Len(ms) |-> ks[i]] /\ \A i \in 1 .. Len(ms) : ks[i] \in MessageRec
    BY <1>1, <1>2
  <2>2. ks \in Seq(MessageRec)
    BY <1>1, <2>1 DEF Seq
  <2> QED
    BY <1>1, <2>1, <2>2
<1>4. Shaped(ks) /\ Ordered(ks) /\ Len(ks) = Len(ms)
  BY <1>1, <1>2, <1>3, SameHistory
<1>5. \A i \in DOMAIN ms : /\ IsResult(ks[i]) <=> IsResult(ms[i])
                           /\ Asker(ks, i) = Asker(ms, i) /\ Spoken(ks, i) = Spoken(ms, i)
  BY <1>1, <1>2, <1>3, SameHistory
<1> QED
  BY <1>2, <1>3, <1>4, <1>5

LEMMA ClearedGood ==
  ASSUME NEW ms, NEW n \in Nat, Good(ms, n), NEW end, Edge(ms, end),
         \A i \in DOMAIN ms : i < end => ~(Cardinality(Spoken(ms, i)) < n)
  PROVE  /\ Good(Cleared(ms, end), n) /\ Edge(Cleared(ms, end), end)
         /\ DOMAIN Cleared(ms, end) = DOMAIN ms
         /\ \A i \in DOMAIN ms : Spoken(Cleared(ms, end), i) = Spoken(ms, i)
<1> DEFINE ks == Cleared(ms, end)
<1>1. /\ Len(ms) \in Nat /\ Len(ms) >= 1 /\ DOMAIN ms = 1 .. Len(ms)
      /\ \A i \in DOMAIN ms : ms[i] \in MessageRec
  BY ShapedParts DEF Good
<1>2. /\ ks = [i \in DOMAIN ms |-> ks[i]]
      /\ \A i \in DOMAIN ms : ks[i] = IF i < end /\ IsResult(ms[i]) /\ ~ms[i].filtered
                                      THEN [ms[i] EXCEPT !.cleared = TRUE] ELSE ms[i]
  BY DEF Cleared
<1> HIDE DEF ks
<1>3. /\ ks \in Seq(MessageRec) /\ Shaped(ks) /\ Ordered(ks) /\ Len(ks) = Len(ms) /\ DOMAIN ks = DOMAIN ms
      /\ \A i \in DOMAIN ms : /\ IsResult(ks[i]) <=> IsResult(ms[i])
                              /\ ks[i].role = ms[i].role
                              /\ Asker(ks, i) = Asker(ms, i) /\ Spoken(ks, i) = Spoken(ms, i)
  <2>1. Marks(ms, ks)
    BY <1>2 DEF Marks
  <2> QED
    BY <2>1, Marked
<1>4. ASSUME NEW i \in DOMAIN ms
      PROVE  ks[i].filtered = ms[i].filtered /\ (~(i < end) => ks[i] = ms[i])
  BY <1>1, <1>2 DEF MessageRec
<1>5. Whole(ks, n)
  <2>1. ~ks[1].filtered
    BY <1>1, <1>4 DEF Good, Whole
  <2>2. ASSUME NEW i \in DOMAIN ks, IsResult(ks[i]) PROVE ks[i].filtered = ks[Asker(ks, i)].filtered
    <3>1. i \in DOMAIN ms /\ IsResult(ms[i]) /\ Asker(ks, i) = Asker(ms, i)
      BY <1>3, <2>2
    <3>2. Asker(ms, i) \in DOMAIN ms
      BY <3>1, AskerFound DEF Good
    <3>3. ms[i].filtered = ms[Asker(ms, i)].filtered
      BY <3>1 DEF Good, Whole
    <3> QED
      BY <1>4, <3>1, <3>2, <3>3
  <2>3. ASSUME NEW i \in DOMAIN ks, Cardinality(Spoken(ks, i)) < n PROVE ~ks[i].filtered /\ ~ks[i].cleared
    <3>1. i \in DOMAIN ms /\ Cardinality(Spoken(ms, i)) < n
      BY <1>3, <2>3
    <3>2. ~ms[i].filtered /\ ~ms[i].cleared /\ ~(i < end)
      BY <3>1 DEF Good, Whole
    <3> QED
      BY <1>4, <3>1, <3>2
  <2> QED
    BY <2>1, <2>2, <2>3 DEF Whole
<1>6. Edge(ks, end)
  <2>1. end \in 1 .. Len(ks) + 1
    BY <1>3 DEF Edge
  <2>2. CASE end \in {1, Len(ms) + 1}
    BY <1>3, <2>1, <2>2 DEF Edge
  <2>3. CASE ~(end \in {1, Len(ms) + 1})
    <3>1. end \in DOMAIN ms /\ ms[end].role = "assistant"
      BY <1>1, <2>3 DEF Edge
    <3> QED
      BY <1>3, <2>1, <3>1 DEF Edge
  <2> QED
    BY <2>2, <2>3
<1> QED
  BY <1>3, <1>5, <1>6 DEF Good, ks

LEMMA FilteredGood ==
  ASSUME NEW ms, NEW n \in Nat, Good(ms, n), NEW end, Edge(ms, end), NEW target,
         \A i \in DOMAIN ms : i < end => ~(Cardinality(Spoken(ms, i)) < n)
  PROVE  Good(FilterOldest(ms, end, target), n)
<1>1. /\ Shaped(ms) /\ Whole(ms, n) /\ Len(ms) \in Nat /\ Len(ms) >= 1 /\ DOMAIN ms = 1 .. Len(ms)
      /\ \A i \in DOMAIN ms : ms[i] \in MessageRec
      /\ end \in Int
  BY ShapedParts DEF Good, Edge
<1>2. PICK f : GoesBy(ms, end, target, f)
  BY <1>1, GoneSteps
<1> DEFINE Fine(i) == GoneAt(ms, end, target, i, f[i])
           Bad == {i \in 1 .. Len(ms) : ~Fine(i)}
<1>3. Fine(1)
  <2>1. \A a : Asks(ms, 1, a) => ms[a].role # "assistant"
    BY <1>1 DEF Asks, Shaped
  <2> QED
    BY <1>2, <2>1 DEF GoneAt, GoesBy
<1>4. ASSUME NEW i \in 2 .. Len(ms), Fine(i - 1) PROVE Fine(i)
  <2>1. f[i] = Passed(ms, end, target, i, f[i - 1])
    BY <1>2 DEF GoesBy
  <2>2. GoneAt(ms, end, target, i, Passed(ms, end, target, i, f[i - 1]))
    BY <1>1, <1>4, GoneStep
  <2> QED
    BY <2>1, <2>2
<1> HIDE DEF Fine
<1>5. Bad = {}
  <2> SUFFICES ASSUME Bad # {} PROVE FALSE
    OBVIOUS
  <2>1. Bad \in SUBSET Nat
    BY <1>1
  <2>2. PICK x \in Bad : \A y \in Bad : x <= y
    <3> HIDE DEF Bad
    <3> QED
      BY <2>1, LeastExists
  <2>3. x \in 1 .. Len(ms) /\ ~Fine(x) /\ x # 1
    BY <1>3, <2>2
  <2>4. x \in 2 .. Len(ms) /\ x - 1 \in 1 .. Len(ms) /\ ~(x <= x - 1)
    BY <1>1, <2>3
  <2>5. Fine(x - 1)
    BY <2>2, <2>4
  <2> QED
    BY <1>4, <2>3, <2>4, <2>5
<1> DEFINE gone == f[Len(ms)]
           ks == FilterOldest(ms, end, target)
<1>6. /\ gone \subseteq 2 .. end - 1
      /\ \A r \in DOMAIN ms : IsResult(ms[r]) /\ ~ms[Asker(ms, r)].filtered => (Asker(ms, r) \in gone <=> r \in gone)
  <2>1. Fine(Len(ms))
    BY <1>1, <1>5
  <2> QED
    BY <2>1 DEF Fine, GoneAt
<1>7. /\ ks = [k \in DOMAIN ms |-> ks[k]]
      /\ \A k \in DOMAIN ms : ks[k] = IF k \in gone THEN [ms[k] EXCEPT !.filtered = TRUE] ELSE ms[k]
  BY <1>2 DEF GoesBy
<1> HIDE DEF ks, gone
<1>8. /\ ks \in Seq(MessageRec) /\ Shaped(ks) /\ Ordered(ks) /\ DOMAIN ks = DOMAIN ms
      /\ \A i \in DOMAIN ms : /\ IsResult(ks[i]) <=> IsResult(ms[i])
                              /\ Asker(ks, i) = Asker(ms, i) /\ Spoken(ks, i) = Spoken(ms, i)
  <2>1. Marks(ms, ks)
    BY <1>7 DEF Marks
  <2> QED
    BY <2>1, Marked
<1>9. ASSUME NEW k \in DOMAIN ms PROVE ks[k].filtered = (k \in gone \/ ms[k].filtered) /\ (k \notin gone => ks[k] = ms[k])
  BY <1>1, <1>7 DEF MessageRec
<1>10. Whole(ks, n)
  <2>1. ~ks[1].filtered
    <3>1. 1 \notin gone /\ 1 \in DOMAIN ms
      BY <1>1, <1>6
    <3> QED
      BY <1>9, <3>1 DEF Good, Whole
  <2>2. ASSUME NEW i \in DOMAIN ks, IsResult(ks[i]) PROVE ks[i].filtered = ks[Asker(ks, i)].filtered
    <3> DEFINE a == Asker(ms, i)
    <3>1. i \in DOMAIN ms /\ IsResult(ms[i]) /\ Asker(ks, i) = a
      BY <1>8, <2>2
    <3>2. a \in DOMAIN ms
      BY <3>1, AskerFound DEF Good
    <3>3. ms[i].filtered = ms[a].filtered
      BY <3>1 DEF Good, Whole
    <3>4. ~ms[a].filtered => (a \in gone <=> i \in gone)
      BY <1>6, <3>1
    <3> HIDE DEF a
    <3>5. ks[i].filtered = (i \in gone \/ ms[i].filtered) /\ ks[a].filtered = (a \in gone \/ ms[a].filtered)
      BY <1>9, <3>1, <3>2
    <3>6. ms[i].filtered \in BOOLEAN /\ ms[a].filtered \in BOOLEAN
      BY <1>1, <3>1, <3>2 DEF MessageRec
    <3>7. ks[i].filtered = ks[a].filtered
      BY <3>3, <3>4, <3>5, <3>6
    <3> QED
      BY <3>1, <3>7
  <2>3. ASSUME NEW i \in DOMAIN ks, Cardinality(Spoken(ks, i)) < n PROVE ~ks[i].filtered /\ ~ks[i].cleared
    <3>1. i \in DOMAIN ms /\ Cardinality(Spoken(ms, i)) < n
      BY <1>8, <2>3
    <3>2. ~ms[i].filtered /\ ~ms[i].cleared /\ ~(i < end)
      BY <3>1 DEF Good, Whole
    <3>3. i \notin gone
      BY <1>1, <1>6, <3>1, <3>2
    <3> QED
      BY <1>9, <3>1, <3>2, <3>3
  <2> QED
    BY <2>1, <2>2, <2>3 DEF Whole
<1> QED
  BY <1>8, <1>10 DEF Good, ks

\* The history as it is sent.
LEMMA SentGood ==
  ASSUME NEW ms, config.keep \in Nat, Good(ms, config.keep)
  PROVE  Good(Prepare(ms), config.keep)
<1> DEFINE n == config.keep
           end == Boundary(ms, n)
           clear == Cleared(ms, end)
<1>1. Pair(ms) = ms
  BY PairNothing DEF Good, Shaped
<1>2. Edge(ms, end) /\ \A i \in DOMAIN ms : i < end => ~(Cardinality(Spoken(ms, i)) < n)
  BY OldTurns DEF Good
<1> HIDE DEF end
<1>3. /\ Good(clear, n) /\ Edge(clear, end)
      /\ \A i \in DOMAIN clear : i < end => ~(Cardinality(Spoken(clear, i)) < n)
  BY <1>2, ClearedGood
<1> HIDE DEF clear
<1>4. \A target : Good(FilterOldest(clear, end, target), n)
  BY <1>3, FilteredGood
<1>5. Compact(ms, n) \in {ms, clear} \/ \E target : Compact(ms, n) = FilterOldest(clear, end, target)
  BY DEF Compact, clear, end
<1>6. Good(Compact(ms, n), n)
  BY <1>3, <1>4, <1>5
<1> QED
  BY <1>1, <1>6 DEF Prepare

\* The history behind the last request, of any history.
SentOf(ms) ==
  LET spoke == {i \in DOMAIN ms : ms[i].role = "assistant"} IN
  IF spoke = {} THEN <<>>
  ELSE SubSeq(ms, 1, (CHOOSE i \in spoke : \A j \in spoke : j <= i) - 1)

SentWhole(ms, n) == SentOf(ms) # <<>> => Whole(SentOf(ms), n)

LEMMA SentIsWhole ==
  /\ CompactedWhole <=> SentWhole(messages, config.keep)
  /\ CompactedWhole' <=> SentWhole(messages', config'.keep)
<1>1. Sent = SentOf(messages) /\ Sent' = SentOf(messages')
  BY DEF Sent, SentOf
<1>2. CompactedWhole <=> SentWhole(messages, config.keep)
  BY <1>1 DEF CompactedWhole, SentWhole, Whole, Spoken
<1>3. CompactedWhole' <=> SentWhole(messages', config'.keep)
  BY <1>1 DEF CompactedWhole, SentWhole, Whole, Spoken
<1> QED
  BY <1>2, <1>3

LEMMA SentBefore ==
  ASSUME NEW ms \in Seq(MessageRec), NEW a \in DOMAIN ms, ms[a].role = "assistant",
         \A k \in a + 1 .. Len(ms) : ms[k].role # "assistant",
         NEW ks \in Seq(MessageRec), Len(ks) = a - 1, \A i \in 1 .. a - 1 : ks[i] = ms[i]
  PROVE  SentOf(ms) = ks
<1> DEFINE spoke == {i \in DOMAIN ms : ms[i].role = "assistant"}
           last == CHOOSE i \in spoke : \A j \in spoke : j <= i
<1>1. Len(ms) \in Nat /\ DOMAIN ms = 1 .. Len(ms) /\ a \in 1 .. Len(ms)
  OBVIOUS
<1>2. a \in spoke /\ \A j \in spoke : j <= a
  <2>1. ASSUME NEW j \in spoke, ~(j <= a) PROVE FALSE
    <3>1. j \in a + 1 .. Len(ms)
      BY <1>1, <2>1
    <3> QED
      BY <2>1, <3>1
  <2> QED
    BY <1>1, <2>1
<1>3. spoke \subseteq Nat /\ spoke # {}
  BY <1>1, <1>2
<1>4. SentOf(ms) = SubSeq(ms, 1, last - 1)
  BY <1>3 DEF SentOf
<1> HIDE DEF spoke
<1>5. last = a
  <2>1. \A b \in spoke : (\A j \in spoke : j <= b) => b = a
    BY <1>1, <1>2, <1>3
  <2> QED
    BY <1>2, <2>1
<1> HIDE DEF last
<1> DEFINE s == SubSeq(ms, 1, a - 1)
<1>6. /\ s \in Seq(MessageRec) /\ Len(s) = a - 1
      /\ \A i \in 1 .. a - 1 : s[i] = ms[i]
  <2>1. \A i \in 1 .. a - 1 : ms[i] \in MessageRec
    BY <1>1
  <2>2. 1 \in Int /\ a - 1 \in Int
    BY <1>1
  <2>3. /\ s \in Seq(MessageRec) /\ Len(s) = IF 1 <= a - 1 THEN (a - 1) - 1 + 1 ELSE 0
        /\ \A i \in 1 .. (a - 1) - 1 + 1 : s[i] = ms[1 + i - 1]
    BY ONLY <2>1, <2>2, SubSeqProperties
  <2> HIDE DEF s
  <2>4. Len(s) = a - 1 /\ (a - 1) - 1 + 1 = a - 1
    BY <1>1, <2>3
  <2>5. \A i \in 1 .. a - 1 : 1 + i - 1 = i
    BY <1>1
  <2> QED
    BY <2>3, <2>4, <2>5
<1> HIDE DEF s
<1>7. s = ks
  BY <1>6, SeqEqual
<1> QED
  BY <1>4, <1>5, <1>7 DEF s

\* The reply whose uses are worked on is the last message but for results of
\* uses before the cursor.
OpenReply(a) ==
  /\ Speaks(messages, a) /\ messages[a].uses = uses
  /\ \A k \in a + 1 .. Len(messages) : \E j \in DOMAIN uses : j < cursor /\ messages[k].use = uses[j].id

UsesInOrder ==
  /\ uses \in Seq(UseRec) /\ ran \in Seq(Nat) /\ cursor \in Nat \ {0}
  /\ pc = "tools" => cursor \in DOMAIN uses
  /\ \A j, k \in DOMAIN uses : j < k => uses[j].id < uses[k].id
  /\ \A k \in DOMAIN uses : uses[k].id # NoUse

HistoryInv ==
  /\ config.keep \in Nat
  /\ Good(messages, config.keep) /\ SentWhole(messages, config.keep)
  /\ UsesInOrder
  /\ pc \in {"tools", "suspended", "resumed"} => \E a \in DOMAIN messages : OpenReply(a)
  /\ pc \in {"suspended", "resumed"} => suspended \in DOMAIN uses /\ suspended >= cursor

LEMMA HistoryInit == Init => HistoryInv
<1> SUFFICES ASSUME Init PROVE HistoryInv
  OBVIOUS
<1>1. /\ messages = <<UserMsg>> /\ uses = <<>> /\ ran = <<>> /\ cursor = 1 /\ pc = "loop" /\ config.keep \in Nat
  BY LoopAssumption DEF Init
<1>2. /\ UserMsg \in MessageRec /\ UserMsg.role = "user" /\ ~IsResult(UserMsg)
      /\ ~UserMsg.filtered /\ ~UserMsg.cleared
  BY NewMessages DEF UserMsg, Message, IsResult
<1>3. messages \in Seq(MessageRec) /\ Len(messages) = 1 /\ DOMAIN messages = {1} /\ messages[1] = UserMsg
  BY <1>1, <1>2
<1>4. Good(messages, config.keep)
  BY <1>2, <1>3 DEF Good, Shaped, Ordered, Whole
<1>5. SentWhole(messages, config.keep)
  <2>1. SentOf(messages) = <<>>
    BY <1>2, <1>3 DEF SentOf
  <2> QED
    BY <2>1 DEF SentWhole
<1>6. UsesInOrder
  BY <1>1 DEF UsesInOrder
<1> QED
  BY <1>1, <1>4, <1>5, <1>6 DEF HistoryInv

\* A step that hands the uses on, or has none.
LEMMA HistoryGoesOn ==
  ASSUME HistoryInv, config' = config, Good(messages', config.keep), SentWhole(messages', config.keep),
         ran' \in Seq(Nat), Forget \/ UNCHANGED <<uses, cursor>>, pc' \notin {"tools", "suspended", "resumed"}
  PROVE  HistoryInv'
<1>1. UsesInOrder'
  <2>1. CASE Forget
    <3>1. uses' = <<>> /\ cursor' = 1
      BY <2>1 DEF Forget
    <3>2. uses' \in Seq(UseRec) /\ DOMAIN uses' = {}
      BY <3>1
    <3> QED
      BY <3>1, <3>2 DEF UsesInOrder
  <2>2. CASE UNCHANGED <<uses, cursor>>
    BY <2>2 DEF HistoryInv, UsesInOrder
  <2> QED
    BY <2>1, <2>2
<1> QED
  BY <1>1 DEF HistoryInv

\* A step that leaves the history and the uses.
LEMMA HistoryKept ==
  ASSUME HistoryInv, UNCHANGED <<config, messages, uses, cursor>>, ran' \in Seq(Nat),
         \/ pc' \notin {"tools", "suspended", "resumed"}
         \/ pc' = pc /\ suspended' = suspended
         \/ pc = "tools" /\ pc' = "suspended" /\ suspended' \in DOMAIN uses /\ suspended' >= cursor
         \/ pc = "suspended" /\ pc' = "resumed" /\ suspended' = suspended
  PROVE  HistoryInv'
<1>1. UsesInOrder'
  BY DEF HistoryInv, UsesInOrder
<1>2. (\E a \in DOMAIN messages : OpenReply(a)) => \E a \in DOMAIN messages' : OpenReply(a)'
  BY DEF OpenReply
<1> QED
  BY <1>1, <1>2 DEF HistoryInv

\* What has been sent once an assistant message has been added.
LEMMA Answered ==
  ASSUME NEW ms, NEW n \in Nat, Good(ms, n), NEW us \in Seq(UseRec)
  PROVE  /\ Good(Append(ms, AssistantMsg(us)), n) /\ SentWhole(Append(ms, AssistantMsg(us)), n)
         /\ Speaks(Append(ms, AssistantMsg(us)), Len(ms) + 1)
         /\ Append(ms, AssistantMsg(us))[Len(ms) + 1].uses = us
         /\ Len(Append(ms, AssistantMsg(us))) = Len(ms) + 1 /\ Len(ms) \in Nat
         /\ Good(Append(Append(ms, AssistantMsg(us)), UserMsg), n)
         /\ SentWhole(Append(Append(ms, AssistantMsg(us)), UserMsg), n)
<1> DEFINE m == AssistantMsg(us)
           new == Append(ms, m)
           more == Append(new, UserMsg)
           a == Len(ms) + 1
<1>1. ms \in Seq(MessageRec) /\ Len(ms) \in Nat /\ DOMAIN ms = 1 .. Len(ms) /\ Whole(ms, n)
  BY ShapedParts DEF Good
<1>2. /\ m \in MessageRec /\ m.role = "assistant" /\ ~IsResult(m) /\ ~m.filtered /\ ~m.cleared /\ m.uses = us
      /\ UserMsg \in MessageRec /\ ~IsResult(UserMsg) /\ ~UserMsg.filtered /\ ~UserMsg.cleared
      /\ UserMsg.role # "assistant"
  BY NewMessages DEF AssistantMsg, UserMsg, Message, IsResult
<1> HIDE DEF m
<1>3. Good(new, n)
  BY <1>1, <1>2, GrowsByOne
<1>4. /\ new \in Seq(MessageRec) /\ Len(new) = a /\ new[a] = m /\ \A i \in 1 .. a - 1 : new[i] = ms[i]
      /\ a \in DOMAIN new /\ a + 1 .. Len(new) = {}
  <2>1. /\ new \in Seq(MessageRec) /\ Len(new) = Len(ms) + 1 /\ new[Len(ms) + 1] = m
        /\ \A i \in 1 .. Len(ms) : new[i] = ms[i]
    BY <1>1, <1>2, AppendProperties
  <2> HIDE DEF new
  <2> QED
    BY <1>1, <2>1
<1> HIDE DEF new
<1>5. Good(more, n)
  BY <1>2, <1>3, GrowsByOne
<1>6. /\ more \in Seq(MessageRec) /\ Len(more) = a + 1 /\ more[a] = m /\ more[a + 1] = UserMsg
      /\ \A i \in 1 .. a - 1 : more[i] = ms[i]
  <2>1. /\ more \in Seq(MessageRec) /\ Len(more) = Len(new) + 1 /\ more[Len(new) + 1] = UserMsg
        /\ \A i \in 1 .. Len(new) : more[i] = new[i]
    BY <1>2, <1>4, AppendProperties
  <2> HIDE DEF more
  <2> QED
    BY <1>1, <1>4, <2>1
<1> HIDE DEF more
<1>7. SentOf(new) = ms
  <2>1. Len(ms) = a - 1 /\ \A i \in 1 .. a - 1 : ms[i] = new[i]
    BY <1>1, <1>4
  <2>2. \A k \in a + 1 .. Len(new) : new[k].role # "assistant"
    BY <1>4
  <2>3. new[a].role = "assistant"
    BY <1>2, <1>4
  <2> QED
    BY <1>1, <1>4, <2>1, <2>2, <2>3, SentBefore
<1>8. SentOf(more) = ms
  <2>1. a \in DOMAIN more /\ Len(ms) = a - 1 /\ \A k \in a + 1 .. Len(more) : k = a + 1
    BY <1>1, <1>6
  <2>2. \A k \in a + 1 .. Len(more) : more[k].role # "assistant"
    BY <1>2, <1>6, <2>1
  <2> QED
    BY <1>1, <1>2, <1>6, <2>1, <2>2, SentBefore
<1>9. Speaks(new, a)
  BY <1>2, <1>4 DEF Speaks
<1> QED
  BY <1>1, <1>2, <1>3, <1>4, <1>5, <1>7, <1>8, <1>9 DEF SentWhole, new, more, m

\* What has been sent is the same while results are added.
LEMMA SentSame ==
  ASSUME NEW ms, NEW new, NEW n, Good(ms, n), Good(new, n), NEW a, Speaks(ms, a), Speaks(new, a),
         \A i \in DOMAIN ms : new[i] = ms[i], SentWhole(ms, n)
  PROVE  SentWhole(new, n)
<1> DEFINE s == SubSeq(ms, 1, a - 1)
<1>1. /\ ms \in Seq(MessageRec) /\ Len(ms) \in Nat /\ DOMAIN ms = 1 .. Len(ms)
      /\ new \in Seq(MessageRec) /\ a \in 1 .. Len(ms)
  BY ShapedParts DEF Good, Speaks
<1>2. s \in Seq(MessageRec) /\ Len(s) = a - 1 /\ \A i \in 1 .. a - 1 : s[i] = ms[i] /\ s[i] = new[i]
  <2>1. \A i \in 1 .. a - 1 : ms[i] \in MessageRec /\ new[i] = ms[i]
    BY <1>1
  <2>2. 1 \in Int /\ a - 1 \in Int
    BY <1>1
  <2>3. /\ s \in Seq(MessageRec) /\ Len(s) = IF 1 <= a - 1 THEN (a - 1) - 1 + 1 ELSE 0
        /\ \A i \in 1 .. (a - 1) - 1 + 1 : s[i] = ms[1 + i - 1]
    BY ONLY <2>1, <2>2, SubSeqProperties
  <2> HIDE DEF s
  <2>4. Len(s) = a - 1 /\ (a - 1) - 1 + 1 = a - 1 /\ \A i \in 1 .. a - 1 : 1 + i - 1 = i
    BY <1>1, <2>3
  <2> QED
    BY <2>1, <2>3, <2>4
<1> HIDE DEF s
<1>3. SentOf(ms) = s
  <2>1. \A k \in a + 1 .. Len(ms) : ms[k].role # "assistant"
    BY DEF Speaks, IsResult
  <2>2. a \in DOMAIN ms /\ ms[a].role = "assistant"
    BY DEF Speaks
  <2> QED
    BY <1>1, <1>2, <2>1, <2>2, SentBefore
<1>4. SentOf(new) = s
  <2>1. \A k \in a + 1 .. Len(new) : new[k].role # "assistant"
    BY DEF Speaks, IsResult
  <2>2. a \in DOMAIN new /\ new[a].role = "assistant"
    BY DEF Speaks
  <2> QED
    BY <1>1, <1>2, <2>1, <2>2, SentBefore
<1> QED
  BY <1>3, <1>4 DEF SentWhole

\* A call is counted.
LEMMA CountsOn ==
  ASSUME ran \in Seq(Nat), NEW id, ran' = [ran EXCEPT ![id] = @ + 1]
  PROVE  ran' \in Seq(Nat)
<1>1. CASE id \in DOMAIN ran
  <2>1. ran[id] + 1 \in Nat
    BY <1>1
  <2> QED
    BY <1>1, <2>1, ExceptSeq
<1>2. CASE id \notin DOMAIN ran
  <2>1. ran' = [i \in DOMAIN ran |-> ran[i]]
    BY <1>2
  <2>2. ran = [i \in DOMAIN ran |-> ran[i]]
    OBVIOUS
  <2> QED
    BY <2>1, <2>2
<1> QED
  BY <1>1, <1>2

LEMMA HistoryReplyText == ASSUME HistoryInv, ReplyText PROVE HistoryInv'
<1> DEFINE ms == Prepare(messages)
           n == config.keep
<1>1. n \in Nat /\ Good(ms, n)
  BY SentGood DEF HistoryInv
<1>2. messages' \in {ms \o <<AssistantMsg(<<>>), UserMsg>>, Append(ms, AssistantMsg(<<>>))}
  BY DEF ReplyText
<1>3. /\ config' = config /\ ran' = ran /\ UNCHANGED <<uses, cursor>> /\ ran \in Seq(Nat)
      /\ pc' \notin {"tools", "suspended", "resumed"}
  BY DEF ReplyText, Call, Finals, HistoryInv, UsesInOrder
<1> HIDE DEF ms, n
<1>4. ms \in Seq(MessageRec) /\ <<>> \in Seq(UseRec)
  BY <1>1 DEF Good, Shaped
<1>5. AssistantMsg(<<>>) \in MessageRec /\ UserMsg \in MessageRec
  BY <1>4, NewMessages
<1>6. ms \o <<AssistantMsg(<<>>), UserMsg>> = Append(Append(ms, AssistantMsg(<<>>)), UserMsg)
  BY <1>4, <1>5
<1>7. Good(messages', n) /\ SentWhole(messages', n)
  BY <1>1, <1>2, <1>4, <1>6, Answered
<1> QED
  BY <1>3, <1>7, HistoryGoesOn DEF n

LEMMA HistoryReplyTools == ASSUME HistoryInv, ReplyTools PROVE HistoryInv'
<1> DEFINE ms == Prepare(messages)
           N == Len(ran)
           keep == config.keep
<1>1. keep \in Nat /\ Good(ms, keep)
  BY SentGood DEF HistoryInv
<1>2. N \in Nat /\ ran \in Seq(Nat)
  BY DEF HistoryInv, UsesInOrder
<1>3. PICK n \in 1 .. MaxUses : \E tools \in [1 .. n -> Tool] : Start(ms, tools)
  BY DEF ReplyTools
<1>4. PICK tools \in [1 .. n -> Tool] : Start(ms, tools)
  BY <1>3
<1> DEFINE us == [k \in 1 .. n |-> [id |-> N + k, tool |-> tools[k]]]
           zeros == [k \in 1 .. n |-> 0]
<1>5. n \in Nat /\ n >= 1
  BY LoopAssumption
<1>6. messages' = Append(ms, AssistantMsg(us)) /\ uses' = us /\ ran' = ran \o zeros
  BY <1>4 DEF Start
<1>7. cursor' = 1 /\ pc' = "tools" /\ config' = config
  BY DEF ReplyTools, Call
<1>8. \A k \in 1 .. n : us[k] \in UseRec /\ us[k].id = N + k
  BY <1>2, <1>5 DEF UseRec
<1>9. us \in Seq(UseRec) /\ DOMAIN us = 1 .. n
  BY <1>5, <1>8 DEF Seq
<1>10. ran' \in Seq(Nat)
  <2>1. zeros \in Seq(Nat)
    BY <1>5 DEF Seq
  <2> HIDE DEF zeros
  <2> QED
    BY <1>2, <1>6, <2>1
<1> HIDE DEF ms, N, us, zeros, keep
<1>11. /\ Good(messages', keep) /\ SentWhole(messages', keep)
       /\ Speaks(messages', Len(ms) + 1) /\ messages'[Len(ms) + 1].uses = us
       /\ Len(messages') = Len(ms) + 1 /\ Len(ms) \in Nat
  BY <1>1, <1>6, <1>9, Answered
<1>12. UsesInOrder'
  <2>1. \A j, k \in 1 .. n : j < k => us[j].id < us[k].id
    BY <1>2, <1>5, <1>8
  <2>2. \A k \in 1 .. n : us[k].id # NoUse
    BY <1>2, <1>5, <1>8 DEF NoUse
  <2>3. 1 \in 1 .. n
    BY <1>5
  <2> QED
    BY <1>6, <1>7, <1>9, <1>10, <2>1, <2>2, <2>3 DEF UsesInOrder
<1>13. PICK a \in Nat : a = Len(ms) + 1
  BY <1>11
<1>14. a \in DOMAIN messages' /\ OpenReply(a)'
  <2>1. a \in DOMAIN messages'
    BY <1>11, <1>13 DEF Speaks
  <2>2. a + 1 .. Len(messages') = {}
    BY <1>11, <1>13
  <2> QED
    BY <1>6, <1>11, <1>13, <2>1, <2>2 DEF OpenReply
<1> QED
  BY <1>1, <1>7, <1>11, <1>12, <1>14 DEF HistoryInv, keep

LEMMA HistoryTools == ASSUME HistoryInv, Tools PROVE HistoryInv'
<1>1. PICK k \in DOMAIN uses : Refuse(k) \/ Check(k) \/ Return(k)
  BY DEF Tools
<1>2. UNCHANGED <<config, messages, uses, cursor, pc, suspended>>
  BY <1>1 DEF Refuse, Check, Return
<1>3. ran \in Seq(Nat)
  BY DEF HistoryInv, UsesInOrder
<1>4. ran' = ran \/ ran' = [ran EXCEPT ![uses[k].id] = @ + 1]
  BY <1>1 DEF Refuse, Check, Return
<1>5. ran' \in Seq(Nat)
  BY <1>3, <1>4, CountsOn
<1> QED
  BY <1>2, <1>5, HistoryKept

\* Results go behind the reply whose uses they answer.
LEMMA ResultsAdded ==
  ASSUME HistoryInv, NEW a \in DOMAIN messages, OpenReply(a), NEW c \in Nat, c >= cursor,
         NEW l \in Nat, c + l - 1 <= Len(uses),
         messages' = messages \o [i \in 1 .. l |-> ResultMsg(uses[c + i - 1].id)]
  PROVE  /\ Good(messages', config.keep) /\ SentWhole(messages', config.keep)
         /\ Speaks(messages', a) /\ messages'[a].uses = uses
         /\ \A k \in a + 1 .. Len(messages') : \E j \in DOMAIN uses : j < c + l /\ messages'[k].use = uses[j].id
<1> DEFINE n == config.keep
<1>1. /\ n \in Nat /\ Good(messages, n) /\ SentWhole(messages, n)
      /\ Speaks(messages, a) /\ messages[a].uses = uses
      /\ uses \in Seq(UseRec) /\ cursor \in Nat \ {0}
      /\ \A j, k \in DOMAIN uses : j < k => uses[j].id < uses[k].id
      /\ \A k \in DOMAIN uses : uses[k].id # NoUse
  BY DEF HistoryInv, UsesInOrder, OpenReply
<1>2. messages' = messages \o [i \in 1 .. l |-> ResultMsg(messages[a].uses[c + i - 1].id)]
  BY <1>1
<1>3. c \in Nat \ {0} /\ DOMAIN uses \subseteq Nat
  BY <1>1
<1>4. \A k \in a + 1 .. Len(messages) : \E j \in DOMAIN uses : j < c /\ messages[k].use = uses[j].id
  <2> TAKE k \in a + 1 .. Len(messages)
  <2>1. PICK j \in DOMAIN uses : j < cursor /\ messages[k].use = uses[j].id
    BY DEF OpenReply
  <2>2. j < c
    BY <1>1, <1>3, <2>1
  <2> QED
    BY <2>1, <2>2
<1> HIDE DEF n
<1>5. ResultsBefore(messages, a, c)
  BY <1>1, <1>4 DEF ResultsBefore
<1>6. PICK new : new = messages'
  OBVIOUS
<1>7. ResultsCome(messages, a, c, l, new)
  BY <1>1, <1>2, <1>3, <1>5, <1>6 DEF ResultsCome
<1>8. /\ Good(new, n) /\ Speaks(new, a) /\ Len(new) \in Nat
      /\ \A i \in DOMAIN messages : new[i] = messages[i]
      /\ \A k \in a + 1 .. Len(new) : \E j \in DOMAIN messages[a].uses : j < c + l /\ new[k].use = messages[a].uses[j].id
  <2>1. n \in Nat /\ Good(messages, n)
    BY <1>1
  <2> QED
    BY ONLY <1>7, <2>1, ResultsJoin
<1>9. SentWhole(new, n)
  BY <1>1, <1>8, SentSame
<1>10. new[a].uses = uses
  BY <1>1, <1>8 DEF Speaks
<1> QED
  BY <1>1, <1>6, <1>8, <1>9, <1>10 DEF n

\* The result of one use, which is the last one the turn waits for.
LEMMA ResultAdded ==
  ASSUME HistoryInv, pc \in {"suspended", "resumed"}, messages' = Append(messages, ResultMsg(uses[suspended].id))
  PROVE  Good(messages', config.keep) /\ SentWhole(messages', config.keep)
<1>1. /\ suspended \in DOMAIN uses /\ suspended >= cursor
      /\ uses \in Seq(UseRec) /\ messages \in Seq(MessageRec)
  BY DEF HistoryInv, UsesInOrder, Good, Shaped
<1>2. PICK a \in DOMAIN messages : OpenReply(a)
  BY DEF HistoryInv
<1>3. suspended \in Nat /\ suspended <= Len(uses)
  BY <1>1
<1> DEFINE m == ResultMsg(uses[suspended].id)
           one == [i \in 1 .. 1 |-> ResultMsg(uses[suspended + i - 1].id)]
<1>4. one = <<m>>
  <2>1. \A i \in 1 .. 1 : suspended + i - 1 = suspended
    BY <1>3
  <2>2. one = [i \in 1 .. 1 |-> m]
    BY <2>1
  <2> HIDE DEF m
  <2> QED
    BY <2>2
<1>5. messages' = messages \o one
  <2>1. m \in MessageRec
    <3>1. uses[suspended] \in UseRec
      BY <1>1
    <3> QED
      BY <3>1, NewMessages DEF UseRec
  <2> HIDE DEF one
  <2>2. messages' = Append(messages, m)
    OBVIOUS
  <2> HIDE DEF m
  <2> QED
    BY <1>1, <1>4, <2>1, <2>2
<1>6. suspended + 1 - 1 <= Len(uses) /\ 1 \in Nat
  BY <1>3
<1> QED
  BY <1>1, <1>2, <1>3, <1>5, <1>6, ResultsAdded

LEMMA HistoryCollect == ASSUME HistoryInv, Collect PROVE HistoryInv'
<1> DEFINE last == CHOOSE k \in Segment : \A j \in Segment : j <= k
           l == last - cursor + 1
<1>1. /\ cursor \in Nat \ {0} /\ uses \in Seq(UseRec) /\ Len(uses) \in Nat /\ DOMAIN uses = 1 .. Len(uses)
      /\ pc = "tools" /\ cursor \in DOMAIN uses /\ ran \in Seq(Nat)
  BY DEF Collect, Joined, HistoryInv, UsesInOrder
<1>2. last \in DOMAIN uses /\ cursor <= last
  <2>1. /\ Segment \subseteq DOMAIN uses /\ cursor \in Segment
        /\ \E k \in Segment : \A j \in Segment : j <= k
    BY <1>1, SegmentOfUses
  <2> HIDE DEF Segment
  <2>2. last \in Segment /\ \A j \in Segment : j <= last
    BY <2>1
  <2> QED
    BY <2>1, <2>2
<1>3. messages' = messages \o [i \in 1 .. l |-> ResultMsg(uses[cursor + i - 1].id)]
  BY DEF Collect
<1>4. /\ UNCHANGED <<config, ran, suspended>>
      /\ \/ last < Len(uses) /\ cursor' = last + 1 /\ UNCHANGED <<uses, pc>>
         \/ Forget /\ pc' = "loop"
  BY DEF Collect
<1> HIDE DEF last
<1>5. l \in Nat /\ cursor + l - 1 = last /\ cursor + l = last + 1 /\ last <= Len(uses)
  BY <1>1, <1>2
<1>6. PICK a \in DOMAIN messages : OpenReply(a)
  BY <1>1 DEF HistoryInv
<1> HIDE DEF l
<1>7. /\ Good(messages', config.keep) /\ SentWhole(messages', config.keep)
      /\ Speaks(messages', a) /\ messages'[a].uses = uses
      /\ \A k \in a + 1 .. Len(messages') : \E j \in DOMAIN uses : j < last + 1 /\ messages'[k].use = uses[j].id
  <2>1. cursor \in Nat /\ cursor >= cursor /\ cursor + l - 1 <= Len(uses)
    BY <1>1, <1>5
  <2> QED
    BY <1>3, <1>5, <1>6, <2>1, ResultsAdded
<1>8. CASE last < Len(uses) /\ cursor' = last + 1 /\ UNCHANGED <<uses, pc>>
  <2>1. cursor' \in Nat \ {0} /\ cursor' \in DOMAIN uses'
    BY <1>1, <1>2, <1>8
  <2>2. UsesInOrder'
    BY <1>4, <1>8, <2>1 DEF HistoryInv, UsesInOrder
  <2>3. a \in DOMAIN messages' /\ OpenReply(a)'
    BY <1>7, <1>8 DEF OpenReply, Speaks
  <2> QED
    BY <1>1, <1>4, <1>7, <1>8, <2>2, <2>3 DEF HistoryInv
<1>9. CASE Forget /\ pc' = "loop"
  BY <1>1, <1>4, <1>7, <1>9, HistoryGoesOn
<1> QED
  BY <1>4, <1>8, <1>9

LEMMA HistorySuspend == ASSUME HistoryInv, Suspend PROVE HistoryInv'
<1>1. UNCHANGED <<config, messages, uses, cursor, ran>> /\ pc = "tools" /\ ran \in Seq(Nat)
  BY DEF Suspend, Joined, HistoryInv, UsesInOrder
<1>2. CASE config.kind = "followup"
  <2>1. pc' = "failed"
    BY <1>2 DEF Suspend
  <2> QED
    BY <1>1, <2>1, HistoryKept
<1>3. CASE config.kind # "followup"
  <2>1. pc' = "suspended" /\ suspended' = First(Asking) /\ Asking # {}
    BY <1>3 DEF Suspend
  <2>2. cursor \in Nat /\ Len(uses) \in Nat /\ DOMAIN uses = 1 .. Len(uses) /\ cursor >= 1
    BY DEF HistoryInv, UsesInOrder
  <2>3. Asking \subseteq cursor .. Len(uses)
    BY DEF Asking, Segment
  <2>4. Asking \in SUBSET Nat
    BY <2>2, <2>3
  <2>5. suspended' \in Asking
    BY <2>1, <2>4, LeastExists DEF First
  <2>6. suspended' \in DOMAIN uses /\ suspended' >= cursor
    <3>1. suspended' \in cursor .. Len(uses)
      BY <2>3, <2>5
    <3> QED
      BY <2>2, <3>1
  <2> QED
    BY <1>1, <2>1, <2>6, HistoryKept
<1> QED
  BY <1>2, <1>3

LEMMA HistoryAnswer == ASSUME HistoryInv, Answer PROVE HistoryInv'
<1>1. PICK allowed \in BOOLEAN : Verdict(allowed)
  BY DEF Answer
<1>2. pc = "suspended" /\ UNCHANGED <<config, ran>> /\ ran \in Seq(Nat)
  BY <1>1 DEF Verdict, HistoryInv, UsesInOrder
<1>3. CASE allowed
  <2>1. pc' = "resumed" /\ UNCHANGED <<messages, uses, cursor, suspended>>
    BY <1>1, <1>3 DEF Verdict
  <2> QED
    BY <1>2, <2>1, HistoryKept
<1>4. CASE ~allowed
  <2>1. pc' = "loop" /\ messages' = Append(messages, ResultMsg(uses[suspended].id)) /\ Forget
    BY <1>1, <1>4 DEF Verdict
  <2>2. Good(messages', config.keep) /\ SentWhole(messages', config.keep)
    BY <1>2, <2>1, ResultAdded
  <2> QED
    BY <1>2, <2>1, <2>2, HistoryGoesOn
<1> QED
  BY <1>3, <1>4

LEMMA HistoryRunResumed == ASSUME HistoryInv, NEW ok \in BOOLEAN, RunResumed(ok) PROVE HistoryInv'
<1>1. /\ pc = "resumed" /\ config' = config /\ pc' \in {"loop", "failed"} /\ Forget
      /\ messages' = messages \/ messages' = Append(messages, ResultMsg(uses[suspended].id))
      /\ ran' = ran \/ ran' = [ran EXCEPT ![uses[suspended].id] = @ + 1]
      /\ ran \in Seq(Nat)
  BY DEF RunResumed, HistoryInv, UsesInOrder
<1>2. ran' \in Seq(Nat)
  BY <1>1, CountsOn
<1>3. Good(messages', config.keep) /\ SentWhole(messages', config.keep)
  <2>1. CASE messages' = messages
    BY <2>1 DEF HistoryInv
  <2>2. CASE messages' = Append(messages, ResultMsg(uses[suspended].id))
    BY <1>1, <2>2, ResultAdded
  <2> QED
    BY <1>1, <2>1, <2>2
<1> QED
  BY <1>1, <1>2, <1>3, HistoryGoesOn

LEMMA HistoryStep == ASSUME HistoryInv, [Next]_vars PROVE HistoryInv'
<1>1. CASE HitLimit \/ ProviderFails
  <2>1. UNCHANGED <<config, messages, uses, cursor, ran>> /\ pc' \in {"completed", "failed"}
    BY <1>1 DEF HitLimit, ProviderFails, Call
  <2>2. ran' \in Seq(Nat)
    BY <2>1 DEF HistoryInv, UsesInOrder
  <2> QED
    BY <2>1, <2>2, HistoryKept
<1>2. CASE ReplyText
  BY <1>2, HistoryReplyText
<1>3. CASE ReplyTools
  BY <1>3, HistoryReplyTools
<1>4. CASE Tools
  BY <1>4, HistoryTools
<1>5. CASE Collect
  BY <1>5, HistoryCollect
<1>6. CASE Suspend
  BY <1>6, HistorySuspend
<1>7. CASE \E ok \in BOOLEAN : RunResumed(ok)
  BY <1>7, HistoryRunResumed
<1>8. CASE Answer
  BY <1>8, HistoryAnswer
<1>9. CASE UNCHANGED vars
  <2>1. UNCHANGED <<config, messages, uses, cursor, ran, pc, suspended>>
    BY <1>9 DEF vars
  <2>2. ran' \in Seq(Nat)
    BY <2>1 DEF HistoryInv, UsesInOrder
  <2> QED
    BY <2>1, <2>2, HistoryKept
<1> QED
  BY <1>1, <1>2, <1>3, <1>4, <1>5, <1>6, <1>7, <1>8, <1>9 DEF Next, Turn

\* What the provider is sent is a conversation: a result stands behind the
\* request it answers, in the order of the requests and once for each, whatever
\* order the threads of a segment end in, whatever the rules and the user
\* decide; and compaction, whatever it clears and filters, keeps the first
\* message and the last turns and takes a request together with its results
\* (run_loop, compact_if_needed, resume_suspended_tool_invocation).
THEOREM HistoryAlwaysWhole == Spec => []HistoryIsWhole
<1>1. HistoryInv => HistoryIsWhole
  <2> SUFFICES ASSUME HistoryInv PROVE HistoryIsWhole
    OBVIOUS
  <2>1. ResultsInOrder
    BY DEF HistoryInv, Good, Ordered, ResultsInOrder
  <2>2. CompactedWhole
    BY SentIsWhole DEF HistoryInv
  <2> QED
    BY <2>1, <2>2 DEF HistoryIsWhole
<1> QED
  BY <1>1, HistoryInit, HistoryStep, PTL DEF Spec

-----------------------------------------------------------------------------
(* What becomes of the turn.                                                *)

JobFields == {"run", "turn", "req", "summary", "hint", "ask", "tool", "events",
              "last", "posed", "acted", "failure"}

\* Nothing that is recorded of the job says that it has ended.
Live(j) ==
  /\ j.run = "running" /\ j.turn \notin Closed /\ j.req \notin {"satisfied", "exhausted"}
  /\ j.summary \notin {"failure", "followup_exhausted"} /\ j.hint \notin Closed

\* Where the thread works on the message, and no question is open, ...
Working == {"session", "planned", "approved", "continue", "request", "complete",
            "close_turn", "followup", "prepared", "verdict"}

\* ... where one may be ...
QuestionPut == {"handle", "ask", "resume", "loop"}

\* ... and where it has begun to write down that the turn has ended.
Ending(j) ==
  /\ handler = "close_run" =>
       /\ j.run = "running" /\ j.req \notin {"satisfied", "exhausted"}
       /\ j.summary \notin {"failure", "followup_exhausted"}
       /\ j.turn = "completed"
  /\ handler = "tell" =>
       /\ j.run = "completed" /\ j.req = "satisfied"
       /\ j.summary \notin {"failure", "followup_exhausted"}
  /\ handler = "exhausted" => j.run = "running" /\ j.summary = "followup_exhausted"

\* The sources of a question.
Questions == {"none", "approval", "blocked", "upstream", "tool"}

OutcomeInv ==
  /\ handler \in {"idle", "rest", "close_run", "tell", "exhausted"} \cup Working \cup QuestionPut
  /\ DOMAIN job = JobFields /\ restarts \in Nat
  /\ handler = "idle" => job = NoJob
  /\ handler # "idle" => job.run \in {"running", "completed"}
  /\ handler # "rest" => reply = <<>>
  /\ handler \in Working \cup QuestionPut \/ job.ask # "none" => Live(job)
  /\ handler \in Working \cup {"close_run", "tell", "exhausted"} => job.ask = "none"
  /\ handler = "handle" =>
       /\ judged.verdict \in {"blocked", "ask", "followup", "complete"}
       /\ judged.verdict # "ask" => job.ask = "none"
  /\ job.ask \in Questions
  /\ handler = "ask" \/ (handler = "handle" /\ judged.verdict = "ask") => judged.ask \in Questions
  /\ Ending(job)
  /\ EndShownTruly

LEMMA FirstOfThree ==
  ASSUME NEW a, NEW b, NEW c
  PROVE  FirstOf(<<a, b, c>>) = IF a # "none" THEN a ELSE IF b # "none" THEN b ELSE IF c # "none" THEN c ELSE "none"
<1> DEFINE t == <<a, b, c>>
           some == {i \in DOMAIN t : t[i] # "none"}
           first == CHOOSE i \in some : \A k \in some : i <= k
<1>1. DOMAIN t = 1 .. 3 /\ t[1] = a /\ t[2] = b /\ t[3] = c
  OBVIOUS
<1>2. FirstOf(t) = IF some = {} THEN "none" ELSE t[first]
  BY DEF FirstOf
<1>3. \A n \in some : (\A k \in some : n <= k) => first = n
  BY <1>1
<1>4. (1 \in some <=> a # "none") /\ (2 \in some <=> b # "none") /\ (3 \in some <=> c # "none")
      /\ some \subseteq {1, 2, 3}
  BY <1>1
<1> HIDE DEF some, first, t
<1> QED
  BY <1>1, <1>2, <1>3, <1>4 DEF t

LEMMA FirstOfFour ==
  ASSUME NEW a, NEW b, NEW c, NEW d
  PROVE  FirstOf(<<a, b, c, d>>) = IF a # "none" THEN a ELSE IF b # "none" THEN b
                                   ELSE IF c # "none" THEN c ELSE IF d # "none" THEN d ELSE "none"
<1> DEFINE t == <<a, b, c, d>>
           some == {i \in DOMAIN t : t[i] # "none"}
           first == CHOOSE i \in some : \A k \in some : i <= k
<1>1. DOMAIN t = 1 .. 4 /\ t[1] = a /\ t[2] = b /\ t[3] = c /\ t[4] = d
  OBVIOUS
<1>2. FirstOf(t) = IF some = {} THEN "none" ELSE t[first]
  BY DEF FirstOf
<1>3. \A n \in some : (\A k \in some : n <= k) => first = n
  BY <1>1
<1>4. (1 \in some <=> a # "none") /\ (2 \in some <=> b # "none") /\ (3 \in some <=> c # "none")
      /\ (4 \in some <=> d # "none") /\ some \subseteq {1, 2, 3, 4}
  BY <1>1
<1> HIDE DEF some, first, t
<1> QED
  BY <1>1, <1>2, <1>3, <1>4 DEF t

\* When a job with a run record is shown as ended, whatever a worker does: the
\* branches of derive_job_status_summary and runtime_status_with_worker.
SaysCompleted(j) ==
  \/ j.req = "satisfied" /\ j.run = "completed"
  \/ /\ j.req \notin {"exhausted", "waiting", "scheduled"} /\ j.ask = "none" /\ j.tool = "none"
     /\ \/ j.run = "completed"
        \/ j.run # "failed" /\ (j.turn = "completed" \/ (j.turn \notin {"waiting", "failed"} /\ j.hint = "completed"))

SaysFailed(j) ==
  \/ j.req = "exhausted"
  \/ /\ j.req \notin {"waiting", "scheduled"} /\ ~(j.req = "satisfied" /\ j.run = "completed")
     /\ j.ask = "none" /\ j.tool = "none" /\ j.run # "completed"
     /\ \/ j.run = "failed"
        \/ j.turn = "failed" \/ (j.turn \notin {"waiting", "completed"} /\ j.hint = "failed")

LEMMA ProjectedEnd ==
  ASSUME NEW j
  PROVE  (Projected(j) = "completed" <=> SaysCompleted(j)) /\ (Projected(j) = "failed" <=> SaysFailed(j))
<1>1. Projected(j) = IF OfRequirement(j) # "none" THEN OfRequirement(j)
                     ELSE IF OfQuestion(j) # "none" THEN OfQuestion(j)
                     ELSE IF OfTool(j) # "none" THEN OfTool(j) ELSE OfRun(j)
  <2>1. Projected(j) = IF OfRequirement(j) # "none" THEN OfRequirement(j)
                       ELSE IF OfQuestion(j) # "none" THEN OfQuestion(j)
                       ELSE IF OfTool(j) # "none" THEN OfTool(j)
                       ELSE IF OfRun(j) # "none" THEN OfRun(j) ELSE "none"
    BY FirstOfFour DEF Projected
  <2>2. QED
    BY <2>1
<1>2. OfRun(j) = IF j.run = "completed" THEN "completed" ELSE IF j.run = "failed" THEN "failed"
                 ELSE IF OfTurn(j) # "none" THEN OfTurn(j)
                 ELSE IF j.hint # "none" THEN j.hint ELSE "executing"
  <2>1. FirstOf(<<OfTurn(j), j.hint, "executing">>) =
          IF OfTurn(j) # "none" THEN OfTurn(j) ELSE IF j.hint # "none" THEN j.hint ELSE "executing"
    BY FirstOfThree
  <2>2. QED
    BY <2>1 DEF OfRun
<1>3. OfTurn(j) = IF j.turn = "waiting" THEN "waiting_user_input" ELSE IF j.turn = "completed" THEN "completed"
                  ELSE IF j.turn = "failed" THEN "failed" ELSE "none"
  BY DEF OfTurn
<1>4. OfRequirement(j) = IF j.req = "exhausted" THEN "failed"
                         ELSE IF j.req = "satisfied" /\ j.run = "completed" THEN "completed"
                         ELSE IF j.req = "waiting" THEN "waiting_user_input"
                         ELSE IF j.req = "scheduled" THEN "executing" ELSE "none"
  BY DEF OfRequirement
<1>5. QED
  BY <1>1, <1>2, <1>3, <1>4 DEF OfQuestion, OfTool, SaysCompleted, SaysFailed

LEMMA ShownEnd ==
  ASSUME NEW j, NEW w, j.run # "none"
  PROVE  /\ Shown(j, w, FALSE) = "failed" <=> SummaryFails(j) \/ SaysFailed(j)
         /\ Shown(j, w, FALSE) = "completed" <=> ~SummaryFails(j) /\ SaysCompleted(j)
<1>1. Shown(j, w, FALSE) = IF SummaryFails(j) THEN "failed" ELSE WithWorker(Projected(j), w)
  BY DEF Shown, Backed
<1>2. WithWorker(Projected(j), w) \in Closed <=> Projected(j) \in Closed
  BY DEF WithWorker, Closed
<1>3. Projected(j) \in Closed => WithWorker(Projected(j), w) = Projected(j)
  BY DEF WithWorker, Closed
<1>4. QED
  BY <1>1, <1>2, <1>3, ProjectedEnd DEF Closed

LEMMA LiveShown ==
  ASSUME NEW j, NEW w, Live(j)
  PROVE  Shown(j, w, FALSE) \notin Closed
<1>1. ~SummaryFails(j)
  BY DEF SummaryFails, Summary, Live
<1>2. ~SaysCompleted(j) /\ ~SaysFailed(j)
  BY DEF SaysCompleted, SaysFailed, Live, Closed
<1>3. QED
  BY <1>1, <1>2, ShownEnd DEF Closed, Live

\* Sending a reply, and ending without one.
LEMMA Rested ==
  ASSUME OutcomeInv, DOMAIN job' = JobFields, job'.run \in {"running", "completed"},
         job'.ask \in Questions,
         handler' = "rest", restarts' \in Nat, job'.ask # "none" => Live(job'),
         restarts' = 0 => /\ Status' = "completed" => reply' = <<"answer">>
                          /\ Status' = "failed" => reply' = <<"error">>
  PROVE  OutcomeInv'
BY DEF OutcomeInv, Ending, EndShownTruly, Working, QuestionPut

\* The status of the next state.
LEMMA NextShown ==
  ASSUME job'.run \in {"running", "completed"}
  PROVE  /\ Status' = "failed" <=> SummaryFails(job') \/ SaysFailed(job')
         /\ Status' = "completed" <=> ~SummaryFails(job') /\ SaysCompleted(job')
<1>1. Status' = Shown(job', Worker', FALSE)
  BY DEF Status
<1>2. QED
  BY <1>1, ShownEnd

\* The handler comes to its end with a job that is still open, or ends without
\* a word.
LEMMA RestsOpen ==
  ASSUME OutcomeInv, DOMAIN job' = JobFields, Live(job'), job'.ask \in Questions,
         handler' = "rest", restarts' = restarts
  PROVE  OutcomeInv'
<1>1. Status' \notin Closed
  <2>1. Status' = Shown(job', Worker', FALSE)
    BY DEF Status
  <2>2. QED
    BY <2>1, LiveShown
<1>2. QED
  BY <1>1, Rested DEF OutcomeInv, Live, Closed

LEMMA OutcomeInitInv == OutcomeInit => OutcomeInv
BY DEF OutcomeInit, OutcomeInv, NoJob, JobFields, Questions, Ending, EndShownTruly, Working,
   QuestionPut

\* What a verdict may be of a result that is judged.
LEMMA VerdictIs ==
  ASSUME NEW r \in Results
  PROVE  /\ r.verdict \in {"blocked", "ask", "followup", "complete"}
         /\ r.ask \in Questions
BY DEF Results, Judged, Judge, Questions

LEMMA StaysAtWork ==
  ASSUME OutcomeInv, DOMAIN job' = JobFields, Live(job'), job'.ask \in Questions,
         reply' = <<>>, restarts' = restarts,
         \/ handler' \in Working /\ job'.ask = "none"
         \/ handler' \in {"resume", "loop"}
         \/ handler' = "ask" /\ judged'.ask \in Questions
         \/ /\ handler' = "handle" /\ judged'.verdict \in {"blocked", "ask", "followup", "complete"}
            /\ IF judged'.verdict = "ask" THEN judged'.ask \in Questions ELSE job'.ask = "none"
  PROVE  OutcomeInv'
BY DEF OutcomeInv, Ending, EndShownTruly, Working, QuestionPut, Live

LEMMA OutcomeWork ==
  ASSUME OutcomeInv, Receive \/ Work
  PROVE  OutcomeInv'
<1> USE DEF Goto, Rest, Silent, Reply, JobFields, Questions
<1>1. CASE Receive
  <2>1. Live(job') /\ DOMAIN job' = JobFields /\ job'.ask = "none"
    BY <1>1 DEF Receive, OutcomeInv, With, UpsertTurn, NoJob, Live, Closed
  <2>2. QED
    BY <1>1, <2>1, StaysAtWork DEF Receive, OutcomeInv, Working
<1>2. CASE SessionFails
  <2>1. Live(job') /\ DOMAIN job' = JobFields /\ job'.ask \in Questions
    BY <1>2 DEF SessionFails, OutcomeInv, With, Live, Working
  <2>2. QED
    BY <1>2, <2>1, RestsOpen DEF SessionFails
<1>3. CASE Plans
  <2>1. Live(job') /\ DOMAIN job' = JobFields /\ job'.ask = "none"
    BY <1>3 DEF Plans, OutcomeInv, With, Live, Closed, Working
  <2>2. QED
    BY <1>3, <2>1, StaysAtWork DEF Plans, OutcomeInv, Working
<1>4. CASE DirectPlan
  <2>1. Live(job') /\ DOMAIN job' = JobFields /\ job'.ask \in Questions
    BY <1>4 DEF DirectPlan, OutcomeInv, With, Live, Working
  <2>2. QED
    BY <1>4, <2>1, RestsOpen DEF DirectPlan
<1>5. CASE ProposePlan
  <2>1. Live(job') /\ DOMAIN job' = JobFields
    BY <1>5 DEF ProposePlan, OutcomeInv, With, Live, Working
  <2>2. QED
    BY <1>5, <2>1, RestsOpen DEF ProposePlan
<1>6. CASE PlanSuspends
  <2>1. Live(job') /\ DOMAIN job' = JobFields
    BY <1>6 DEF PlanSuspends, OutcomeInv, With, Live, Working
  <2>2. judged'.verdict = "ask" /\ judged'.ask = "tool"
    BY <1>6 DEF PlanSuspends
  <2>3. QED
    BY <1>6, <2>1, <2>2, StaysAtWork DEF PlanSuspends, OutcomeInv
<1>7. ASSUME NEW status \in {"failure", "error"}, PlanFails(status) PROVE OutcomeInv'
  <2>1. DOMAIN job' = JobFields /\ job'.run = "running" /\ job'.ask = "none"
    BY <1>7 DEF PlanFails, OutcomeInv, With, Live, Working
  <2>2. job'.summary = status /\ job'.turn \notin Closed /\ job'.hint \notin Closed
        /\ job'.req \notin {"satisfied", "exhausted"}
    BY <1>7 DEF PlanFails, OutcomeInv, With, Live, Working
  <2>3. Status' # "completed"
    BY <2>1, <2>2, NextShown DEF SaysCompleted, Closed
  <2>4. reply' = <<"error">>
    BY <1>7 DEF PlanFails, OutcomeInv
  <2>5. QED
    BY <1>7, <2>1, <2>3, <2>4, Rested DEF PlanFails, OutcomeInv
<1>8. ASSUME NEW r \in Results, Returns(r) PROVE OutcomeInv'
  <2>1. Live(job') /\ DOMAIN job' = JobFields /\ job'.ask = "none"
    BY <1>8 DEF Returns, OutcomeInv, Live, Working
  <2>2. QED
    BY <1>8, <2>1, VerdictIs, StaysAtWork DEF Returns, OutcomeInv
<1>9. CASE AutoResolve
  <2>1. Live(job') /\ DOMAIN job' = JobFields /\ job'.ask = "none"
    BY <1>9 DEF AutoResolve, OutcomeInv, QuestionPut
  <2>2. QED
    BY <1>9, <2>1, StaysAtWork DEF AutoResolve, OutcomeInv, Working
<1>10. CASE RegisterBlocked
  <2>1. Live(job') /\ DOMAIN job' = JobFields
    BY <1>10 DEF RegisterBlocked, OutcomeInv, Live, QuestionPut
  <2>2. QED
    BY <1>10, <2>1, RestsOpen DEF RegisterBlocked
<1>11. CASE Handle
  <2>1. Live(job') /\ DOMAIN job' = JobFields /\ job'.ask = job.ask
    BY <1>11 DEF Handle, OutcomeInv, With, UpsertTurn, Live, QuestionPut, Closed
  <2>2. (handler' = "ask" /\ judged'.ask \in Questions) \/ (handler' \in {"followup", "complete"} /\ job.ask = "none")
    BY <1>11 DEF Handle, OutcomeInv
  <2>3. QED
    BY <1>11, <2>1, <2>2, StaysAtWork DEF Handle, OutcomeInv, Working, QuestionPut
<1>12. CASE ClearQuestion
  <2>1. Live(job') /\ DOMAIN job' = JobFields /\ job'.ask = "none"
    BY <1>12 DEF ClearQuestion, OutcomeInv, Live, Working
  <2>2. QED
    BY <1>12, <2>1, StaysAtWork DEF ClearQuestion, OutcomeInv, Working
<1>13. CASE CloseTurn
  BY <1>13 DEF CloseTurn, UpsertTurn, OutcomeInv, Live, Working, QuestionPut, Ending, EndShownTruly
<1>14. CASE CloseRun
  BY <1>14 DEF CloseRun, OutcomeInv, Live, Working, QuestionPut, Ending, EndShownTruly
<1>15. CASE Tell
  <2>1. /\ DOMAIN job' = JobFields /\ job'.run = "completed" /\ job'.req = "satisfied"
        /\ job'.ask = "none" /\ job'.summary = "success"
    BY <1>15 DEF Tell, With, OutcomeInv, Ending
  <2>2. Status' # "failed"
    BY <2>1, NextShown DEF SaysFailed, SummaryFails, Summary
  <2>3. reply' = <<"answer">>
    BY <1>15 DEF Tell, OutcomeInv
  <2>4. QED
    BY <1>15, <2>1, <2>2, <2>3, Rested DEF Tell, OutcomeInv
<1>16. CASE AskUser
  <2>1. Live(job') /\ DOMAIN job' = JobFields /\ job'.ask \in Questions
    BY <1>16 DEF AskUser, With, UpsertTurn, OutcomeInv, Live, QuestionPut, Closed
  <2>2. QED
    BY <1>16, <2>1, RestsOpen DEF AskUser
<1>17. CASE PrepareFollowup
  <2>1. Live(job') /\ DOMAIN job' = JobFields /\ job'.ask = "none"
    BY <1>17 DEF PrepareFollowup, OutcomeInv, With, UpsertTurn, Live, Closed, Working
  <2>2. QED
    BY <1>17, <2>1, StaysAtWork DEF PrepareFollowup, OutcomeInv, Working
<1>18. CASE Exhaust
  BY <1>18 DEF Exhaust, With, OutcomeInv, Live, Working, QuestionPut, Ending, EndShownTruly
<1>19. CASE Exhausted
  <2>1. /\ DOMAIN job' = JobFields /\ job'.run = "running" /\ job'.ask = "none"
        /\ job'.summary = "followup_exhausted"
    BY <1>19 DEF Exhausted, UpsertTurn, OutcomeInv, Ending
  <2>2. Status' # "completed"
    BY <2>1, NextShown DEF SummaryFails, Summary
  <2>3. reply' = <<"error">>
    BY <1>19 DEF Exhausted, OutcomeInv
  <2>4. QED
    BY <1>19, <2>1, <2>2, <2>3, Rested DEF Exhausted, OutcomeInv
<1>20. CASE Request
  <2>1. Live(job') /\ DOMAIN job' = JobFields /\ job'.ask = "none"
    BY <1>20 DEF Request, OutcomeInv, With, Live, Working
  <2>2. QED
    BY <1>20, <2>1, StaysAtWork DEF Request, OutcomeInv, Working
<1>21. CASE RequestFails
  <2>1. /\ DOMAIN job' = JobFields /\ job'.run = "running" /\ job'.ask = "none"
        /\ job'.turn = "failed" /\ job'.req \notin {"satisfied", "exhausted"}
    BY <1>21 DEF RequestFails, With, UpsertTurn, OutcomeInv, Live, Working
  <2>2. Status' # "completed"
    BY <2>1, NextShown DEF SaysCompleted
  <2>3. reply' = <<"error">>
    BY <1>21 DEF RequestFails, OutcomeInv
  <2>4. QED
    BY <1>21, <2>1, <2>2, <2>3, Rested DEF RequestFails, OutcomeInv
<1>22. CASE Errs
  <2>1. Live(job') /\ DOMAIN job' = JobFields /\ job'.ask \in Questions
    BY <1>22 DEF Errs, OutcomeInv, Working, QuestionPut
  <2>2. QED
    BY <1>22, <2>1, RestsOpen DEF Errs
<1>23. CASE Reject
  <2>1. Live(job') /\ DOMAIN job' = JobFields /\ job'.ask \in Questions
    BY <1>23 DEF Reject, With, OutcomeInv, Live, Working
  <2>2. QED
    BY <1>23, <2>1, RestsOpen DEF Reject
<1>24. CASE Approve
  <2>1. Live(job') /\ DOMAIN job' = JobFields /\ job'.ask = "none"
    BY <1>24 DEF Approve, With, OutcomeInv, Live, Working
  <2>2. QED
    BY <1>24, <2>1, StaysAtWork DEF Approve, OutcomeInv, Working
<1>25. CASE Resume
  <2>1. Live(job') /\ DOMAIN job' = JobFields
    BY <1>25 DEF Resume, With, OutcomeInv, Live, QuestionPut
  <2>2. QED
    BY <1>25, <2>1, StaysAtWork DEF Resume, OutcomeInv, QuestionPut
<1>26. CASE LoopSuspends
  <2>1. Live(job') /\ DOMAIN job' = JobFields
    BY <1>26 DEF LoopSuspends, With, OutcomeInv, Live, QuestionPut
  <2>2. QED
    BY <1>26, <2>1, RestsOpen DEF LoopSuspends
<1>27. CASE LoopCompletes
  <2>1. /\ DOMAIN job' = JobFields /\ job'.run = "completed" /\ job'.ask = "none"
        /\ job'.req # "exhausted" /\ job'.summary \notin {"failure", "followup_exhausted"}
    BY <1>27 DEF LoopCompletes, With, UpsertTurn, OutcomeInv, Live, QuestionPut
  <2>2. Status' # "failed"
    BY <2>1, NextShown DEF SaysFailed, SummaryFails, Summary
  <2>3. reply' = <<"answer">>
    BY <1>27 DEF LoopCompletes, OutcomeInv
  <2>4. QED
    BY <1>27, <2>1, <2>2, <2>3, Rested DEF LoopCompletes, OutcomeInv
<1>28. QED
  BY <1>1, <1>2, <1>3, <1>4, <1>5, <1>6, <1>7, <1>8, <1>9, <1>10, <1>11, <1>12, <1>13, <1>14,
     <1>15, <1>16, <1>17, <1>18, <1>19, <1>20, <1>21, <1>22, <1>23, <1>24, <1>25, <1>26, <1>27 DEF Work

LEMMA OutcomeGoesOn ==
  ASSUME OutcomeInv, [OutcomeNext]_outcomeVars
  PROVE  OutcomeInv'
<1> USE DEF Goto, Rest, Silent, JobFields
<1>1. CASE Receive \/ Work
  BY <1>1, OutcomeWork
<1>2. CASE TakeAnswer
  <2>1. Live(job)
    BY <1>2 DEF TakeAnswer, OutcomeInv
  <2>2. Live(Submitted(job)) /\ DOMAIN Submitted(job) = JobFields /\ Submitted(job).ask = job.ask
    BY <2>1 DEF Submitted, With, OutcomeInv, Live
  <2> HIDE DEF JobFields
  <2>3. /\ job.ask \in {"approval", "blocked", "upstream", "tool"}
        /\ reply' = <<>> /\ restarts' = restarts
        /\ CASE job.ask \in {"upstream", "blocked"} ->
                  job' = [Submitted(job) EXCEPT !.ask = "none", !.req = "active"] /\ handler' = "continue"
             [] job.ask = "approval" ->
                  job' = [Submitted(job) EXCEPT !.ask = "none"] /\ handler' = "verdict"
             [] job.ask = "tool" ->
                  job' = Submitted(job) /\ handler' = "resume"
    BY <1>2 DEF TakeAnswer, OutcomeInv, Questions
  <2> DEFINE j == Submitted(job)
  <2> HIDE DEF j
  <2>4. CASE job.ask \in {"upstream", "blocked"}
    <3>1. job' = [j EXCEPT !.ask = "none", !.req = "active"] /\ handler' = "continue"
      BY <2>3, <2>4 DEF j
    <3>2. Live(job') /\ DOMAIN job' = JobFields /\ job'.ask = "none"
      BY <2>2, <3>1 DEF j, Live, JobFields
    <3>3. QED
      BY <2>3, <3>1, <3>2, StaysAtWork DEF Working, Questions
  <2>5. CASE job.ask = "approval"
    <3>1. job' = [j EXCEPT !.ask = "none"] /\ handler' = "verdict"
      BY <2>3, <2>5 DEF j
    <3>2. Live(job') /\ DOMAIN job' = JobFields /\ job'.ask = "none"
      BY <2>2, <3>1 DEF j, Live, JobFields
    <3>3. QED
      BY <2>3, <3>1, <3>2, StaysAtWork DEF Working, Questions
  <2>6. CASE job.ask = "tool"
    <3>1. job' = Submitted(job) /\ handler' = "resume"
      BY <2>3, <2>6
    <3>2. QED
      BY <2>2, <2>3, <2>6, <3>1, StaysAtWork DEF QuestionPut, Questions
  <2>7. QED
    BY <2>3, <2>4, <2>5, <2>6
<1>3. CASE Restart
  <2>1. /\ DOMAIN job' = JobFields /\ restarts' \in Nat /\ restarts' # 0
        /\ job'.run = job.run /\ job'.ask = job.ask
    BY <1>3 DEF Restart, OutcomeInv
  <2>2. job.ask # "none" => Live(job')
    BY <1>3 DEF Restart, OutcomeInv, Live, Closed
  <2>3. QED
    BY <1>3, <2>1, <2>2, Rested DEF Restart, OutcomeInv
<1>4. CASE UNCHANGED outcomeVars
  <2>1. EndShownTruly' <=> EndShownTruly
    BY <1>4 DEF outcomeVars, EndShownTruly, Status, Worker
  <2>2. Ending(job)' <=> Ending(job)
    BY <1>4 DEF outcomeVars, Ending
  <2>3. QED
    BY <1>4, <2>1, <2>2 DEF outcomeVars, OutcomeInv
<1>5. QED
  BY <1>1, <1>2, <1>3, <1>4 DEF OutcomeNext

\* Whatever the upstream returns and the user answers, however many follow-ups
\* there are: when the thread is done and no restart came between, and the web
\* shows the job as completed, an answer is the only thing that was sent since
\* the message or the user's last answer, and when it shows it as failed, an
\* error is (handle_upstream_result_complete, schedule_agent_followup,
\* derive_job_state).
THEOREM TheEndIsTold == OutcomeSpec => []EndShownTruly
<1>1. OutcomeInv => EndShownTruly
  BY DEF OutcomeInv
<1>2. QED
  BY <1>1, OutcomeInitInv, OutcomeGoesOn, PTL DEF OutcomeSpec

\* What a step leaves of a status that says the turn has ended.
LEMMA EndLasts ==
  ASSUME Backend = "json", OutcomeInv, [OutcomeNext]_outcomeVars, Status \in Closed
  PROVE  Status' = Status
<1> USE DEF Goto, Rest, Silent, Reply
<1>1. Status = Shown(job, Worker, FALSE) /\ Status' = Shown(job', Worker', FALSE)
  BY DEF Status
<1>2. handler # "idle"
  <2>1. SUFFICES ASSUME handler = "idle" PROVE FALSE
    OBVIOUS
  <2>2. job = NoJob /\ Worker = "none"
    BY <2>1 DEF OutcomeInv, Worker
  <2>3. Status = "queued"
    BY <1>1, <2>2 DEF Shown, NoJob, ByEvents, FailureEvents, OfPosed, OfToolEvents, FollowingUp
  <2>4. QED
    BY <2>3 DEF Closed
<1>3. ~Live(job)
  BY <1>1, LiveShown
<1>4. job.run \in {"running", "completed"} /\ job.ask = "none"
      /\ handler \in {"rest", "close_run", "tell", "exhausted"} /\ DOMAIN job = JobFields
  BY <1>2, <1>3 DEF OutcomeInv
<1>5. /\ Status = "failed" <=> SummaryFails(job) \/ SaysFailed(job)
      /\ Status = "completed" <=> ~SummaryFails(job) /\ SaysCompleted(job)
  BY <1>1, <1>4, ShownEnd
<1>6. CASE handler = "rest" /\ ~Restart
  <2>1. UNCHANGED outcomeVars
    BY <1>4, <1>6 DEF OutcomeNext, Work, Receive, SessionFails, Plans, DirectPlan, ProposePlan,
       PlanSuspends, PlanFails, Returns, AutoResolve, RegisterBlocked, Handle, ClearQuestion, CloseTurn,
       CloseRun, Tell, AskUser, PrepareFollowup, Exhaust, Exhausted, Request, RequestFails, Errs, Reject,
       Approve, Resume, LoopSuspends, LoopCompletes, TakeAnswer
  <2>2. QED
    BY <2>1 DEF outcomeVars, Status, Worker
<1>7. CASE Restart
  <2>1. /\ job'.run = job.run /\ job'.turn = job.turn /\ job'.req = job.req /\ job'.ask = job.ask
        /\ job'.tool = job.tool /\ job'.hint = job.hint /\ job'.summary = job.summary
    BY <1>4, <1>7 DEF Restart, JobFields
  <2>2. SummaryFails(job') <=> SummaryFails(job)
    BY <2>1 DEF SummaryFails, Summary
  <2>3. (SaysFailed(job') <=> SaysFailed(job)) /\ (SaysCompleted(job') <=> SaysCompleted(job))
    BY <2>1 DEF SaysFailed, SaysCompleted
  <2>4. QED
    BY <1>4, <1>5, <2>1, <2>2, <2>3, NextShown DEF Closed
<1>8. CASE handler = "close_run" /\ CloseRun
  <2>1. /\ job'.run = "completed" /\ job'.req = "satisfied" /\ job'.ask = "none"
        /\ job'.summary = job.summary
    BY <1>4, <1>8 DEF CloseRun, JobFields
  <2>2. job.run = "running" /\ job.summary \notin {"failure", "followup_exhausted"}
        /\ job.req # "exhausted" /\ job.turn = "completed"
    BY <1>8 DEF OutcomeInv, Ending
  <2>3. Status = "completed"
    BY <1>5, <2>2 DEF Closed, SaysFailed, SummaryFails, Summary
  <2>4. QED
    BY <2>1, <2>2, <2>3, NextShown DEF SummaryFails, Summary, SaysCompleted
<1>9. CASE handler = "tell" /\ Tell
  <2>1. /\ job'.run = "completed" /\ job'.req = "satisfied" /\ job'.summary = "success"
    BY <1>4, <1>9 DEF Tell, With, OutcomeInv, Ending, JobFields
  <2>2. job.run = "completed" /\ job.req = "satisfied"
        /\ job.summary \notin {"failure", "followup_exhausted"}
    BY <1>9 DEF OutcomeInv, Ending
  <2>3. Status = "completed"
    BY <1>5, <2>2 DEF SaysCompleted, SummaryFails, Summary
  <2>4. QED
    BY <2>1, <2>3, NextShown DEF SummaryFails, Summary, SaysCompleted
<1>10. CASE handler = "exhausted" /\ Exhausted
  <2>1. job'.run = "running" /\ job'.summary = "followup_exhausted"
    BY <1>4, <1>10 DEF Exhausted, UpsertTurn, OutcomeInv, Ending, JobFields
  <2>2. job.summary = "followup_exhausted"
    BY <1>10 DEF OutcomeInv, Ending
  <2>3. QED
    BY <1>5, <2>1, <2>2, NextShown DEF SummaryFails, Summary
<1>11. CASE UNCHANGED outcomeVars
  BY <1>11 DEF outcomeVars, Status, Worker
<1>12. CASE handler # "rest" /\ OutcomeNext /\ ~Restart
  <2>1. \/ handler = "close_run" /\ CloseRun
        \/ handler = "tell" /\ Tell
        \/ handler = "exhausted" /\ Exhausted
    BY <1>4, <1>12 DEF OutcomeNext, Work, Receive, SessionFails, Plans, DirectPlan, ProposePlan,
       PlanSuspends, PlanFails, Returns, AutoResolve, RegisterBlocked, Handle, ClearQuestion, CloseTurn,
       AskUser, PrepareFollowup, Exhaust, Request, RequestFails, Errs, Reject, CloseRun, Tell, Exhausted,
       Approve, Resume, LoopSuspends, LoopCompletes, TakeAnswer
  <2>2. QED
    BY <2>1, <1>8, <1>9, <1>10
<1>13. QED
  BY <1>6, <1>7, <1>11, <1>12

\* With the JSON store, which keeps the hints over a restart, a job the web
\* shows as completed or failed is never shown as anything else again: not by
\* the writes that follow in the handler, not by an answer, not by a restart
\* (derive_job_state, handle_upstream_result_complete, handle_exhausted_followup).
THEOREM EndsAreFinal ==
  ASSUME Backend = "json"
  PROVE  OutcomeSpec => EndedStays
<1>1. OutcomeInv /\ [OutcomeNext]_outcomeVars => [(Status \in Closed) => (Status' = Status)]_outcomeVars
  BY EndLasts
<1>2. QED
  BY <1>1, OutcomeInitInv, OutcomeGoesOn, PTL DEF OutcomeSpec, EndedStays

-----------------------------------------------------------------------------
(* A streamed reply.                                                        *)

Portion(c, n) == [i \in 1 .. n |-> <<c, i>>]

\* What was sent: calls one after the other, each with the number of its
\* fragments so far and the index its block got.
WireRec == [call : Calls[src], fragments : 0 .. Fragments, index : Nat]

WireTypes ==
  /\ src \in Sources
  /\ wire \in Seq(WireRec)
  /\ \A j, k \in DOMAIN wire :
       j < k => wire[j].call # wire[k].call /\ wire[j].index < wire[k].index

\* What is accumulated in a is what was sent.
Follows(a) ==
  /\ a = [text |-> a.text, tools |-> a.tools]
  /\ a.tools = [i \in {wire[k].index : k \in DOMAIN wire} |-> a.tools[i]]
  /\ \A k \in DOMAIN wire :
       /\ a.tools[wire[k].index] \in
            [call : {wire[k].call}, buf : {Portion(wire[k].call, wire[k].fragments)}, complete : BOOLEAN]
       /\ a.tools[wire[k].index].complete => wire[k].fragments = Fragments

\* The adapter numbers on; the one that numbers itself knows the one call.
AdapterFits ==
  /\ adapter \in [textOpen : BOOLEAN, order : Seq(Calls[src]), next : Nat]
  /\ \A k \in DOMAIN wire : wire[k].index < adapter.next
  /\ src = "chunks" =>
       \/ wire = <<>> /\ adapter.order = <<>>
       \/ Len(wire) = 1 /\ adapter.order = <<wire[1].call>> /\ adapter.next = wire[1].index + 1

StreamInv == /\ WireTypes /\ Follows(acc) /\ AdapterFits /\ InputsAsSent

\* What Ascending means, for numbers that are among some that rise.
LEMMA AscendingOf ==
  ASSUME NEW s \in Seq(Nat), Rising(s), NEW S \in SUBSET Range(s)
  PROVE  /\ Ascending(S) \in [1 .. Cardinality(S) -> S]
         /\ \A j, k \in DOMAIN Ascending(S) : j < k => Ascending(S)[j] < Ascending(S)[k]
<1> DEFINE q == KeepOnly(s, S)
<1>1. q \in Seq(Nat) /\ Range(q) = S /\ Rising(q)
  <2>1. q \in Seq(Nat) /\ Range(q) = Range(s) \cap S
    BY KeepRange
  <2>2. Rising(q)
    BY KeepRising
  <2> QED
    BY <2>1, <2>2
<1> HIDE DEF q
<1>2. IsInjective(q)
  <2> SUFFICES ASSUME NEW j \in DOMAIN q, NEW k \in DOMAIN q, q[j] = q[k] PROVE j = k
    BY DEF IsInjective
  <2>1. DOMAIN q = 1 .. Len(q) /\ Len(q) \in Nat /\ q[j] \in Nat /\ q[k] \in Nat
    BY <1>1
  <2>2. ~(j < k) /\ ~(k < j)
    BY <1>1, <2>1 DEF Rising
  <2> QED
    BY <2>1, <2>2
<1>3. Len(q) = Cardinality(S)
  BY <1>1, <1>2, OnceLength
<1>4. q \in [1 .. Cardinality(S) -> S]
  <2>1. DOMAIN q = 1 .. Len(q) /\ q = [i \in DOMAIN q |-> q[i]] /\ \A i \in DOMAIN q : q[i] \in S
    BY <1>1 DEF Range
  <2> QED
    BY <1>3, <2>1
<1>5. \A j, k \in DOMAIN q : j < k => q[j] < q[k]
  BY <1>1 DEF Rising
<1> QED
  BY <1>4, <1>5 DEF Ascending

-----------------------------------------------------------------------------
\* The calls sent, each in one place.
LEMMA WireIs ==
  ASSUME WireTypes
  PROVE  /\ DOMAIN wire = 1 .. Len(wire) /\ Len(wire) \in Nat
         /\ \A k \in DOMAIN wire :
              wire[k] \in WireRec /\ wire[k].call \in Calls[src] /\ wire[k].fragments \in 0 .. Fragments
                /\ wire[k].index \in Nat
<1>1. /\ DOMAIN wire = 1 .. Len(wire) /\ Len(wire) \in Nat
      /\ \A k \in DOMAIN wire : wire[k] \in WireRec
  BY DEF WireTypes
<1> QED
  BY <1>1 DEF WireRec

LEMMA PlaceOf ==
  ASSUME WireTypes
  PROVE  /\ \A k \in DOMAIN wire : Place(wire[k].call) = k
         /\ \A c \in Begun : Place(c) \in DOMAIN wire /\ wire[Place(c)].call = c
<1>0. DOMAIN wire = 1 .. Len(wire) /\ Len(wire) \in Nat
  BY DEF WireTypes
<1>1. ASSUME NEW k \in DOMAIN wire PROVE Place(wire[k].call) = k
  <2>1. \A j \in DOMAIN wire : wire[j].call = wire[k].call => j = k
    <3> TAKE j \in DOMAIN wire
    <3>1. j < k \/ k < j \/ j = k
      BY <1>0
    <3> QED
      BY <3>1 DEF WireTypes
  <2> QED
    BY <2>1 DEF Place
<1> QED
  BY <1>1 DEF Begun

\* The response has the tools that are complete, in the order of their blocks,
\* with their inputs.
LEMMA DrainFine ==
  ASSUME WireTypes, StreamAssumption, NEW a, Follows(a)
  PROVE  LET r == Drain(a) IN
         /\ r.status = "ok"
         /\ \A k \in DOMAIN r.uses : r.uses[k].input = WholeInput(r.uses[k].call)
         /\ \A j, k \in DOMAIN r.uses : j < k => Place(r.uses[j].call) < Place(r.uses[k].call)
<1> DEFINE done == {i \in DOMAIN a.tools : a.tools[i].complete}
           at == [k \in DOMAIN wire |-> wire[k].index]
           by == Ascending(done)
<1>0. DOMAIN wire = 1 .. Len(wire) /\ Len(wire) \in Nat /\ \A k \in DOMAIN wire : wire[k] \in WireRec
  BY DEF WireTypes
<1>1. at \in Seq(Nat) /\ Rising(at) /\ DOMAIN at = DOMAIN wire /\ Range(at) = DOMAIN a.tools
  <2>1. \A k \in DOMAIN wire : wire[k].index \in Nat
    BY <1>0 DEF WireRec
  <2>2. at \in Seq(Nat) /\ DOMAIN at = DOMAIN wire
    BY <1>0, <2>1
  <2>3. Rising(at)
    BY DEF Rising, WireTypes
  <2>4. Range(at) = {wire[k].index : k \in DOMAIN wire}
    BY DEF Range
  <2> QED
    BY <2>2, <2>3, <2>4 DEF Follows
<1>2. ASSUME NEW i \in done
      PROVE  \E k \in DOMAIN wire : i = wire[k].index /\ a.tools[i].call = wire[k].call
                                      /\ a.tools[i].buf = WholeInput(wire[k].call) /\ wire[k].call \in Calls[src]
  <2>1. PICK k \in DOMAIN wire : i = wire[k].index
    BY DEF Follows
  <2>2. /\ a.tools[i] \in [call : {wire[k].call}, buf : {Portion(wire[k].call, wire[k].fragments)}, complete : BOOLEAN]
        /\ wire[k].fragments = Fragments
    BY <2>1 DEF Follows
  <2>3. wire[k].call \in Calls[src]
    BY <1>0 DEF WireRec
  <2> QED
    BY <2>1, <2>2, <2>3 DEF Portion, WholeInput
<1>3. by \in [1 .. Cardinality(done) -> done] /\ \A j, k \in DOMAIN by : j < k => by[j] < by[k]
  <2>1. done \in SUBSET Range(at)
    BY <1>1
  <2> HIDE DEF done, at
  <2> QED
    BY <1>1, <2>1, AscendingOf
<1>4. Drain(a) = Response(a, by)
  <2>1. \A i \in done : Parses(a.tools[i].buf)
    BY <1>2 DEF Parses
  <2> HIDE DEF by
  <2>2. Drain(a) = IF \E i \in done : ~Parses(a.tools[i].buf) THEN NoResponse("error") ELSE Response(a, Ascending(done))
    BY DEF Drain
  <2> QED
    BY <2>1, <2>2 DEF by
<1> DEFINE r == Drain(a)
<1> HIDE DEF done, by
<1>5. /\ r.status = "ok" /\ DOMAIN r.uses = DOMAIN by
      /\ \A k \in DOMAIN by : r.uses[k] = [call |-> a.tools[by[k]].call, input |-> a.tools[by[k]].buf]
  BY <1>4 DEF Response
<1> HIDE DEF r
<1>6. ASSUME NEW k \in DOMAIN r.uses
      PROVE  \E n \in DOMAIN wire : by[k] = wire[n].index /\ r.uses[k].call = wire[n].call
                                      /\ r.uses[k].input = WholeInput(wire[n].call)
  <2>1. by[k] \in done
    BY <1>3, <1>5
  <2>2. r.uses[k] = [call |-> a.tools[by[k]].call, input |-> a.tools[by[k]].buf]
    BY <1>5
  <2>3. r.uses[k].call = a.tools[by[k]].call /\ r.uses[k].input = a.tools[by[k]].buf
    BY <2>2
  <2> QED
    BY <1>2, <2>1, <2>3
<1>7. ASSUME NEW j \in DOMAIN r.uses, NEW k \in DOMAIN r.uses, j < k
      PROVE  Place(r.uses[j].call) < Place(r.uses[k].call)
  <2>1. PICK m \in DOMAIN wire : by[j] = wire[m].index /\ r.uses[j].call = wire[m].call
    BY <1>6
  <2>2. PICK n \in DOMAIN wire : by[k] = wire[n].index /\ r.uses[k].call = wire[n].call
    BY <1>6
  <2>3. wire[m].index < wire[n].index /\ wire[m].index \in Nat /\ wire[n].index \in Nat
    BY <1>0, <1>3, <1>5, <1>7, <2>1, <2>2 DEF WireRec
  <2>4. m < n
    <3>1. ~(n < m) /\ m # n
      BY <2>3 DEF WireTypes
    <3> QED
      BY <1>0, <3>1
  <2> QED
    BY <2>1, <2>2, <2>4, PlaceOf
<1> QED
  BY <1>5, <1>6, <1>7 DEF r

-----------------------------------------------------------------------------
LEMMA FollowsStays == ASSUME wire' = wire, Follows(acc') PROVE Follows(acc)'
  BY DEF Follows, Portion

LEMMA StreamInitInv == StreamAssumption /\ StreamInit => StreamInv
<1> SUFFICES ASSUME StreamAssumption, StreamInit PROVE StreamInv
  OBVIOUS
<1>1. WireTypes /\ wire = <<>> /\ DOMAIN wire = {}
  BY DEF StreamInit, WireTypes
<1>2. Follows(acc)
  BY <1>1 DEF StreamInit, Follows
<1>3. AdapterFits
  BY <1>1 DEF StreamInit, AdapterFits
<1>4. InputsAsSent
  BY DEF StreamInit, InputsAsSent, NoResponse
<1> QED
  BY <1>1, <1>2, <1>3, <1>4 DEF StreamInv

\* A text changes nothing of the tools.
LEMMA TextStep ==
  ASSUME StreamInv, UNCHANGED <<src, wire, result>>, result.status = "none", acc' = Consume(acc, TextDelta),
         adapter' \in [textOpen : BOOLEAN, order : {adapter.order}, next : {adapter.next, adapter.next + 1}],
         src = "chunks" => wire = <<>>
  PROVE  StreamInv'
<1>1. WireTypes' /\ InputsAsSent'
  <2>1. WireTypes'
    BY DEF StreamInv, WireTypes, WireRec
  <2> QED
    BY <2>1 DEF InputsAsSent
<1>2. acc' = [acc EXCEPT !.text = @ + 1]
  BY DEF Consume, TextDelta
<1>3. Follows(acc)'
  <2>1. acc' = [text |-> acc.text + 1, tools |-> acc.tools]
    BY <1>2 DEF StreamInv, Follows
  <2> QED
    BY <2>1 DEF StreamInv, Follows, Portion
<1>4. AdapterFits'
  <2>1. adapter \in [textOpen : BOOLEAN, order : Seq(Calls[src]), next : Nat]
    BY DEF StreamInv, AdapterFits
  <2>2. adapter' \in [textOpen : BOOLEAN, order : Seq(Calls[src]), next : Nat]
    BY <2>1
  <2>3. \A k \in DOMAIN wire : wire[k].index < adapter'.next
    <3> TAKE k \in DOMAIN wire
    <3>1. wire[k].index \in Nat /\ wire[k].index < adapter.next
      BY WireIs DEF StreamInv, AdapterFits
    <3>2. adapter'.next \in {adapter.next, adapter.next + 1} /\ adapter.next \in Nat
      BY <2>1
    <3> QED
      BY <3>1, <3>2
  <2>4. adapter'.order = adapter.order
    OBVIOUS
  <2>5. src = "chunks" => wire = <<>> /\ adapter.order = <<>>
    BY EmptySeq DEF StreamInv, AdapterFits, WireTypes
  <2> QED
    BY <2>2, <2>3, <2>4, <2>5 DEF AdapterFits
<1> QED
  BY <1>1, <1>3, <1>4 DEF StreamInv

\* The start of a call, with the first n fragments of it.
LEMMA BeginStep ==
  ASSUME StreamInv, NEW c \in Calls[src] \ Begun, NEW n \in 0 .. Fragments, result.status = "none",
         UNCHANGED <<src, result>>,
         wire' = Append(wire, [call |-> c, fragments |-> n, index |-> adapter.next]),
         acc' = [acc EXCEPT !.tools = [i \in DOMAIN @ \cup {adapter.next} |->
                   IF i = adapter.next THEN [call |-> c, buf |-> Portion(c, n), complete |-> FALSE] ELSE @[i]]],
         adapter' \in [textOpen : BOOLEAN, order : Seq(Calls[src]), next : {adapter.next + 1}],
         src = "chunks" => wire = <<>> /\ adapter'.order = <<c>>
  PROVE  StreamInv'
<1> DEFINE new == [call |-> c, fragments |-> n, index |-> adapter.next]
           L == Len(wire)
<1>0. wire \in Seq(WireRec) /\ adapter.next \in Nat /\ DOMAIN wire = 1 .. L /\ L \in Nat
  BY DEF StreamInv, WireTypes, AdapterFits
<1>1. new \in WireRec
  BY <1>0 DEF WireRec
<1>2. /\ wire' \in Seq(WireRec) /\ DOMAIN wire' = 1 .. (L + 1) /\ wire'[L + 1] = new /\ Len(wire') = L + 1
      /\ \A k \in 1 .. L : wire'[k] = wire[k]
  <2> HIDE DEF new
  <2>1. wire' = Append(wire, new)
    BY DEF new
  <2> QED
    BY <1>0, <1>1, <2>1, AppendProperties
<1>3. \A k \in DOMAIN wire' : k \in DOMAIN wire \/ k = L + 1
  BY <1>0, <1>2
<1>4. \A k \in DOMAIN wire : wire'[k] = wire[k] /\ wire[k].index < adapter.next /\ wire[k].index \in Nat
                               /\ wire[k].call # c /\ k \in DOMAIN wire' /\ k # L + 1
  <2>1. \A k \in DOMAIN wire : wire[k].index < adapter.next /\ wire[k].index \in Nat
    BY WireIs DEF StreamInv, AdapterFits
  <2>2. \A k \in DOMAIN wire : wire[k].call # c
    BY DEF Begun
  <2>3. \A k \in DOMAIN wire : wire'[k] = wire[k] /\ k \in DOMAIN wire' /\ k # L + 1
    BY <1>0, <1>2
  <2> QED
    BY <2>1, <2>2, <2>3
<1>5. new.call = c /\ new.fragments = n /\ new.index = adapter.next
  OBVIOUS
<1> HIDE DEF new, L
<1>6. WireTypes'
  <2>1. wire' \in Seq(WireRec)' /\ src' \in Sources
    BY <1>2 DEF WireRec, StreamInv, WireTypes
  <2>2. ASSUME NEW j \in DOMAIN wire', NEW k \in DOMAIN wire', j < k
        PROVE  wire'[j].call # wire'[k].call /\ wire'[j].index < wire'[k].index
    <3>1. j \in DOMAIN wire
      BY <1>0, <1>2, <2>2
    <3>2. CASE k \in DOMAIN wire
      BY <1>4, <2>2, <3>1, <3>2 DEF StreamInv, WireTypes
    <3>3. CASE k = L + 1
      BY <1>2, <1>4, <1>5, <3>1, <3>3
    <3> QED
      BY <1>3, <3>2, <3>3
  <2> QED
    BY <2>1, <2>2 DEF WireTypes
<1>7. Follows(acc)'
  <2> DEFINE t == [i \in DOMAIN acc.tools \cup {adapter.next} |->
                     IF i = adapter.next THEN [call |-> c, buf |-> Portion(c, n), complete |-> FALSE] ELSE acc.tools[i]]
  <2>1. acc' = [text |-> acc.text, tools |-> t]
    <3> HIDE DEF t
    <3>1. acc' = [acc EXCEPT !.tools = t]
      BY DEF t
    <3> QED
      BY <3>1 DEF StreamInv, Follows
  <2>2. acc'.tools = t /\ acc' = [text |-> acc'.text, tools |-> acc'.tools]
    BY <2>1
  <2>3. DOMAIN acc.tools = {wire[k].index : k \in DOMAIN wire}
    BY DEF StreamInv, Follows
  <2>4. DOMAIN acc.tools \cup {adapter.next} = {wire'[k].index : k \in DOMAIN wire'}
    <3>1. wire'[L + 1].index = adapter.next /\ L + 1 \in DOMAIN wire'
      BY <1>0, <1>2, <1>5
    <3> QED
      BY <1>3, <1>4, <2>3, <3>1
  <2>5. acc'.tools = [i \in {wire'[k].index : k \in DOMAIN wire'} |-> acc'.tools[i]]
    BY <2>2, <2>4
  <2>6. ASSUME NEW k \in DOMAIN wire'
        PROVE  /\ acc'.tools[wire'[k].index] \in
                    [call : {wire'[k].call}, buf : {Portion(wire'[k].call, wire'[k].fragments)}, complete : BOOLEAN]
               /\ acc'.tools[wire'[k].index].complete => wire'[k].fragments = Fragments
    <3>1. CASE k = L + 1
      <4>1. t[adapter.next] = [call |-> c, buf |-> Portion(c, n), complete |-> FALSE]
        OBVIOUS
      <4>2. wire'[k].call = c /\ wire'[k].fragments = n /\ wire'[k].index = adapter.next
        BY <1>2, <1>5, <3>1
      <4> QED
        BY <2>2, <4>1, <4>2
    <3>2. CASE k \in DOMAIN wire
      <4>1. wire[k].index # adapter.next /\ wire[k].index \in DOMAIN acc.tools /\ wire'[k] = wire[k]
        BY <1>0, <1>4, <2>3, <3>2
      <4>2. t[wire[k].index] = acc.tools[wire[k].index]
        BY <4>1
      <4> QED
        BY <2>2, <3>2, <4>1, <4>2 DEF StreamInv, Follows
    <3> QED
      BY <1>3, <3>1, <3>2
  <2> HIDE DEF t
  <2> QED
    BY <2>2, <2>5, <2>6 DEF Follows, Portion
<1>8. AdapterFits'
  <2>1. adapter'.next = adapter.next + 1
    OBVIOUS
  <2>2. \A k \in DOMAIN wire' : wire'[k].index < adapter'.next
    BY <1>0, <1>2, <1>3, <1>4, <1>5, <2>1
  <2>3. adapter' \in [textOpen : BOOLEAN, order : Seq(Calls[src']), next : Nat]
    BY <1>0
  <2>4. src = "chunks" => Len(wire') = 1 /\ adapter'.order = <<wire'[1].call>> /\ adapter'.next = wire'[1].index + 1
    <3> SUFFICES ASSUME src = "chunks" PROVE Len(wire') = 1 /\ adapter'.order = <<wire'[1].call>> /\ adapter'.next = wire'[1].index + 1
      OBVIOUS
    <3>1. L = 0
      BY EmptySeq DEF L
    <3> QED
      BY <1>2, <1>5, <2>1, <3>1
  <2> QED
    BY <2>2, <2>3, <2>4 DEF AdapterFits
<1>9. InputsAsSent'
  BY DEF InputsAsSent
<1> QED
  BY <1>6, <1>7, <1>8, <1>9 DEF StreamInv

\* One more fragment of a call that has begun, to its own block.
LEMMA FragmentStep ==
  ASSUME StreamInv, NEW c \in Begun, FragmentsOf(c) < Fragments, result.status = "none", SendFragment(c),
         UNCHANGED <<src, result>>,
         acc' = [acc EXCEPT !.tools[IndexOf(c)].buf = Append(@, <<c, FragmentsOf(c) + 1>>)],
         adapter' \in [textOpen : BOOLEAN, order : {adapter.order}, next : {adapter.next}]
  PROVE  StreamInv'
<1> DEFINE p == Place(c)
           n == wire[p].fragments
           x == wire[p].index
<1>0. /\ wire \in Seq(WireRec) /\ DOMAIN wire = 1 .. Len(wire) /\ p \in DOMAIN wire /\ wire[p].call = c
      /\ \A k \in DOMAIN wire : wire[k] \in WireRec /\ (wire[k].call = c => k = p)
  BY PlaceOf DEF StreamInv, WireTypes
<1>1. n \in Nat /\ n < Fragments /\ FragmentsOf(c) = n /\ IndexOf(c) = x
  BY <1>0 DEF FragmentsOf, IndexOf, WireRec
<1>2. wire' = [wire EXCEPT ![p].fragments = n + 1]
  <2>1. \A k \in DOMAIN wire : wire'[k] = IF k = p THEN [wire[k] EXCEPT !.fragments = n + 1] ELSE wire[k]
    BY <1>0 DEF SendFragment
  <2>2. DOMAIN wire' = DOMAIN wire /\ wire' = [k \in DOMAIN wire |-> wire'[k]]
    BY DEF SendFragment
  <2> QED
    BY <1>0, <2>1, <2>2
<1>3. /\ DOMAIN wire' = DOMAIN wire /\ wire' \in Seq(WireRec) /\ Len(wire') = Len(wire)
      /\ \A k \in DOMAIN wire : /\ wire'[k].call = wire[k].call /\ wire'[k].index = wire[k].index
                                /\ wire'[k].fragments = IF k = p THEN n + 1 ELSE wire[k].fragments
  <2>1. wire[p] \in WireRec /\ n + 1 \in 0 .. Fragments
    BY <1>0, <1>1, StreamAssumption DEF StreamAssumption
  <2>2. [wire[p] EXCEPT !.fragments = n + 1] \in WireRec
    BY <2>1 DEF WireRec
  <2>3. \A k \in DOMAIN wire : wire'[k] = IF k = p THEN [wire[p] EXCEPT !.fragments = n + 1] ELSE wire[k]
    BY <1>2
  <2>4. DOMAIN wire' = DOMAIN wire /\ wire' \in Seq(WireRec) /\ Len(wire') = Len(wire)
    <3> DEFINE r == [wire[p] EXCEPT !.fragments = n + 1]
    <3> HIDE DEF r
    <3>1. wire' = [wire EXCEPT ![p] = r]
      BY <1>2 DEF r
    <3> QED
      BY <1>0, <2>2, <3>1, ExceptSeq DEF r
  <2>5. \A k \in DOMAIN wire : k # p => wire'[k] = wire[k]
    BY <2>3
  <2>6. wire'[p].fragments = n + 1 /\ wire'[p].call = wire[p].call /\ wire'[p].index = wire[p].index
    <3>1. wire'[p] = [wire[p] EXCEPT !.fragments = n + 1]
      BY <1>0, <2>3
    <3> QED
      BY <2>1, <3>1 DEF WireRec
  <2> QED
    BY <2>4, <2>5, <2>6
<1> HIDE DEF p, n, x
<1>4. WireTypes'
  <2>1. wire' \in Seq(WireRec)' /\ src' \in Sources
    BY <1>3 DEF WireRec, StreamInv, WireTypes
  <2>2. \A j, k \in DOMAIN wire' : j < k => wire'[j].call # wire'[k].call /\ wire'[j].index < wire'[k].index
    BY <1>3 DEF StreamInv, WireTypes
  <2> QED
    BY <2>1, <2>2 DEF WireTypes
<1>5. Follows(acc)'
  <2> DEFINE T == acc.tools
  <2>1. acc = [text |-> acc.text, tools |-> T] /\ T = [i \in DOMAIN T |-> T[i]]
        /\ DOMAIN T = {wire[k].index : k \in DOMAIN wire}
    BY DEF StreamInv, Follows
  <2>2. x \in DOMAIN T /\ \A k \in DOMAIN wire : wire[k].index = x => k = p
    <3>1. x \in DOMAIN T
      BY <1>0, <2>1 DEF x
    <3>2. ASSUME NEW k \in DOMAIN wire, wire[k].index = x PROVE k = p
      <4>1. wire[k].index \in Nat /\ wire[p].index = x
        BY <1>0, <3>2 DEF x, WireRec
      <4>2. ~(k < p) /\ ~(p < k)
        BY <1>0, <3>2, <4>1 DEF StreamInv, WireTypes
      <4> QED
        BY <1>0, <4>2
    <3> QED
      BY <3>1, <3>2
  <2>3. T[x] \in [call : {c}, buf : {Portion(c, n)}, complete : BOOLEAN] /\ (T[x].complete => n = Fragments)
    BY <1>0 DEF StreamInv, Follows, n, x
  <2>4. acc' = [text |-> acc.text, tools |-> [T EXCEPT ![x] = [T[x] EXCEPT !.buf = Append(T[x].buf, <<c, n + 1>>)]]]
    BY <1>1, <2>1
  <2>5. Append(Portion(c, n), <<c, n + 1>>) = Portion(c, n + 1)
    <3>1. Portion(c, n) \in Seq({c} \X Nat) /\ Len(Portion(c, n)) = n /\ <<c, n + 1>> \in {c} \X Nat
      BY <1>1 DEF Portion
    <3>2. /\ Append(Portion(c, n), <<c, n + 1>>) \in Seq({c} \X Nat)
          /\ Len(Append(Portion(c, n), <<c, n + 1>>)) = n + 1
          /\ Append(Portion(c, n), <<c, n + 1>>)[n + 1] = <<c, n + 1>>
          /\ \A i \in 1 .. n : Append(Portion(c, n), <<c, n + 1>>)[i] = Portion(c, n)[i]
      BY <3>1, AppendProperties
    <3>3. Portion(c, n + 1) \in Seq({c} \X Nat) /\ Len(Portion(c, n + 1)) = n + 1
      BY <1>1 DEF Portion
    <3>4. \A i \in 1 .. n + 1 : Append(Portion(c, n), <<c, n + 1>>)[i] = Portion(c, n + 1)[i]
      <4> TAKE i \in 1 .. n + 1
      <4>1. Portion(c, n + 1)[i] = <<c, i>>
        BY DEF Portion
      <4>2. CASE i = n + 1
        BY <3>2, <4>1, <4>2
      <4>3. CASE i # n + 1
        <5>1. i \in 1 .. n /\ Portion(c, n)[i] = <<c, i>>
          BY <1>1, <4>3 DEF Portion
        <5> QED
          BY <3>2, <4>1, <5>1
      <4> QED
        BY <4>2, <4>3
    <3> QED
      BY <3>2, <3>3, <3>4, SeqEqual
  <2> DEFINE new == [T[x] EXCEPT !.buf = Append(T[x].buf, <<c, n + 1>>)]
  <2>6. new \in [call : {c}, buf : {Portion(c, n + 1)}, complete : BOOLEAN] /\ new.complete = FALSE
    <3>1. T[x].complete = FALSE /\ T[x].buf = Portion(c, n)
      BY <1>1, <2>3, StreamAssumption DEF StreamAssumption
    <3> QED
      BY <2>3, <2>5, <3>1
  <2>7. acc' = [text |-> acc.text, tools |-> [T EXCEPT ![x] = new]]
    BY <2>4
  <2> HIDE DEF new, T
  <2>8. acc'.tools = [i \in DOMAIN T |-> IF i = x THEN new ELSE T[i]] /\ acc' = [text |-> acc'.text, tools |-> acc'.tools]
    <3> DEFINE U == [T EXCEPT ![x] = new]
               A == acc'
    <3>0. A = [text |-> acc.text, tools |-> U]
      BY <2>7
    <3> HIDE DEF A, U
    <3>1. A.tools = U /\ A = [text |-> A.text, tools |-> A.tools]
      BY <3>0
    <3>2. [T EXCEPT ![x] = new] = [i \in DOMAIN T |-> IF i = x THEN new ELSE T[i]]
      BY <2>1
    <3> QED
      BY <3>1, <3>2 DEF A, U
  <2>9. DOMAIN T = {wire'[k].index : k \in DOMAIN wire'}
    BY <1>3, <2>1
  <2>10. ASSUME NEW k \in DOMAIN wire'
         PROVE  /\ acc'.tools[wire'[k].index] \in
                     [call : {wire'[k].call}, buf : {Portion(wire'[k].call, wire'[k].fragments)}, complete : BOOLEAN]
                /\ acc'.tools[wire'[k].index].complete => wire'[k].fragments = Fragments
    <3>1. CASE k = p
      <4>1. wire'[k].index = x /\ wire'[k].call = c /\ wire'[k].fragments = n + 1
        BY <1>0, <1>3, <3>1 DEF x
      <4>2. acc'.tools[x] = new
        BY <2>2, <2>8
      <4> QED
        BY <2>6, <4>1, <4>2
    <3>2. CASE k # p
      <4>1. k \in DOMAIN wire /\ wire[k].index # x /\ wire[k].index \in DOMAIN T
        BY <1>3, <2>1, <2>2, <3>2
      <4>2. acc'.tools[wire[k].index] = T[wire[k].index]
        BY <2>8, <4>1
      <4>3. /\ T[wire[k].index] \in [call : {wire[k].call}, buf : {Portion(wire[k].call, wire[k].fragments)}, complete : BOOLEAN]
            /\ T[wire[k].index].complete => wire[k].fragments = Fragments
        BY <4>1 DEF StreamInv, Follows, T
      <4> QED
        BY <1>3, <3>2, <4>1, <4>2, <4>3
    <3> QED
      BY <3>1, <3>2
  <2>11. acc'.tools = [i \in {wire'[k].index : k \in DOMAIN wire'} |-> acc'.tools[i]]
    BY <2>8, <2>9
  <2> QED
    BY <2>8, <2>10, <2>11 DEF Follows, Portion
<1>6. AdapterFits'
  <2>1. adapter \in [textOpen : BOOLEAN, order : Seq(Calls[src]), next : Nat] /\ (wire' = <<>> <=> wire = <<>>)
    BY <1>0, <1>3, EmptySeq DEF StreamInv, AdapterFits
  <2>2. adapter'.order = adapter.order /\ adapter'.next = adapter.next
        /\ adapter' \in [textOpen : BOOLEAN, order : Seq(Calls[src']), next : Nat]
    BY <2>1
  <2>3. Len(wire) = 1 => 1 \in DOMAIN wire
    BY <1>0
  <2> QED
    BY <1>3, <2>1, <2>2, <2>3 DEF StreamInv, AdapterFits
<1>7. InputsAsSent'
  BY DEF InputsAsSent
<1> QED
  BY <1>4, <1>5, <1>6, <1>7 DEF StreamInv

\* A block ends when its call is sent.
LEMMA StopFollows ==
  ASSUME StreamInv, NEW blocks,
         \A k \in DOMAIN wire : wire[k].index \in blocks => wire[k].fragments = Fragments
  PROVE  Follows(OnToolStop(acc, BlockStop(blocks)))
<1> DEFINE T == acc.tools
           U == [i \in DOMAIN T |-> [T[i] EXCEPT !.complete = @ \/ i \in blocks]]
           a == OnToolStop(acc, BlockStop(blocks))
<1>1. acc = [text |-> acc.text, tools |-> T] /\ DOMAIN T = {wire[k].index : k \in DOMAIN wire}
  BY DEF StreamInv, Follows
<1>2. a = [text |-> acc.text, tools |-> U]
  <2>1. a = [acc EXCEPT !.tools = U]
    BY DEF OnToolStop, BlockStop
  <2> HIDE DEF a, U, T
  <2> QED
    BY <1>1, <2>1
<1> HIDE DEF a
<1>3. ASSUME NEW k \in DOMAIN wire
      PROVE  /\ U[wire[k].index] \in [call : {wire[k].call}, buf : {Portion(wire[k].call, wire[k].fragments)}, complete : BOOLEAN]
             /\ U[wire[k].index].complete => wire[k].fragments = Fragments
  <2>1. /\ T[wire[k].index] \in [call : {wire[k].call}, buf : {Portion(wire[k].call, wire[k].fragments)}, complete : BOOLEAN]
        /\ T[wire[k].index].complete => wire[k].fragments = Fragments
    BY DEF StreamInv, Follows
  <2>2. U[wire[k].index] = [T[wire[k].index] EXCEPT !.complete = @ \/ wire[k].index \in blocks]
    BY <1>1
  <2> HIDE DEF T, U
  <2> QED
    BY <2>1, <2>2
<1>4. U = [i \in {wire[k].index : k \in DOMAIN wire} |-> U[i]]
  BY <1>1
<1> HIDE DEF U, T
<1>5. a.tools = U /\ a = [text |-> a.text, tools |-> a.tools]
  BY <1>2
<1> QED
  BY <1>3, <1>4, <1>5 DEF Follows, a

-----------------------------------------------------------------------------
LEMMA EventTextStep == ASSUME StreamInv, EventText PROVE StreamInv'
<1>1. adapter' \in [textOpen : BOOLEAN, order : {adapter.order}, next : {adapter.next, adapter.next + 1}]
  BY DEF EventText, StreamInv, AdapterFits
<1> QED
  BY <1>1, TextStep DEF EventText, MayText

LEMMA ChunkTextStep == ASSUME ~LateText, StreamInv, ChunkText PROVE StreamInv'
<1>1. adapter \in [textOpen : BOOLEAN, order : Seq(Calls[src]), next : Nat]
  BY DEF StreamInv, AdapterFits
<1>2. adapter' \in [textOpen : BOOLEAN, order : {adapter.order}, next : {adapter.next, adapter.next + 1}]
  <2>1. CASE adapter.textOpen
    BY <1>1, <2>1 DEF ChunkText
  <2>2. CASE ~adapter.textOpen
    BY <1>1, <2>2 DEF ChunkText
  <2> QED
    BY <2>1, <2>2
<1> QED
  BY <1>2, TextStep DEF ChunkText, MayText

\* What the accumulator makes of the start of a call.
LEMMA StartIs ==
  ASSUME NEW c, NEW i
  PROVE  Consume(acc, ToolStart(i, c)) =
           [acc EXCEPT !.tools = [j \in DOMAIN @ \cup {i} |->
              IF j = i THEN [call |-> c, buf |-> Portion(c, 0), complete |-> FALSE] ELSE @[j]]]
<1>1. Portion(c, 0) = <<>>
  BY DEF Portion
<1>2. Consume(acc, ToolStart(i, c)) = OnToolStart(acc, ToolStart(i, c))
  BY DEF Consume, ToolStart
<1> QED
  BY <1>1, <1>2 DEF OnToolStart, ToolStart

LEMMA EventStartStep == ASSUME StreamInv, NEW c \in Calls[src], EventStart(c) PROVE StreamInv'
<1>1. adapter' \in [textOpen : BOOLEAN, order : Seq(Calls[src]), next : {adapter.next + 1}]
  BY DEF EventStart, StreamInv, AdapterFits
<1>2. 0 \in 0 .. Fragments
  BY StreamAssumption DEF StreamAssumption
<1>3. /\ c \in Calls[src] \ Begun /\ result.status = "none" /\ UNCHANGED <<src, result>> /\ src # "chunks"
      /\ wire' = Append(wire, [call |-> c, fragments |-> 0, index |-> adapter.next])
      /\ acc' = Consume(acc, ToolStart(adapter.next, c))
  BY DEF EventStart
<1>4. acc' = [acc EXCEPT !.tools = [j \in DOMAIN @ \cup {adapter.next} |->
                IF j = adapter.next THEN [call |-> c, buf |-> Portion(c, 0), complete |-> FALSE] ELSE @[j]]]
  <2> DEFINE i == adapter.next
  <2> HIDE DEF i
  <2>1. Consume(acc, ToolStart(i, c)) =
          [acc EXCEPT !.tools = [j \in DOMAIN @ \cup {i} |->
             IF j = i THEN [call |-> c, buf |-> Portion(c, 0), complete |-> FALSE] ELSE @[j]]]
    BY StartIs
  <2> QED
    BY <1>3, <2>1 DEF i
<1> QED
  BY <1>1, <1>2, <1>3, <1>4, BeginStep

\* A fragment for a block that holds a call.
LEMMA InputIs ==
  ASSUME StreamInv, NEW c \in Begun, NEW f
  PROVE  Consume(acc, InputDelta(IndexOf(c), f)) = [acc EXCEPT !.tools[IndexOf(c)].buf = Append(@, f)]
<1>1. IndexOf(c) \in DOMAIN acc.tools
  <2>1. Place(c) \in DOMAIN wire
    BY PlaceOf DEF StreamInv
  <2>2. DOMAIN acc.tools = {wire[k].index : k \in DOMAIN wire}
    BY DEF StreamInv, Follows
  <2> QED
    BY <2>1, <2>2 DEF IndexOf
<1>2. Consume(acc, InputDelta(IndexOf(c), f)) = OnInputDelta(acc, InputDelta(IndexOf(c), f))
  BY DEF Consume, InputDelta
<1> QED
  BY <1>1, <1>2 DEF OnInputDelta, InputDelta

LEMMA EventDeltaStep == ASSUME StreamInv, NEW c \in Calls[src], EventDelta(c) PROVE StreamInv'
<1>1. c \in Begun /\ FragmentsOf(c) < Fragments /\ result.status = "none" /\ SendFragment(c) /\ UNCHANGED <<src, result, adapter>>
      /\ acc' = Consume(acc, InputDelta(IndexOf(c), <<c, FragmentsOf(c) + 1>>))
  BY DEF EventDelta, Open
<1>2. adapter' \in [textOpen : BOOLEAN, order : {adapter.order}, next : {adapter.next}]
  BY <1>1 DEF StreamInv, AdapterFits
<1> QED
  BY <1>1, <1>2, InputIs, FragmentStep

LEMMA EventStopStep == ASSUME StreamInv, NEW c \in Calls[src], EventStop(c) PROVE StreamInv'
<1>1. c \in Begun /\ FragmentsOf(c) = Fragments /\ result.status = "none" /\ UNCHANGED <<src, wire, adapter, result>>
      /\ acc' = OnToolStop(acc, BlockStop({IndexOf(c)}))
  BY DEF EventStop, Open, Consume, BlockStop
<1>2. ASSUME NEW k \in DOMAIN wire, wire[k].index \in {IndexOf(c)} PROVE wire[k].fragments = Fragments
  <2>1. Place(c) \in DOMAIN wire /\ DOMAIN wire = 1 .. Len(wire) /\ wire[k].index = wire[Place(c)].index
        /\ wire[k].index \in Nat
    BY <1>1, <1>2, PlaceOf, WireIs DEF StreamInv, IndexOf
  <2>2. ~(k < Place(c)) /\ ~(Place(c) < k)
    BY <2>1 DEF StreamInv, WireTypes
  <2>3. k = Place(c)
    BY <2>1, <2>2
  <2> QED
    BY <1>1, <2>3 DEF FragmentsOf
<1>3. Follows(OnToolStop(acc, BlockStop({IndexOf(c)})))
  BY <1>2, StopFollows
<1>4. Follows(acc)'
  BY <1>1, <1>3, FollowsStays
<1>5. WireTypes' /\ AdapterFits'
  BY <1>1 DEF StreamInv, WireTypes, WireRec, AdapterFits
<1>6. InputsAsSent'
  BY <1>1 DEF InputsAsSent
<1> QED
  BY <1>4, <1>5, <1>6 DEF StreamInv

\* Where the adapter numbers the blocks, a message has one call at most, and
\* its text comes before it.
OneChunkedCall == "chunks" \in Sources => ~LateText /\ \A c, d \in Calls["chunks"] : c = d

\* The block of the call is then the last one.
LEMMA BlockIs ==
  ASSUME NEW c, NEW a, a.order = <<c>>, a.next \in Nat \ {0}
  PROVE  BlockOf(a, c) = a.next - 1 /\ Offset(a) = a.next - 1
<1>1. Len(a.order) = 1 /\ DOMAIN a.order = {1} /\ a.order[1] = c
  OBVIOUS
<1>2. Offset(a) = a.next - 1
  BY <1>1 DEF Offset
<1>3. (CHOOSE k \in DOMAIN a.order : a.order[k] = c) = 1
  BY <1>1
<1> QED
  BY <1>2, <1>3 DEF BlockOf

LEMMA OneIsSeq == ASSUME NEW T, NEW c \in T PROVE <<c>> \in Seq(T)
  OBVIOUS

LEMMA OneFragment ==
  ASSUME NEW c, NEW x
  PROVE  LET z == [call |-> c, buf |-> <<>>, complete |-> FALSE]
         IN  [z EXCEPT !.buf = Append(z.buf, x)] = [call |-> c, buf |-> <<x>>, complete |-> FALSE]
<1> DEFINE z == [call |-> c, buf |-> <<>>, complete |-> FALSE]
           b == Append(z.buf, x)
<1>1. z.buf = <<>>
  OBVIOUS
<1>2. b = <<x>>
  BY <1>1
<1> HIDE DEF b
<1>3. z \in [call : {c}, buf : {<<>>}, complete : {FALSE}]
  OBVIOUS
<1> HIDE DEF z
<1> DEFINE e == [z EXCEPT !.buf = b]
<1>4. e \in [call : {c}, buf : {b}, complete : {FALSE}]
  BY <1>3
<1> HIDE DEF e
<1>5. e = [call |-> c, buf |-> b, complete |-> FALSE]
  BY <1>4
<1> QED
  BY <1>2, <1>5 DEF b, z, e

LEMMA ChunkCallStep ==
  ASSUME OneChunkedCall, StreamInv, NEW c \in Calls[src], ChunkCall(c)
  PROVE  StreamInv'
<1>0. src = "chunks" /\ result.status = "none" /\ UNCHANGED <<src, result>> /\ \A d \in Calls[src] : d = c
  BY DEF ChunkCall, OneChunkedCall, StreamInv, WireTypes
<1>1. adapter \in [textOpen : BOOLEAN, order : Seq(Calls[src]), next : Nat]
  BY DEF StreamInv, AdapterFits
<1>2. CASE c \in Begun
  <2>1. /\ FragmentsOf(c) < Fragments /\ SendFragment(c) /\ adapter' = [adapter EXCEPT !.textOpen = FALSE]
        /\ acc' = Consume(acc, InputDelta(BlockOf(adapter', c), <<c, FragmentsOf(c) + 1>>))
    BY <1>2 DEF ChunkCall
  <2>2. adapter' \in [textOpen : BOOLEAN, order : {adapter.order}, next : {adapter.next}]
    BY <1>1, <2>1
  <2>3. Place(c) \in DOMAIN wire /\ wire[Place(c)].call = c /\ DOMAIN wire = 1 .. Len(wire)
    BY <1>2, PlaceOf, WireIs DEF StreamInv
  <2>4. Len(wire) = 1 /\ adapter.order = <<wire[1].call>> /\ adapter.next = wire[1].index + 1
    BY <1>0, <2>3 DEF StreamInv, AdapterFits
  <2>5. Place(c) = 1 /\ adapter.order = <<c>> /\ adapter.next = IndexOf(c) + 1 /\ IndexOf(c) \in Nat
    BY <2>3, <2>4, WireIs DEF IndexOf, StreamInv
  <2>6. adapter'.order = <<c>> /\ adapter'.next = IndexOf(c) + 1
    BY <2>2, <2>5
  <2>7. BlockOf(adapter', c) = IndexOf(c)
    BY <2>5, <2>6, BlockIs
  <2>8. acc' = [acc EXCEPT !.tools[IndexOf(c)].buf = Append(@, <<c, FragmentsOf(c) + 1>>)]
    BY <1>2, <2>1, <2>7, InputIs
  <2> QED
    BY <1>0, <1>2, <2>1, <2>2, <2>8, FragmentStep
<1>3. CASE c \notin Begun
  <2>1. PICK order \in SetToSeqs(Begun \cup {c}) :
          /\ wire' = Append(wire, [call |-> c, fragments |-> 1, index |-> adapter.next])
          /\ adapter' = [textOpen |-> FALSE, order |-> order, next |-> adapter.next + 1]
          /\ acc' = Consume(Consume(acc, ToolStart(adapter.next, c)), InputDelta(BlockOf(adapter', c), <<c, 1>>))
    BY <1>3 DEF ChunkCall
  <2>2. Begun = {} /\ wire = <<>>
    <3>1. \A k \in DOMAIN wire : wire[k].call = c
      BY <1>0, WireIs DEF StreamInv
    <3>2. DOMAIN wire = {}
      BY <1>3, <3>1 DEF Begun
    <3>3. wire \in Seq(WireRec) /\ Len(wire) = 0
      BY <3>2, WireIs DEF StreamInv, WireTypes
    <3> QED
      BY <3>2, <3>3, EmptySeq DEF Begun
  <2>3. order = <<c>>
    <3>1. Cardinality({c}) = 1 /\ Begun \cup {c} = {c}
      BY <2>2, FS_Singleton
    <3>2. order \in [1 .. 1 -> {c}]
      BY <2>1, <3>1 DEF SetToSeqs
    <3> QED
      BY <3>2
  <2>4. adapter'.order = <<c>> /\ adapter'.next = adapter.next + 1 /\ adapter.next \in Nat
    BY <1>1, <2>1, <2>3
  <2>5. BlockOf(adapter', c) = adapter.next
    BY <2>4, BlockIs
  <2> DEFINE i == adapter.next
             started == Consume(acc, ToolStart(i, c))
             new(n) == [j \in DOMAIN acc.tools \cup {i} |->
                          IF j = i THEN [call |-> c, buf |-> Portion(c, n), complete |-> FALSE] ELSE acc.tools[j]]
  <2>6. started = [acc EXCEPT !.tools = new(0)]
    BY StartIs
  <2>7. acc = [text |-> acc.text, tools |-> acc.tools]
    BY DEF StreamInv, Follows
  <2> HIDE DEF started
  <2>8. started.tools = new(0) /\ started = [text |-> acc.text, tools |-> new(0)]
    <3> HIDE DEF new
    <3> QED
      BY <2>6, <2>7
  <2>9. acc' = [started EXCEPT !.tools[i].buf = Append(@, <<c, 1>>)]
    <3>1. acc' = OnInputDelta(started, InputDelta(i, <<c, 1>>))
      BY <2>1, <2>5 DEF Consume, InputDelta, started
    <3>2. i \in DOMAIN started.tools
      BY <2>8
    <3> QED
      BY <3>1, <3>2 DEF OnInputDelta, InputDelta
  <2>10. [new(0)[i] EXCEPT !.buf = Append(@, <<c, 1>>)] = [call |-> c, buf |-> Portion(c, 1), complete |-> FALSE]
    <3>1. Portion(c, 0) = <<>> /\ Append(<<>>, <<c, 1>>) = <<<<c, 1>>>> /\ Portion(c, 1) = <<<<c, 1>>>>
      BY DEF Portion
    <3>2. new(0)[i] = [call |-> c, buf |-> <<>>, complete |-> FALSE]
      BY <3>1
    <3> HIDE DEF new
    <3> QED
      BY <3>1, <3>2, OneFragment
  <2>11. [new(0) EXCEPT ![i].buf = Append(@, <<c, 1>>)] = new(1)
    <3>1. [new(0) EXCEPT ![i].buf = Append(@, <<c, 1>>)] = [new(0) EXCEPT ![i] = [call |-> c, buf |-> Portion(c, 1), complete |-> FALSE]]
      BY <2>10
    <3> QED
      BY <3>1
  <2>12. acc' = [acc EXCEPT !.tools = new(1)]
    <3>1. acc' = [text |-> acc.text, tools |-> [new(0) EXCEPT ![i].buf = Append(@, <<c, 1>>)]]
      <4> HIDE DEF new
      <4> QED
        BY <2>8, <2>9
    <3>2. acc' = [text |-> acc.text, tools |-> new(1)]
      BY <2>11, <3>1
    <3> HIDE DEF new
    <3> QED
      BY <2>7, <3>2
  <2>13. adapter' \in [textOpen : BOOLEAN, order : Seq(Calls[src]), next : {adapter.next + 1}]
    <3>1. order \in Seq(Calls[src])
      BY <2>3, OneIsSeq
    <3>2. adapter' = [textOpen |-> FALSE, order |-> order, next |-> adapter.next + 1]
      BY <2>1
    <3> QED
      BY <3>1, <3>2
  <2>14. 1 \in 0 .. Fragments
    BY StreamAssumption DEF StreamAssumption
  <2> QED
    BY <1>0, <1>3, <2>1, <2>2, <2>4, <2>12, <2>13, <2>14, BeginStep
<1> QED
  BY <1>2, <1>3

\* What the end of a message, or of the connection, makes a response of.
LEMMA EndStep ==
  ASSUME StreamInv, UNCHANGED <<src, wire, adapter>>, Follows(acc'),
         result' = Drain(acc') \/ result' = NoResponse("failed")
  PROVE  StreamInv'
<1>1. InputsAsSent'
  <2>1. CASE result' = Drain(acc')
    <3>1. /\ result'.status = "ok"
          /\ \A k \in DOMAIN result'.uses : result'.uses[k].input = WholeInput(result'.uses[k].call)
          /\ \A j, k \in DOMAIN result'.uses : j < k => Place(result'.uses[j].call) < Place(result'.uses[k].call)
      BY <2>1, DrainFine, StreamAssumption DEF StreamInv
    <3> QED
      BY <3>1 DEF InputsAsSent, Place
  <2>2. CASE result' = NoResponse("failed")
    BY <2>2 DEF InputsAsSent, NoResponse
  <2> QED
    BY <2>1, <2>2
<1>2. Follows(acc)'
  BY FollowsStays
<1>3. WireTypes' /\ AdapterFits'
  BY DEF StreamInv, WireTypes, WireRec, AdapterFits
<1> QED
  BY <1>1, <1>2, <1>3 DEF StreamInv

LEMMA EventFinishStep == ASSUME StreamInv, EventFinish \/ BreakOff PROVE StreamInv'
<1>1. UNCHANGED <<src, wire, adapter, acc>> /\ (result' = Drain(acc) \/ result' = NoResponse("failed"))
  BY DEF EventFinish, BreakOff
<1>2. Follows(acc') /\ (result' = Drain(acc') \/ result' = NoResponse("failed"))
  <2>1. acc' = acc
    BY <1>1
  <2> QED
    BY <1>1, <2>1 DEF StreamInv
<1> QED
  BY <1>1, <1>2, EndStep

LEMMA ChunkFinishStep == ASSUME StreamInv, ChunkFinish PROVE StreamInv'
<1> DEFINE blocks == {i - 1 + Offset(adapter) : i \in DOMAIN adapter.order}
<1>1. UNCHANGED <<src, wire, adapter>> /\ acc' = OnToolStop(acc, BlockStop(blocks)) /\ result' = Drain(acc')
  BY DEF ChunkFinish, Consume, BlockStop
<1>2. ASSUME NEW k \in DOMAIN wire PROVE wire[k].fragments = Fragments
  <2>1. wire[k].call \in Begun /\ Place(wire[k].call) = k
    BY PlaceOf DEF Begun, StreamInv
  <2> QED
    BY <2>1 DEF ChunkFinish, Finished, FragmentsOf
<1> HIDE DEF blocks
<1>3. Follows(acc')
  BY <1>1, <1>2, StopFollows
<1> QED
  BY <1>1, <1>3, EndStep

LEMMA StreamStep == ASSUME OneChunkedCall, StreamInv, [StreamNext]_streamVars PROVE StreamInv'
<1>1. CASE UNCHANGED streamVars
  <2>1. UNCHANGED <<src, wire, adapter, acc, result>>
    BY <1>1 DEF streamVars
  <2>2. WireTypes' /\ AdapterFits'
    BY <2>1 DEF StreamInv, WireTypes, WireRec, AdapterFits
  <2>3. InputsAsSent'
    BY <2>1 DEF StreamInv, InputsAsSent, Place
  <2>4. Follows(acc)'
    BY <2>1, FollowsStays DEF StreamInv
  <2> QED
    BY <2>2, <2>3, <2>4 DEF StreamInv
<1>2. CASE EventText
  BY <1>2, EventTextStep
<1>3. CASE ChunkText
  BY <1>3, ChunkTextStep DEF ChunkText, OneChunkedCall, StreamInv, WireTypes
<1>4. CASE EventFinish \/ BreakOff
  BY <1>4, EventFinishStep
<1>5. CASE ChunkFinish
  BY <1>5, ChunkFinishStep
<1>6. ASSUME NEW c \in Calls[src], EventStart(c) PROVE StreamInv'
  BY <1>6, EventStartStep
<1>7. ASSUME NEW c \in Calls[src], EventDelta(c) PROVE StreamInv'
  BY <1>7, EventDeltaStep
<1>8. ASSUME NEW c \in Calls[src], EventStop(c) PROVE StreamInv'
  BY <1>8, EventStopStep
<1>9. ASSUME NEW c \in Calls[src], ChunkCall(c) PROVE StreamInv'
  BY <1>9, ChunkCallStep
<1> QED
  BY <1>1, <1>2, <1>3, <1>4, <1>5, <1>6, <1>7, <1>8, <1>9 DEF StreamNext

\* The tools of a reply have the inputs their calls were sent with.
THEOREM InputsArriveAsSent ==
  ASSUME OneChunkedCall
  PROVE  StreamSpec => []InputsAsSent
<1>1. StreamInit => StreamInv
  BY StreamInitInv, StreamAssumption
<1>2. StreamInv /\ [StreamNext]_streamVars => StreamInv'
  BY StreamStep
<1>3. StreamInv => InputsAsSent
  BY DEF StreamInv
<1> QED
  BY <1>1, <1>2, <1>3, PTL DEF StreamSpec
=============================================================================
