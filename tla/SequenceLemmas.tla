--------------------------- MODULE SequenceLemmas ---------------------------
(***************************************************************************)
(* Facts about numbers and sequences that the proofs of several components *)
(* need: the least number of a set, what retain leaves of a sequence, and  *)
(* sequences that have a member once.  A fact about all sequences is       *)
(* proved by SequenceInduction, for the set of those it holds of; it rests *)
(* on a shortest sequence outside the set.                                 *)
(***************************************************************************)
EXTENDS Retain, SequencesExt, WellFoundedInduction, SequenceTheorems, FiniteSetTheorems, TLAPS

\* A set of numbers that is not empty has a least one.
LEMMA LeastExists ==
  ASSUME NEW S \in SUBSET Nat, S # {}
  PROVE  \E x \in S : \A n \in S : x <= n
<1> DEFINE Smaller == {p \in Nat \X Nat : p[1] < p[2]}
<1>1. IsWellFoundedOn(Smaller, Nat)
  BY NatLessThanWellFounded DEF OpToRel
<1>2. PICK x \in S : \A y \in S : <<y, x>> \notin Smaller
  <2> HIDE DEF Smaller
  <2>1. QED
    BY <1>1, WFMin
<1>3. ASSUME NEW y \in Nat, y < x PROVE <<y, x>> \in Smaller
  <2> DEFINE p == <<y, x>>
  <2>1. p \in Nat \X Nat /\ p[1] = y /\ p[2] = x
    OBVIOUS
  <2>2. p[1] < p[2]
    BY <1>3, <2>1
  <2> HIDE DEF p
  <2>3. p \in Smaller
    BY <2>1, <2>2
  <2>4. QED
    BY <2>3 DEF p
<1> HIDE DEF Smaller
<1>4. ASSUME NEW y \in S PROVE x <= y
  <2>1. ~ (y < x)
    BY <1>2, <1>3
  <2>2. QED
    BY <2>1
<1>5. QED
  BY <1>4

\* The least number of a set is in it.
LEMMA LeastOf ==
  ASSUME NEW S \in SUBSET Nat, S # {}
  PROVE  Min(S) \in S /\ \A n \in S : Min(S) <= n
BY LeastExists DEF Min

\* Values given one by one, each from the one before.
Stepwise(N, S, b, g) == {f \in [0 .. N -> S] : f[0] = b /\ \A n \in 1 .. N : f[n] = g[n][f[n - 1]]}

LEMMA StepwiseExists ==
  ASSUME NEW N \in Nat, NEW S, NEW b \in S, NEW g \in [1 .. N -> [S -> S]]
  PROVE  Stepwise(N, S, b, g) # {}
<1> DEFINE Solves(f, k) == f \in [0 .. k -> S] /\ f[0] = b /\ \A n \in 1 .. k : f[n] = g[n][f[n - 1]]
           Unsolved == {k \in 0 .. N : ~ \E f : Solves(f, k)}
<1>0. ASSUME Unsolved = {} PROVE Stepwise(N, S, b, g) # {}
  <2>1. N \in 0 .. N /\ N \notin Unsolved
    BY <1>0
  <2>2. PICK f : Solves(f, N)
    BY <2>1
  <2>3. f \in Stepwise(N, S, b, g)
    BY <2>2 DEF Stepwise
  <2> QED
    BY <2>3
<1>1. SUFFICES ASSUME Unsolved # {} PROVE FALSE
  <2> HIDE DEF Unsolved
  <2> QED
    BY <1>0
<1>2. PICK k \in Unsolved : \A n \in Unsolved : k <= n
  <2>1. Unsolved \in SUBSET Nat
    OBVIOUS
  <2> HIDE DEF Unsolved
  <2> QED
    BY <1>1, <2>1, LeastExists
<1>3. k \in 0 .. N /\ ~ \E f : Solves(f, k)
  BY <1>2
<1>4. k # 0
  <2>1. Solves([n \in 0 .. 0 |-> b], 0)
    OBVIOUS
  <2> QED
    BY <1>3, <2>1
<1>5. k - 1 \in 0 .. N /\ k - 1 \notin Unsolved
  <2>1. k - 1 \in 0 .. N /\ ~ (k <= k - 1)
    BY <1>3, <1>4
  <2> HIDE DEF Unsolved
  <2> QED
    BY <1>2, <2>1
<1>6. PICK h : Solves(h, k - 1)
  BY <1>5
<1> DEFINE f == [n \in 0 .. k |-> IF n = k THEN g[k][h[k - 1]] ELSE h[n]]
<1>7. f[k] = g[k][h[k - 1]] /\ \A n \in 0 .. k - 1 : f[n] = h[n]
  BY <1>3
<1>8. \A n \in 0 .. k : f[n] \in S
  <2>1. g[k] \in [S -> S] /\ h[k - 1] \in S
    BY <1>3, <1>4, <1>6
  <2> QED
    BY <1>3, <1>6, <1>7, <2>1
<1>9. f \in [0 .. k -> S]
  BY <1>8
<1> HIDE DEF f
<1>10. ASSUME NEW n \in 1 .. k PROVE f[n] = g[n][f[n - 1]]
  <2>1. CASE n = k
    BY <1>3, <1>4, <1>7, <2>1
  <2>2. CASE n # k
    <3>1. n \in 1 .. k - 1 /\ n \in 0 .. k - 1 /\ n - 1 \in 0 .. k - 1
      BY <1>3, <2>2
    <3> QED
      BY <1>6, <1>7, <3>1
  <2> QED
    BY <2>1, <2>2
<1>11. f[0] = b
  BY <1>3, <1>4, <1>6, <1>7
<1> QED
  BY <1>3, <1>9, <1>10, <1>11

-----------------------------------------------------------------------------
(* What retain leaves.                                                      *)

\* The recursion of Kept has a solution for every sequence.
LEMMA KeptDef ==
  ASSUME NEW s, Len(s) \in Nat, NEW S
  PROVE  /\ Kept(s, S)[0] = <<>>
         /\ \A n \in 1 .. Len(s) :
              Kept(s, S)[n] = IF s[n] \in S THEN Append(Kept(s, S)[n - 1], s[n]) ELSE Kept(s, S)[n - 1]
<1> DEFINE Then(v, n) == IF s[n] \in S THEN Append(v, s[n]) ELSE v
           Step(f, n) == IF n = 0 THEN <<>> ELSE Then(f[n - 1], n)
           Solves(f, N) == f = [n \in 0 .. N |-> f[n]] /\ \A n \in 0 .. N : f[n] = Step(f, n)
           Unsolved == {N \in Nat : ~ \E f : Solves(f, N)}
<1> HIDE DEF Then
<1>1. Unsolved = {}
  <2>1. SUFFICES ASSUME Unsolved # {} PROVE FALSE
    OBVIOUS
  <2>2. PICK N \in Unsolved : \A n \in Unsolved : N <= n
    <3>1. Unsolved \in SUBSET Nat
      OBVIOUS
    <3> HIDE DEF Unsolved
    <3>2. QED
      BY <2>1, <3>1, LeastExists
  <2>3. N \in Nat /\ ~ \E f : Solves(f, N)
    BY <2>2
  <2>4. CASE N = 0
    <3> DEFINE f == [n \in 0 .. 0 |-> <<>>]
    <3>1. Solves(f, 0)
      OBVIOUS
    <3>2. QED
      BY <2>3, <2>4, <3>1
  <2>5. CASE N # 0
    <3>1. N - 1 \in Nat /\ N - 1 \notin Unsolved
      <4>1. N - 1 \in Nat /\ ~ (N <= N - 1)
        BY <2>3, <2>5
      <4> HIDE DEF Unsolved
      <4>2. QED
        BY <2>2, <4>1
    <3>2. PICK g : Solves(g, N - 1)
      BY <3>1
    <3> DEFINE f == [n \in 0 .. N |-> IF n = N THEN Then(g[N - 1], N) ELSE g[n]]
    <3>3. f = [n \in 0 .. N |-> f[n]] /\ f[N] = Then(g[N - 1], N)
      BY <2>3
    <3>4. \A n \in 0 .. (N - 1) : f[n] = g[n]
      BY <2>3
    <3>5. \A n \in 0 .. (N - 1) : g[n] = Step(g, n)
      BY <3>2
    <3> HIDE DEF f
    <3>6. \A n \in 0 .. N : f[n] = Step(f, n)
      <4> TAKE n \in 0 .. N
      <4>1. CASE n = N
        <5>1. f[N - 1] = g[N - 1]
          BY <2>3, <2>5, <3>4
        <5>2. QED
          BY <2>5, <3>3, <4>1, <5>1
      <4>2. CASE n # N
        <5>1. n \in 0 .. (N - 1) /\ (n # 0 => n - 1 \in 0 .. (N - 1))
          BY <2>3, <4>2
        <5>2. f[n] = g[n] /\ (n # 0 => f[n - 1] = g[n - 1])
          BY <3>4, <5>1
        <5>3. g[n] = Step(g, n)
          BY <3>5, <5>1
        <5>4. QED
          BY <5>2, <5>3
      <4>3. QED
        BY <4>1, <4>2
    <3>7. QED
      BY <2>3, <3>3, <3>6
  <2>6. QED
    BY <2>4, <2>5
<1>2. PICK f : Solves(f, Len(s))
  BY <1>1
<1> DEFINE Body(h, n) == IF n = 0 THEN <<>> ELSE IF s[n] \in S THEN Append(h[n - 1], s[n]) ELSE h[n - 1]
<1>3. \A h, n : Body(h, n) = Step(h, n)
  BY DEF Then
<1>4. Kept(s, S) = CHOOSE h : h = [n \in 0 .. Len(s) |-> Body(h, n)]
  BY DEF Kept
<1> HIDE DEF Body, Step
<1>5. f = [n \in 0 .. Len(s) |-> Body(f, n)]
  <2>1. \A n \in 0 .. Len(s) : f[n] = Body(f, n)
    BY <1>2, <1>3
  <2>2. [n \in 0 .. Len(s) |-> f[n]] = [n \in 0 .. Len(s) |-> Body(f, n)]
    BY <2>1
  <2>3. QED
    BY <1>2, <2>2
<1> DEFINE k == Kept(s, S)
<1>6. k = [n \in 0 .. Len(s) |-> Body(k, n)]
  BY <1>4, <1>5
<1> HIDE DEF k
<1>7. \A n \in 0 .. Len(s) : k[n] = Body(k, n)
  BY <1>6
<1>8. k[0] = Body(k, 0) /\ \A n \in 1 .. Len(s) : k[n] = Body(k, n)
  BY <1>7
<1>9. /\ k[0] = <<>>
      /\ \A n \in 1 .. Len(s) : k[n] = IF s[n] \in S THEN Append(k[n - 1], s[n]) ELSE k[n - 1]
  BY <1>8 DEF Body
<1>10. QED
  BY <1>9 DEF k

\* retain leaves nothing of nothing, and treats the last member as the others.
LEMMA KeepEmpty == ASSUME NEW S PROVE KeepOnly(<<>>, S) = <<>>
  BY KeptDef DEF KeepOnly

LEMMA KeepAppend ==
  ASSUME NEW T, NEW s \in Seq(T), NEW x \in T, NEW S
  PROVE  KeepOnly(Append(s, x), S) = IF x \in S THEN Append(KeepOnly(s, S), x) ELSE KeepOnly(s, S)
<1> DEFINE t == Append(s, x)
<1>1. /\ Len(s) \in Nat /\ t \in Seq(T) /\ Len(t) = Len(s) + 1 /\ t[Len(s) + 1] = x
      /\ \A i \in 1 .. Len(s) : t[i] = s[i]
  BY AppendProperties
<1> HIDE DEF t
<1> DEFINE Differ == {n \in 0 .. Len(s) : Kept(t, S)[n] # Kept(s, S)[n]}
<1>2. Differ = {}
  <2>1. SUFFICES ASSUME Differ # {} PROVE FALSE
    OBVIOUS
  <2>2. PICK N \in Differ : \A n \in Differ : N <= n
    <3>1. Differ \in SUBSET Nat
      BY <1>1
    <3> HIDE DEF Differ
    <3>2. QED
      BY <2>1, <3>1, LeastExists
  <2>3. N \in 0 .. Len(s) /\ Kept(t, S)[N] # Kept(s, S)[N]
    BY <2>2
  <2>4. N # 0
    BY <1>1, <2>3, KeptDef
  <2>5. N - 1 \in 0 .. Len(s) /\ N - 1 \notin Differ
    BY <1>1, <2>2, <2>3, <2>4
  <2>6. Kept(t, S)[N - 1] = Kept(s, S)[N - 1]
    BY <2>5
  <2>7. N \in 1 .. Len(s) /\ N \in 1 .. Len(t)
    BY <1>1, <2>3, <2>4
  <2>8. Kept(t, S)[N] = Kept(s, S)[N]
    <3>1. Kept(s, S)[N] = IF s[N] \in S THEN Append(Kept(s, S)[N - 1], s[N]) ELSE Kept(s, S)[N - 1]
      BY <1>1, <2>7, KeptDef
    <3>2. Kept(t, S)[N] = IF t[N] \in S THEN Append(Kept(t, S)[N - 1], t[N]) ELSE Kept(t, S)[N - 1]
      BY <1>1, <2>7, KeptDef
    <3>3. QED
      BY <1>1, <2>6, <2>7, <3>1, <3>2
  <2>9. QED
    BY <2>3, <2>8
<1>3. Kept(t, S)[Len(s)] = Kept(s, S)[Len(s)]
  BY <1>1, <1>2
<1>4. Kept(t, S)[Len(t)] = IF x \in S THEN Append(Kept(t, S)[Len(s)], x) ELSE Kept(t, S)[Len(s)]
  <2>1. Len(t) \in 1 .. Len(t) /\ t[Len(t)] = x /\ Len(t) - 1 = Len(s)
    BY <1>1
  <2>2. QED
    BY <1>1, <2>1, KeptDef
<1>5. QED
  BY <1>3, <1>4 DEF KeepOnly, t

\* In a set of sequences that is not empty there is a shortest one; it is
\* empty, or one longer than a sequence that is not in the set.
LEMMA ShortestOf ==
  ASSUME NEW T, NEW Bad \in SUBSET Seq(T), Bad # {}
  PROVE  \/ <<>> \in Bad
         \/ \E s \in Seq(T) \ Bad, x \in T : Append(s, x) \in Bad
<1> DEFINE Lengths == {Len(s) : s \in Bad}
<1>1. Lengths \in SUBSET Nat /\ Lengths # {}
  <2>1. \A s \in Bad : Len(s) \in Nat /\ Len(s) \in Lengths
    OBVIOUS
  <2>2. Lengths \in SUBSET Nat
    BY <2>1
  <2>3. PICK s \in Bad : TRUE
    OBVIOUS
  <2>4. QED
    BY <2>1, <2>2, <2>3
<1>2. PICK N \in Lengths : \A n \in Lengths : N <= n
  <2> HIDE DEF Lengths
  <2>1. QED
    BY <1>1, LeastExists
<1>3. PICK b \in Bad : N = Len(b)
  BY <1>2
<1>4. CASE b = <<>>
  BY <1>4
<1>5. CASE b # <<>>
  <2>1. PICK s \in Seq(T), x \in T : b = Append(s, x)
    BY <1>5, SequenceEmptyOrAppend
  <2>2. Len(b) = Len(s) + 1 /\ Len(s) \in Nat
    BY <2>1, AppendProperties
  <2>3. s \notin Bad
    <3>1. SUFFICES ASSUME s \in Bad PROVE FALSE
      OBVIOUS
    <3>2. Len(s) \in Lengths
      BY <3>1
    <3>3. N <= Len(s)
      BY <1>2, <3>2
    <3>4. QED
      BY <1>3, <2>2, <3>3
  <2>4. QED
    BY <2>1, <2>3
<1>6. QED
  BY <1>4, <1>5

\* A set that has the empty sequence, and with a sequence what comes of it by
\* appending, has all sequences.
LEMMA SequenceInduction ==
  ASSUME NEW T, NEW Good, <<>> \in Good,
         \A s \in Seq(T) \cap Good, x \in T : Append(s, x) \in Good
  PROVE  Seq(T) \subseteq Good
<1> DEFINE Bad == Seq(T) \ Good
<1>1. SUFFICES ASSUME Bad # {} PROVE FALSE
  OBVIOUS
<1>2. Bad \in SUBSET Seq(T) /\ <<>> \notin Bad
  OBVIOUS
<1>3. \A s \in Seq(T) \ Bad, x \in T : Append(s, x) \notin Bad
  OBVIOUS
<1> HIDE DEF Bad
<1>4. QED
  BY <1>1, <1>2, <1>3, ShortestOf

\* The members of a sequence and of the same with one more at its end.
LEMMA AppendRange ==
  ASSUME NEW T, NEW s \in Seq(T), NEW x \in T
  PROVE  Append(s, x) \in Seq(T) /\ Range(Append(s, x)) = Range(s) \cup {x}
<1>1. /\ Append(s, x) \in Seq(T) /\ Len(Append(s, x)) = Len(s) + 1 /\ Len(s) \in Nat
      /\ \A i \in 1 .. Len(s) : Append(s, x)[i] = s[i]
      /\ Append(s, x)[Len(s) + 1] = x
  BY AppendProperties
<1>2. DOMAIN s = 1 .. Len(s) /\ DOMAIN Append(s, x) = 1 .. (Len(s) + 1)
  BY <1>1
<1>3. QED
  BY <1>1, <1>2 DEF Range

LEMMA EmptyRange == Range(<<>>) = {}
  BY DEF Range

\* The members of a sequence and of its tail.
LEMMA TailRange ==
  ASSUME NEW T, NEW q \in Seq(T), q # <<>>
  PROVE  /\ Head(q) \in T /\ Tail(q) \in Seq(T) /\ Head(q) = q[1] /\ Head(q) \in Range(q)
         /\ Range(Tail(q)) \subseteq Range(q) /\ Range(q) \subseteq {Head(q)} \cup Range(Tail(q))
<1>1. Len(q) \in Nat \ {0} /\ DOMAIN q = 1..Len(q)
  BY EmptySeq
<1>2. /\ Head(q) \in T /\ Tail(q) \in Seq(T) /\ Len(Tail(q)) = Len(q) - 1
      /\ \A i \in 1..Len(Tail(q)) : Tail(q)[i] = q[i + 1]
  BY HeadTailProperties
<1>3. Head(q) = q[1]
  OBVIOUS
<1>4. DOMAIN Tail(q) = 1..(Len(q) - 1)
  BY <1>2
<1>5. \A i \in DOMAIN q : q[i] \in {Head(q)} \cup Range(Tail(q))
  <2> TAKE i \in DOMAIN q
  <2>1. CASE i = 1
    BY <1>3, <2>1
  <2>2. CASE i # 1
    <3>1. i - 1 \in DOMAIN Tail(q) /\ Tail(q)[i - 1] = q[i]
      BY <1>1, <1>2, <1>4, <2>2
    <3>2. QED
      BY <3>1 DEF Range
  <2>3. QED
    BY <2>1, <2>2
<1>6. \A i \in DOMAIN Tail(q) : Tail(q)[i] \in Range(q)
  BY <1>1, <1>2, <1>4 DEF Range
<1>7. Range(Tail(q)) \subseteq Range(q)
  <2> SUFFICES ASSUME NEW y \in Range(Tail(q)) PROVE y \in Range(q)
    OBVIOUS
  <2>1. PICK i \in DOMAIN Tail(q) : y = Tail(q)[i]
    BY DEF Range
  <2>2. QED
    BY <1>6, <2>1
<1>8. Range(q) \subseteq {Head(q)} \cup Range(Tail(q))
  BY <1>5 DEF Range
<1>9. Head(q) \in Range(q)
  BY <1>1, <1>3 DEF Range
<1>10. QED
  BY <1>2, <1>3, <1>7, <1>8, <1>9

\* retain leaves a sequence of what it is of, with the members asked for.
LEMMA KeepRange ==
  ASSUME NEW T, NEW S
  PROVE  \A s \in Seq(T) : KeepOnly(s, S) \in Seq(T) /\ Range(KeepOnly(s, S)) = Range(s) \cap S
<1> DEFINE Fine(s) == KeepOnly(s, S) \in Seq(T) /\ Range(KeepOnly(s, S)) = Range(s) \cap S
           Good == {s \in Seq(T) : Fine(s)}
<1>2. Fine(<<>>)
  <2>1. KeepOnly(<<>>, S) = <<>> /\ <<>> \in Seq(T)
    BY KeepEmpty
  <2>2. Range(<<>>) = {}
    BY EmptyRange
  <2>3. QED
    BY <2>1, <2>2
<1>3. ASSUME NEW s \in Seq(T), NEW x \in T, Fine(s) PROVE Fine(Append(s, x))
  <2>1. Range(Append(s, x)) = Range(s) \cup {x}
    BY AppendRange
  <2>2. KeepOnly(Append(s, x), S) = IF x \in S THEN Append(KeepOnly(s, S), x) ELSE KeepOnly(s, S)
    BY KeepAppend
  <2>3. CASE x \in S
    <3>1. /\ Append(KeepOnly(s, S), x) \in Seq(T)
          /\ Range(Append(KeepOnly(s, S), x)) = Range(KeepOnly(s, S)) \cup {x}
      BY <1>3, AppendRange
    <3>2. QED
      BY <1>3, <2>1, <2>2, <2>3, <3>1
  <2>4. CASE x \notin S
    BY <1>3, <2>1, <2>2, <2>4
  <2>5. QED
    BY <2>3, <2>4
<1> HIDE DEF Fine
<1>4. <<>> \in Good /\ \A s \in Seq(T) \cap Good, x \in T : Append(s, x) \in Good
  BY <1>2, <1>3, AppendProperties
<1> HIDE DEF Good
<1>5. Seq(T) \subseteq Good
  BY <1>4, SequenceInduction
<1>6. QED
  BY <1>5 DEF Good, Fine

\* What is left is in the same order: to keep some and then some of those is
\* to keep those in both.
LEMMA KeepAgain ==
  ASSUME NEW T, NEW S, NEW R
  PROVE  \A s \in Seq(T) : KeepOnly(KeepOnly(s, S), R) = KeepOnly(s, S \cap R)
<1> DEFINE Fine(s) == KeepOnly(KeepOnly(s, S), R) = KeepOnly(s, S \cap R)
           Good == {s \in Seq(T) : Fine(s)}
<1>2. Fine(<<>>)
  BY KeepEmpty
<1>3. ASSUME NEW s \in Seq(T), NEW x \in T, Fine(s) PROVE Fine(Append(s, x))
  <2>1. KeepOnly(s, S) \in Seq(T)
    BY KeepRange
  <2>2. KeepOnly(Append(s, x), S) = IF x \in S THEN Append(KeepOnly(s, S), x) ELSE KeepOnly(s, S)
    BY KeepAppend
  <2>3. KeepOnly(Append(s, x), S \cap R) =
          IF x \in S \cap R THEN Append(KeepOnly(s, S \cap R), x) ELSE KeepOnly(s, S \cap R)
    BY KeepAppend
  <2>4. KeepOnly(Append(KeepOnly(s, S), x), R) =
          IF x \in R THEN Append(KeepOnly(KeepOnly(s, S), R), x) ELSE KeepOnly(KeepOnly(s, S), R)
    BY <2>1, KeepAppend
  <2>5. CASE x \in S /\ x \in R
    BY <1>3, <2>2, <2>3, <2>4, <2>5
  <2>6. CASE x \in S /\ x \notin R
    BY <1>3, <2>2, <2>3, <2>4, <2>6
  <2>7. CASE x \notin S
    BY <1>3, <2>2, <2>3, <2>7
  <2>8. QED
    BY <2>5, <2>6, <2>7
<1> HIDE DEF Fine
<1>4. <<>> \in Good /\ \A s \in Seq(T) \cap Good, x \in T : Append(s, x) \in Good
  BY <1>2, <1>3, AppendProperties
<1> HIDE DEF Good
<1>5. Seq(T) \subseteq Good
  BY <1>4, SequenceInduction
<1>6. QED
  BY <1>5 DEF Good, Fine

\* A sequence all of whose members are kept is the same.
LEMMA KeepAll ==
  ASSUME NEW T, NEW S
  PROVE  \A s \in Seq(T) : Range(s) \subseteq S => KeepOnly(s, S) = s
<1> DEFINE Fine(s) == Range(s) \subseteq S => KeepOnly(s, S) = s
           Good == {s \in Seq(T) : Fine(s)}
<1>2. Fine(<<>>)
  BY KeepEmpty
<1>3. ASSUME NEW s \in Seq(T), NEW x \in T, Fine(s) PROVE Fine(Append(s, x))
  BY <1>3, AppendRange, KeepAppend
<1> HIDE DEF Fine
<1>4. <<>> \in Good /\ \A s \in Seq(T) \cap Good, x \in T : Append(s, x) \in Good
  BY <1>2, <1>3, AppendProperties
<1> HIDE DEF Good
<1>5. Seq(T) \subseteq Good
  BY <1>4, SequenceInduction
<1>6. QED
  BY <1>5 DEF Good, Fine

-----------------------------------------------------------------------------
(* Sequences in which a member is once.                                     *)

LEMMA AppendOnce ==
  ASSUME NEW T, NEW s \in Seq(T), NEW x \in T
  PROVE  IsInjective(Append(s, x)) <=> IsInjective(s) /\ x \notin Range(s)
<1> DEFINE t == Append(s, x)
<1>1. /\ Len(s) \in Nat /\ t \in Seq(T) /\ t[Len(s) + 1] = x
      /\ DOMAIN s = 1 .. Len(s) /\ DOMAIN t = 1 .. (Len(s) + 1)
      /\ \A i \in 1 .. Len(s) : t[i] = s[i]
  BY AppendProperties
<1> DEFINE n == Len(s)
<1> HIDE DEF t, n
<1>2. \A i \in 1 .. (n + 1) : i = n + 1 \/ i \in 1 .. n
  BY <1>1 DEF n
<1>3. \A i \in 1 .. n : i \in 1 .. (n + 1) /\ i # n + 1
  BY <1>1 DEF n
<1>4. n + 1 \in 1 .. (n + 1)
  BY <1>1 DEF n
<1>5. ASSUME IsInjective(t) PROVE IsInjective(s) /\ x \notin Range(s)
  <2>1. \A i, j \in 1 .. n : s[i] = s[j] => i = j
    BY <1>1, <1>3, <1>5 DEF IsInjective, n
  <2>2. \A i \in 1 .. n : s[i] # x
    BY <1>1, <1>3, <1>4, <1>5 DEF IsInjective, n
  <2>3. QED
    BY <1>1, <2>1, <2>2 DEF IsInjective, Range, n
<1>6. ASSUME IsInjective(s), x \notin Range(s) PROVE IsInjective(t)
  <2>1. \A i \in 1 .. n : t[i] = s[i] /\ t[i] # x
    BY <1>1, <1>6 DEF Range, n
  <2>2. t[n + 1] = x /\ \A i, j \in 1 .. n : s[i] = s[j] => i = j
    BY <1>1, <1>6 DEF IsInjective, n
  <2>3. \A i, j \in 1 .. (n + 1) : t[i] = t[j] => i = j
    BY <1>2, <2>1, <2>2
  <2>4. QED
    BY <1>1, <2>3 DEF IsInjective, n
<1>7. QED
  BY <1>5, <1>6 DEF t

\* It is as long as it has members.
LEMMA OnceLength ==
  ASSUME NEW T
  PROVE  \A s \in Seq(T) : IsInjective(s) => IsFiniteSet(Range(s)) /\ Cardinality(Range(s)) = Len(s)
<1> DEFINE Good == {s \in Seq(T) : IsInjective(s) => IsFiniteSet(Range(s)) /\ Cardinality(Range(s)) = Len(s)}
<1>1. <<>> \in Good
  BY EmptyRange, FS_EmptySet
<1>2. ASSUME NEW s \in Seq(T) \cap Good, NEW x \in T PROVE Append(s, x) \in Good
  <2> SUFFICES ASSUME IsInjective(Append(s, x))
               PROVE  IsFiniteSet(Range(Append(s, x))) /\ Cardinality(Range(Append(s, x))) = Len(Append(s, x))
    BY AppendProperties
  <2>1. IsInjective(s) /\ x \notin Range(s)
    BY AppendOnce
  <2>2. Range(Append(s, x)) = Range(s) \cup {x}
    BY AppendRange
  <2>3. IsFiniteSet(Range(s)) /\ Cardinality(Range(s)) = Len(s) /\ Len(Append(s, x)) = Len(s) + 1
    BY <2>1, AppendProperties
  <2>4. Cardinality(Range(s) \cup {x}) = Cardinality(Range(s)) + 1 /\ IsFiniteSet(Range(s) \cup {x})
    BY <2>1, <2>3, FS_AddElement
  <2>5. QED
    BY <2>2, <2>3, <2>4
<1>3. \A s \in Seq(T) \cap Good, x \in T : Append(s, x) \in Good
  BY <1>2
<1> HIDE DEF Good
<1>4. Seq(T) \subseteq Good
  BY <1>1, <1>3, SequenceInduction
<1>5. QED
  BY <1>4 DEF Good

\* retain leaves each once.
LEMMA KeepOnce ==
  ASSUME NEW T, NEW S
  PROVE  \A s \in Seq(T) : IsInjective(s) => IsInjective(KeepOnly(s, S))
<1> DEFINE Good == {s \in Seq(T) : IsInjective(s) => IsInjective(KeepOnly(s, S))}
<1>1. <<>> \in Good
  BY KeepEmpty
<1>2. ASSUME NEW s \in Seq(T) \cap Good, NEW x \in T PROVE Append(s, x) \in Good
  <2> SUFFICES ASSUME IsInjective(Append(s, x)) PROVE IsInjective(KeepOnly(Append(s, x), S))
    BY AppendProperties
  <2>1. IsInjective(s) /\ x \notin Range(s)
    BY AppendOnce
  <2>2. /\ KeepOnly(s, S) \in Seq(T) /\ x \notin Range(KeepOnly(s, S))
        /\ IsInjective(KeepOnly(s, S))
    BY <2>1, KeepRange
  <2>3. KeepOnly(Append(s, x), S) = IF x \in S THEN Append(KeepOnly(s, S), x) ELSE KeepOnly(s, S)
    BY KeepAppend
  <2>4. QED
    BY <2>2, <2>3, AppendOnce
<1>3. \A s \in Seq(T) \cap Good, x \in T : Append(s, x) \in Good
  BY <1>2
<1> HIDE DEF Good
<1>4. Seq(T) \subseteq Good
  BY <1>1, <1>3, SequenceInduction
<1>5. QED
  BY <1>4 DEF Good

\* To keep all but the first is to take the tail.
LEMMA KeepTail ==
  ASSUME NEW T, NEW S
  PROVE  \A s \in Seq(T) :
           s # <<>> /\ IsInjective(s) /\ Head(s) \notin S /\ Range(s) \subseteq S \cup {Head(s)} => KeepOnly(s, S) = Tail(s)
<1> DEFINE Fits(s) == s # <<>> /\ IsInjective(s) /\ Head(s) \notin S /\ Range(s) \subseteq S \cup {Head(s)}
           Good == {s \in Seq(T) : Fits(s) => KeepOnly(s, S) = Tail(s)}
<1>1. <<>> \in Good
  OBVIOUS
<1>2. ASSUME NEW s \in Seq(T) \cap Good, NEW x \in T PROVE Append(s, x) \in Good
  <2> SUFFICES ASSUME Fits(Append(s, x)) PROVE KeepOnly(Append(s, x), S) = Tail(Append(s, x))
    BY AppendProperties
  <2>1. IsInjective(s) /\ x \notin Range(s) /\ Range(Append(s, x)) = Range(s) \cup {x}
    BY AppendOnce, AppendRange
  <2>2. KeepOnly(Append(s, x), S) = IF x \in S THEN Append(KeepOnly(s, S), x) ELSE KeepOnly(s, S)
    BY KeepAppend
  <2>3. CASE s = <<>>
    <3>1. Head(Append(s, x)) = x /\ Tail(Append(s, x)) = <<>>
      BY <2>3, HeadTailAppend
    <3>2. QED
      BY <2>2, <2>3, <3>1, KeepEmpty
  <2>4. CASE s # <<>>
    <3>1. Head(Append(s, x)) = Head(s) /\ Tail(Append(s, x)) = Append(Tail(s), x)
      BY <2>4, HeadTailAppend
    <3>2. Head(s) \in Range(s)
      BY <2>4, TailRange
    <3>3. Fits(s) /\ x \in S
      BY <2>1, <2>4, <3>1, <3>2
    <3>4. KeepOnly(s, S) = Tail(s)
      BY <3>3
    <3>5. QED
      BY <2>2, <3>1, <3>3, <3>4
  <2>5. QED
    BY <2>3, <2>4
<1>3. \A s \in Seq(T) \cap Good, x \in T : Append(s, x) \in Good
  BY <1>2
<1> HIDE DEF Good
<1>4. Seq(T) \subseteq Good
  BY <1>1, <1>3, SequenceInduction
<1>5. QED
  BY <1>4 DEF Good

\* Two sets that have the same members of a sequence leave the same of it.
LEMMA KeepSame ==
  ASSUME NEW T, NEW s \in Seq(T), NEW S, NEW R, Range(s) \cap S = Range(s) \cap R
  PROVE  KeepOnly(s, S) = KeepOnly(s, R)
<1>1. KeepOnly(s, Range(s)) = s
  BY KeepAll
<1>2. /\ KeepOnly(KeepOnly(s, Range(s)), S) = KeepOnly(s, Range(s) \cap S)
      /\ KeepOnly(KeepOnly(s, Range(s)), R) = KeepOnly(s, Range(s) \cap R)
  BY KeepAgain
<1>3. QED
  BY <1>1, <1>2

\* What heads a sequence heads what is kept of it, if it is kept.
LEMMA KeepHead ==
  ASSUME NEW T, NEW S
  PROVE  \A s \in Seq(T) : s # <<>> /\ Head(s) \in S => KeepOnly(s, S) # <<>> /\ Head(KeepOnly(s, S)) = Head(s)
<1> DEFINE Fine(s) == s # <<>> /\ Head(s) \in S => KeepOnly(s, S) # <<>> /\ Head(KeepOnly(s, S)) = Head(s)
           Good == {s \in Seq(T) : Fine(s)}
<1>1. <<>> \in Good
  OBVIOUS
<1>2. ASSUME NEW s \in Seq(T) \cap Good, NEW x \in T PROVE Append(s, x) \in Good
  <2> DEFINE t == Append(s, x)
             k == KeepOnly(s, S)
  <2>1. t \in Seq(T) /\ t # <<>> /\ Len(t) = Len(s) + 1 /\ t[Len(s) + 1] = x /\ Head(t) = t[1]
        /\ \A i \in 1 .. Len(s) : t[i] = s[i]
    BY AppendProperties, HeadTailProperties
  <2>2. k \in Seq(T)
    BY KeepRange
  <2>3. KeepOnly(t, S) = IF x \in S THEN Append(k, x) ELSE k
    BY KeepAppend
  <2>4. CASE s = <<>>
    <3>1. Head(t) = x /\ k = <<>>
      BY <2>1, <2>4, KeepEmpty
    <3>2. Head(Append(k, x)) = x /\ Append(k, x) # <<>>
      BY <3>1
    <3> QED
      BY <2>1, <2>3, <3>1, <3>2
  <2>5. CASE s # <<>>
    <3>1. Head(t) = Head(s)
      BY <2>1, <2>5
    <3>2. Head(s) \in S => k # <<>> /\ Head(k) = Head(s)
      BY <2>5
    <3>3. k # <<>> => Append(k, x) # <<>> /\ Head(Append(k, x)) = Head(k)
      <4>1. SUFFICES ASSUME k # <<>> PROVE Append(k, x) # <<>> /\ Head(Append(k, x)) = Head(k)
        OBVIOUS
      <4> HIDE DEF k
      <4>2. Len(k) \in Nat /\ Len(k) # 0 /\ Head(k) = k[1]
        BY <2>2, <4>1, EmptySeq, HeadTailProperties
      <4>3. Append(k, x) \in Seq(T) /\ Len(Append(k, x)) = Len(k) + 1 /\ Append(k, x)[1] = k[1]
        BY <2>2, <4>2, AppendProperties
      <4> QED
        BY <4>2, <4>3, EmptySeq, HeadTailProperties
    <3> HIDE DEF k
    <3> QED
      BY <2>1, <2>3, <3>1, <3>2, <3>3
  <2> QED
    BY <2>4, <2>5
<1> HIDE DEF Good
<1>3. Seq(T) \subseteq Good
  BY <1>1, <1>2, SequenceInduction
<1> QED
  BY <1>3 DEF Good

\* What is kept of a sequence with another behind it.
LEMMA KeepConcat ==
  ASSUME NEW T, NEW S, NEW s \in Seq(T)
  PROVE  \A u \in Seq(T) : KeepOnly(s \o u, S) = KeepOnly(s, S) \o KeepOnly(u, S)
<1> DEFINE Good == {u \in Seq(T) : KeepOnly(s \o u, S) = KeepOnly(s, S) \o KeepOnly(u, S)}
           k == KeepOnly(s, S)
<1>0. k \in Seq(T)
  BY KeepRange
<1>1. <<>> \in Good
  <2>1. s \o <<>> = s /\ k \o <<>> = k
    BY <1>0
  <2>2. KeepOnly(<<>>, S) = <<>>
    BY KeepEmpty
  <2>3. KeepOnly(s \o <<>>, S) = k \o KeepOnly(<<>>, S)
    BY <2>1, <2>2
  <2> QED
    BY <2>3
<1>2. ASSUME NEW u \in Seq(T) \cap Good, NEW x \in T PROVE Append(u, x) \in Good
  <2> DEFINE h == KeepOnly(u, S)
  <2>1. h \in Seq(T) /\ Append(u, x) \in Seq(T) /\ s \o u \in Seq(T)
    BY KeepRange
  <2>2. s \o Append(u, x) = Append(s \o u, x)
    OBVIOUS
  <2>3. KeepOnly(Append(s \o u, x), S) = IF x \in S THEN Append(KeepOnly(s \o u, S), x) ELSE KeepOnly(s \o u, S)
    <3> DEFINE w == s \o u
    <3>1. w \in Seq(T)
      BY <2>1
    <3> HIDE DEF w
    <3>2. KeepOnly(Append(w, x), S) = IF x \in S THEN Append(KeepOnly(w, S), x) ELSE KeepOnly(w, S)
      BY <3>1, KeepAppend
    <3> QED
      BY <3>2 DEF w
  <2>4. KeepOnly(Append(u, x), S) = IF x \in S THEN Append(h, x) ELSE h
    BY KeepAppend
  <2>5. KeepOnly(s \o u, S) = k \o h
    OBVIOUS
  <2>6. k \o Append(h, x) = Append(k \o h, x)
    BY <1>0, <2>1
  <2> HIDE DEF k, h
  <2>7. KeepOnly(s \o Append(u, x), S) = k \o KeepOnly(Append(u, x), S)
    BY <2>2, <2>3, <2>4, <2>5, <2>6
  <2> QED
    BY <2>1, <2>7 DEF k
<1> HIDE DEF Good
<1>3. Seq(T) \subseteq Good
  BY <1>1, <1>2, SequenceInduction
<1> QED
  BY <1>3 DEF Good

\* The head and the members of two sequences put together.
LEMMA ConcatHead ==
  ASSUME NEW T, NEW a \in Seq(T), NEW b \in Seq(T)
  PROVE  /\ a \o b \in Seq(T) /\ Range(a \o b) = Range(a) \cup Range(b)
         /\ a # <<>> => a \o b # <<>> /\ Head(a \o b) = Head(a)
         /\ a = <<>> => a \o b = b
<1> DEFINE c == a \o b
<1>1. /\ c \in Seq(T) /\ Len(c) = Len(a) + Len(b) /\ Len(a) \in Nat /\ Len(b) \in Nat
      /\ DOMAIN a = 1 .. Len(a) /\ DOMAIN b = 1 .. Len(b) /\ DOMAIN c = 1 .. Len(c)
      /\ \A i \in 1 .. Len(a) : c[i] = a[i]
      /\ \A i \in 1 .. Len(b) : c[Len(a) + i] = b[i]
  BY ConcatProperties
<1>2. a = <<>> => c = b
  OBVIOUS
<1>3. a # <<>> => Len(a) # 0 /\ Head(a) = a[1]
  BY EmptySeq, HeadTailProperties
<1>4. Len(c) # 0 => c # <<>> /\ Head(c) = c[1]
  BY <1>1, EmptySeq, HeadTailProperties
<1> HIDE DEF c
<1>5. a # <<>> => c # <<>> /\ Head(c) = Head(a)
  BY <1>1, <1>3, <1>4
<1>6. Range(c) \subseteq Range(a) \cup Range(b)
  <2>1. ASSUME NEW i \in 1 .. Len(c) PROVE c[i] \in Range(a) \cup Range(b)
    <3>1. CASE i \in 1 .. Len(a)
      BY <1>1, <3>1 DEF Range
    <3>2. CASE i \notin 1 .. Len(a)
      <4>1. i - Len(a) \in 1 .. Len(b) /\ Len(a) + (i - Len(a)) = i
        BY <1>1, <3>2
      <4>2. c[i] = b[i - Len(a)]
        BY <1>1, <4>1
      <4> QED
        BY <1>1, <4>1, <4>2 DEF Range
    <3> QED
      BY <3>1, <3>2
  <2> QED
    BY <1>1, <2>1 DEF Range
<1>7. Range(a) \cup Range(b) \subseteq Range(c)
  <2>1. ASSUME NEW i \in 1 .. Len(a) PROVE a[i] \in Range(c)
    BY <1>1 DEF Range
  <2>2. ASSUME NEW i \in 1 .. Len(b) PROVE b[i] \in Range(c)
    <3>1. Len(a) + i \in 1 .. Len(c) /\ c[Len(a) + i] = b[i]
      BY <1>1
    <3> QED
      BY <1>1, <3>1 DEF Range
  <2> QED
    BY <1>1, <2>1, <2>2 DEF Range
<1> QED
  BY <1>1, <1>2, <1>5, <1>6, <1>7 DEF c

\* A sequence that is another one and a member more.
LEMMA AppendIs ==
  ASSUME NEW T, NEW s \in Seq(T), NEW x \in T, NEW t \in Seq(T),
         Len(t) = Len(s) + 1, \A i \in 1 .. Len(s) : t[i] = s[i], t[Len(s) + 1] = x
  PROVE  t = Append(s, x)
<1> DEFINE a == Append(s, x)
           n == Len(s)
<1>1. /\ n \in Nat /\ a \in Seq(T) /\ Len(a) = n + 1 /\ a[n + 1] = x
      /\ \A i \in 1 .. n : a[i] = s[i]
  BY AppendProperties
<1> HIDE DEF a
<1>2. a = [i \in 1 .. n + 1 |-> a[i]]
  BY <1>1
<1> HIDE DEF n
<1>3. \A i \in 1 .. n + 1 : t[i] = a[i]
  <2>1. \A i \in 1 .. n + 1 : i \in 1 .. n \/ i = n + 1
    BY <1>1
  <2> QED
    BY <1>1, <2>1 DEF n
<1>4. t = [i \in 1 .. n + 1 |-> t[i]]
  <2>1. t = [i \in 1 .. Len(t) |-> t[i]]
    OBVIOUS
  <2> QED
    BY <2>1 DEF n
<1> QED
  BY <1>2, <1>3, <1>4 DEF a

\* Sequences one after the other, put together one by one.
LEMMA FlattenSteps ==
  ASSUME NEW T, NEW seqs \in Seq(Seq(T))
  PROVE  \E f \in [0 .. Len(seqs) -> Seq(T)] :
           /\ f[0] = <<>> /\ \A n \in 1 .. Len(seqs) : f[n] = f[n - 1] \o seqs[n]
           /\ FlattenSeq(seqs) = f[Len(seqs)]
<1> DEFINE N == Len(seqs)
           Body(f, i) == IF i = 1 THEN seqs[i] ELSE f[i - 1] \o seqs[i]
           flatten == CHOOSE f : f = [i \in 1 .. N |-> Body(f, i)]
<1>1. N \in Nat /\ \A i \in 1 .. N : seqs[i] \in Seq(T)
  OBVIOUS
<1>2. FlattenSeq(seqs) = IF N = 0 THEN <<>> ELSE flatten[N]
  <2>1. N = 0 => seqs = <<>>
    OBVIOUS
  <2> QED
    BY <2>1 DEF FlattenSeq
<1> HIDE DEF N
<1>3. PICK f \in [0 .. N -> Seq(T)] : f[0] = <<>> /\ \A n \in 1 .. N : f[n] = f[n - 1] \o seqs[n]
  <2> DEFINE g == [n \in 1 .. N |-> [x \in Seq(T) |-> x \o seqs[n]]]
  <2>1. \A n \in 1 .. N : [x \in Seq(T) |-> x \o seqs[n]] \in [Seq(T) -> Seq(T)]
    BY <1>1, ConcatProperties
  <2>2. g \in [1 .. N -> [Seq(T) -> Seq(T)]] /\ <<>> \in Seq(T)
    BY <2>1
  <2>3. \A n \in 1 .. N, x \in Seq(T) : g[n][x] = x \o seqs[n]
    OBVIOUS
  <2> HIDE DEF g
  <2>4. PICK f \in Stepwise(N, Seq(T), <<>>, g) : TRUE
    BY <1>1, <2>2, StepwiseExists
  <2>5. f \in [0 .. N -> Seq(T)] /\ f[0] = <<>> /\ \A n \in 1 .. N : f[n] = g[n][f[n - 1]]
    BY <2>4 DEF Stepwise
  <2>6. \A n \in 1 .. N : f[n - 1] \in Seq(T)
    BY <1>1, <2>5
  <2>7. \A n \in 1 .. N : f[n] = f[n - 1] \o seqs[n]
    BY <2>3, <2>5, <2>6
  <2> QED
    BY <2>5, <2>7
<1> DEFINE h == [i \in 1 .. N |-> f[i]]
<1>10. ASSUME NEW i \in 1 .. N, i = 1 PROVE f[i] = seqs[i]
  <2>1. f[1] = <<>> \o seqs[1] /\ seqs[1] \in Seq(T)
    <3>1. 1 \in 1 .. N /\ 1 - 1 = 0
      BY <1>1, <1>10
    <3> QED
      BY <1>1, <1>3, <3>1
  <2>2. <<>> \o seqs[1] = seqs[1]
    BY <2>1, ConcatEmptySeq
  <2> QED
    BY <1>10, <2>1, <2>2
<1>4. h = [i \in 1 .. N |-> Body(h, i)]
  <2>1. ASSUME NEW i \in 1 .. N PROVE h[i] = Body(h, i)
    <3>1. CASE i = 1
      BY <1>10, <3>1
    <3>2. CASE i # 1
      <4>1. i - 1 \in 1 .. N
        BY <1>1, <3>2
      <4> QED
        BY <1>3, <3>2, <4>1
    <3> QED
      BY <3>1, <3>2
  <2> QED
    BY <2>1
<1> HIDE DEF h, Body
<1>5. flatten = [i \in 1 .. N |-> Body(flatten, i)]
  BY <1>4
<1> DEFINE k == flatten
<1> HIDE DEF k
<1>6. \A i \in 1 .. N : k[i] = Body(k, i)
  BY <1>5 DEF k
<1> DEFINE Wrong == {i \in 1 .. N : k[i] # f[i]}
<1>7. Wrong = {}
  <2>1. SUFFICES ASSUME Wrong # {} PROVE FALSE
    OBVIOUS
  <2>2. PICK i \in Wrong : \A n \in Wrong : i <= n
    <3>1. Wrong \in SUBSET Nat
      OBVIOUS
    <3> HIDE DEF Wrong
    <3> QED
      BY <2>1, <3>1, LeastExists
  <2>3. i \in 1 .. N /\ k[i] # f[i]
    BY <2>2
  <2>4. CASE i = 1
    BY <1>6, <1>10, <2>3, <2>4 DEF Body
  <2>5. CASE i # 1
    <3>1. i - 1 \in 1 .. N /\ ~(i <= i - 1)
      BY <1>1, <2>3, <2>5
    <3>2. k[i - 1] = f[i - 1]
      BY <2>2, <3>1
    <3>3. k[i] = k[i - 1] \o seqs[i] /\ f[i] = f[i - 1] \o seqs[i]
      BY <1>3, <1>6, <2>3, <2>5 DEF Body
    <3> QED
      BY <2>3, <3>2, <3>3
  <2> QED
    BY <2>4, <2>5
<1>8. N = 0 \/ flatten[N] = f[N]
  <2>1. N = 0 \/ N \in 1 .. N
    BY <1>1
  <2> QED
    BY <1>7, <2>1 DEF k
<1> HIDE DEF flatten
<1>9. FlattenSeq(seqs) = f[N]
  BY <1>2, <1>3, <1>8
<1> QED
  BY <1>3, <1>9 DEF N

\* With one sequence more they are as before, and that one.
LEMMA FlattenAppend ==
  ASSUME NEW T, NEW seqs \in Seq(Seq(T)), NEW x \in Seq(T)
  PROVE  /\ FlattenSeq(seqs) \in Seq(T) /\ FlattenSeq(<<>>) = <<>>
         /\ FlattenSeq(Append(seqs, x)) = FlattenSeq(seqs) \o x
<1> DEFINE N == Len(seqs)
           more == Append(seqs, x)
<1>1. /\ N \in Nat /\ more \in Seq(Seq(T)) /\ Len(more) = N + 1 /\ more[N + 1] = x
      /\ \A i \in 1 .. N : more[i] = seqs[i]
  BY AppendProperties
<1>2. PICK f \in [0 .. N -> Seq(T)] :
        /\ f[0] = <<>> /\ \A n \in 1 .. N : f[n] = f[n - 1] \o seqs[n]
        /\ FlattenSeq(seqs) = f[N]
  BY FlattenSteps
<1> HIDE DEF more, N
<1>3. PICK g \in [0 .. N + 1 -> Seq(T)] :
        /\ g[0] = <<>> /\ \A n \in 1 .. N + 1 : g[n] = g[n - 1] \o more[n]
        /\ FlattenSeq(more) = g[N + 1]
  <2>1. \E g \in [0 .. Len(more) -> Seq(T)] :
          /\ g[0] = <<>> /\ \A n \in 1 .. Len(more) : g[n] = g[n - 1] \o more[n]
          /\ FlattenSeq(more) = g[Len(more)]
    BY <1>1, FlattenSteps
  <2> QED
    BY <1>1, <2>1
<1> DEFINE Differ == {n \in 0 .. N : g[n] # f[n]}
<1>4. Differ = {}
  <2>1. SUFFICES ASSUME Differ # {} PROVE FALSE
    OBVIOUS
  <2>2. PICK i \in Differ : \A n \in Differ : i <= n
    <3>1. Differ \in SUBSET Nat
      BY <1>1
    <3> HIDE DEF Differ
    <3> QED
      BY <2>1, <3>1, LeastExists
  <2>3. i \in 0 .. N /\ g[i] # f[i]
    BY <2>2
  <2>4. i # 0
    BY <1>2, <1>3, <2>3
  <2>5. i - 1 \in 0 .. N /\ ~(i <= i - 1) /\ i \in 1 .. N /\ i \in 1 .. N + 1
    BY <1>1, <2>3, <2>4
  <2>6. g[i - 1] = f[i - 1]
    BY <2>2, <2>5
  <2> QED
    BY <1>1, <1>2, <1>3, <2>3, <2>5, <2>6
<1>5. g[N + 1] = g[N] \o x /\ g[N] = f[N] /\ f[N] \in Seq(T)
  <2>1. N + 1 \in 1 .. N + 1 /\ (N + 1) - 1 = N /\ N \in 0 .. N
    BY <1>1
  <2>2. g[N + 1] = g[(N + 1) - 1] \o more[N + 1]
    BY <1>3, <2>1
  <2> QED
    BY <1>1, <1>2, <1>4, <2>1, <2>2
<1>6. FlattenSeq(<<>>) = <<>>
  BY DEF FlattenSeq
<1> QED
  BY <1>2, <1>3, <1>5, <1>6 DEF more

\* Sequences that are not empty, one after the other, are such a sequence.
LEMMA FlattenFull ==
  ASSUME NEW T, NEW seqs \in Seq(Seq(T) \ {<<>>}), seqs # <<>>
  PROVE  FlattenSeq(seqs) \in Seq(T) \ {<<>>}
<1>1. seqs \in Seq(Seq(T)) /\ Len(seqs) \in Nat \ {0}
  OBVIOUS
<1>2. seqs[Len(seqs)] \in Seq(T) /\ Len(seqs[Len(seqs)]) \in Nat \ {0}
  <2>1. Len(seqs) \in 1 .. Len(seqs)
    BY <1>1
  <2>2. seqs[Len(seqs)] \in Seq(T) \ {<<>>}
    BY <2>1, ElementOfSeq
  <2> QED
    BY <2>2
<1>3. PICK f \in [0 .. Len(seqs) -> Seq(T)] :
        /\ f[0] = <<>> /\ \A n \in 1 .. Len(seqs) : f[n] = f[n - 1] \o seqs[n]
        /\ FlattenSeq(seqs) = f[Len(seqs)]
  BY <1>1, FlattenSteps
<1>4. f[Len(seqs) - 1] \in Seq(T) /\ f[Len(seqs)] = f[Len(seqs) - 1] \o seqs[Len(seqs)]
  <2>1. Len(seqs) \in 1 .. Len(seqs) /\ Len(seqs) - 1 \in 0 .. Len(seqs)
    BY <1>1
  <2> QED
    BY <1>3, <2>1
<1> DEFINE a == f[Len(seqs) - 1]
           b == seqs[Len(seqs)]
<1>5. a \in Seq(T) /\ b \in Seq(T) /\ Len(b) \in Nat \ {0} /\ FlattenSeq(seqs) = a \o b
  BY <1>2, <1>3, <1>4
<1> HIDE DEF a, b
<1>6. a \o b \in Seq(T) /\ Len(a \o b) = Len(a) + Len(b) /\ Len(a) \in Nat
  BY <1>5, ConcatProperties
<1>7. Len(a \o b) # 0
  BY <1>5, <1>6
<1>8. a \o b # <<>>
  BY <1>7
<1> QED
  BY <1>5, <1>6, <1>8

-----------------------------------------------------------------------------
(* Numbers that rise.                                                      *)

Rising(s) == \A j, k \in DOMAIN s : j < k => s[j] < s[k]

LEMMA RisingAppend ==
  ASSUME NEW s \in Seq(Nat), NEW x \in Nat
  PROVE  Rising(Append(s, x)) <=> Rising(s) /\ \A j \in DOMAIN s : s[j] < x
<1> DEFINE t == Append(s, x)
<1>1. /\ Len(s) \in Nat /\ t \in Seq(Nat) /\ t[Len(s) + 1] = x
      /\ DOMAIN s = 1 .. Len(s) /\ DOMAIN t = 1 .. (Len(s) + 1)
      /\ \A i \in 1 .. Len(s) : t[i] = s[i]
  BY AppendProperties
<1> HIDE DEF t
<1>2. ASSUME Rising(t) PROVE Rising(s) /\ \A j \in DOMAIN s : s[j] < x
  BY <1>1, <1>2 DEF Rising
<1>3. ASSUME Rising(s), \A j \in DOMAIN s : s[j] < x PROVE Rising(t)
  <2> SUFFICES ASSUME NEW j \in DOMAIN t, NEW k \in DOMAIN t, j < k PROVE t[j] < t[k]
    BY DEF Rising
  <2>1. j \in 1 .. Len(s) /\ (k \in 1 .. Len(s) \/ k = Len(s) + 1)
    BY <1>1
  <2> QED
    BY <1>1, <1>3, <2>1 DEF Rising
<1> QED
  BY <1>2, <1>3 DEF t

\* retain leaves numbers that rise rising.
LEMMA KeepRising ==
  ASSUME NEW S
  PROVE  \A s \in Seq(Nat) : Rising(s) => Rising(KeepOnly(s, S))
<1> DEFINE Good == {s \in Seq(Nat) : Rising(s) => Rising(KeepOnly(s, S))}
<1>1. <<>> \in Good
  BY KeepEmpty DEF Rising
<1>2. ASSUME NEW s \in Seq(Nat) \cap Good, NEW x \in Nat PROVE Append(s, x) \in Good
  <2> SUFFICES ASSUME Rising(Append(s, x)) PROVE Rising(KeepOnly(Append(s, x), S))
    BY AppendProperties
  <2> DEFINE k == KeepOnly(s, S)
  <2>1. Rising(s) /\ \A j \in DOMAIN s : s[j] < x
    BY RisingAppend
  <2>2. k \in Seq(Nat) /\ Range(k) \subseteq Range(s) /\ Rising(k)
    BY <2>1, KeepRange
  <2>3. KeepOnly(Append(s, x), S) = IF x \in S THEN Append(k, x) ELSE k
    BY KeepAppend
  <2> HIDE DEF k
  <2>4. \A j \in DOMAIN k : k[j] < x
    BY <2>1, <2>2 DEF Range
  <2>5. Rising(Append(k, x))
    BY <2>2, <2>4, RisingAppend
  <2> QED
    BY <2>2, <2>3, <2>5
<1>3. \A s \in Seq(Nat) \cap Good, x \in Nat : Append(s, x) \in Good
  BY <1>2
<1> HIDE DEF Good
<1>4. Seq(Nat) \subseteq Good
  BY <1>1, <1>3, SequenceInduction
<1> QED
  BY <1>4 DEF Good
=============================================================================
