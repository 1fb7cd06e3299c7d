-------------------------- MODULE RequestFactsProofs --------------------------
(***************************************************************************)
(* Theorems about RequestFacts, for texts, paths, queries and header lines *)
(* of any length.                                                          *)
(***************************************************************************)
EXTENDS RequestFacts, WellFoundedInduction, NaturalsInduction, SequenceTheorems, TLAPS

-----------------------------------------------------------------------------
(* Induction: the numbers of which something is true are a set.             *)

LEMMA Induction ==
    ASSUME NEW G, 0 \in G, \A n \in Nat : n \in G => n + 1 \in G
    PROVE  \A n \in Nat : n \in G
<1> DEFINE R == OpToRel(<, Nat)
           T == Nat \ G
<1> SUFFICES ASSUME T # {} PROVE FALSE
  OBVIOUS
<1>1. PICK n \in T : \A m \in T : ~(<<m, n>> \in R)
  <2>1. T \subseteq Nat
    OBVIOUS
  <2> HIDE DEF R, T
  <2> QED
    BY <2>1, NatLessThanWellFounded, WFMin DEF R
<1>2. n # 0 /\ n - 1 \in Nat /\ n - 1 < n
  OBVIOUS
<1>3. n - 1 \in G
  BY <1>1, <1>2 DEF OpToRel
<1> QED
  BY <1>2, <1>3

\* f begins with e and goes by Step.
Solves(f, X, e, n, Step) ==
    f \in [0..n -> X] /\ f[0] = e /\ \A i \in 1..n : f[i] = Step[i][f[i - 1]]

\* A recursion over 1..n whose steps are functions has a solution.
LEMMA Recursion ==
    ASSUME NEW X, NEW e \in X, NEW n \in Nat, NEW Step \in [1..n -> [X -> X]]
    PROVE  \E f : Solves(f, X, e, n, Step)
<1> DEFINE Upto(f, k) == f[0] = e /\ \A i \in 1..k : f[i] = Step[i][f[i - 1]]
           G == {k \in Nat : k <= n => \E f \in [0..n -> X] : Upto(f, k)}
<1>1. 0 \in G
  <2>1. [i \in 0..n |-> e] \in [0..n -> X] /\ Upto([i \in 0..n |-> e], 0)
    OBVIOUS
  <2> QED
    BY <2>1
<1>2. ASSUME NEW k \in Nat, k \in G PROVE k + 1 \in G
  <2> SUFFICES ASSUME k + 1 <= n PROVE \E f \in [0..n -> X] : Upto(f, k + 1)
    OBVIOUS
  <2>1. PICK f \in [0..n -> X] : Upto(f, k)
    BY <1>2
  <2> DEFINE v == Step[k + 1][f[k]]
             g == [f EXCEPT ![k + 1] = v]
  <2>2. v \in X
    <3>1. f[k] \in X /\ Step[k + 1] \in [X -> X]
      OBVIOUS
    <3> QED
      BY <3>1
  <2>3. g \in [0..n -> X] /\ g[k + 1] = v
        /\ \A i \in 0..n : i # k + 1 => g[i] = f[i]
    BY <2>2
  <2>4. Upto(g, k + 1)
    <3>1. g[0] = e
      BY <2>1, <2>3
    <3>2. ASSUME NEW i \in 1..(k + 1) PROVE g[i] = Step[i][g[i - 1]]
      <4>1. g[i - 1] = f[i - 1]
        BY <2>3
      <4>2. CASE i = k + 1
        BY <2>3, <4>1, <4>2
      <4>3. CASE i # k + 1
        BY <2>1, <2>3, <4>1, <4>3
      <4> QED
        BY <4>2, <4>3
    <3> QED
      BY <3>1, <3>2
  <2> QED
    BY <2>3, <2>4
<1>3. n \in G
  <2> HIDE DEF G
  <2> QED
    BY <1>1, <1>2, Induction
<1>4. PICK f \in [0..n -> X] : Upto(f, n)
  BY <1>3
<1>5. Solves(f, X, e, n, Step)
  BY <1>4 DEF Solves
<1> QED
  BY <1>5

\* Where f and g agree, they agree at the next number.
Alike(f, g, n) == f[0] = g[0] /\ \A i \in 1..n : f[i - 1] = g[i - 1] => f[i] = g[i]

\* Two solutions of a recursion agree.
LEMMA Agreement ==
    ASSUME NEW n \in Nat, NEW f, NEW g, Alike(f, g, n)
    PROVE  \A i \in 0..n : f[i] = g[i]
<1> DEFINE G == {k \in Nat : k <= n => f[k] = g[k]}
<1>1. 0 \in G
  BY DEF Alike
<1>2. ASSUME NEW k \in Nat, k \in G PROVE k + 1 \in G
  <2> SUFFICES ASSUME k + 1 <= n PROVE f[k + 1] = g[k + 1]
    OBVIOUS
  <2>1. k + 1 \in 1..n /\ (k + 1) - 1 = k /\ f[k] = g[k]
    BY <1>2
  <2> QED
    BY <2>1 DEF Alike
<1>3. \A k \in Nat : k \in G
  <2> HIDE DEF G
  <2> QED
    BY <1>1, <1>2, Induction
<1> QED
  BY <1>3

\* What is true of the empty sequence and of every sequence that grew by one.
LEMMA Growing ==
    ASSUME NEW S, NEW G, <<>> \in G, \A s \in Seq(S) : \A x \in S : s \in G => Append(s, x) \in G
    PROVE  \A s \in Seq(S) : s \in G
<1> DEFINE N == {n \in Nat : \A s \in Seq(S) : Len(s) = n => s \in G}
<1>1. 0 \in N
  BY EmptySeq
<1>2. ASSUME NEW n \in Nat, n \in N PROVE n + 1 \in N
  <2> SUFFICES ASSUME NEW s \in Seq(S), Len(s) = n + 1 PROVE s \in G
    OBVIOUS
  <2>1. s # <<>>
    BY EmptySeq
  <2>2. PICK t \in Seq(S), x \in S : s = Append(t, x)
    BY <2>1, SequenceEmptyOrAppend
  <2>3. Len(t) = n
    BY <2>2, AppendProperties
  <2> QED
    BY <1>2, <2>2, <2>3
<1>3. \A n \in Nat : n \in N
  <2> HIDE DEF N
  <2> QED
    BY <1>1, <1>2, Induction
<1> QED
  BY <1>3

Assoc(a, b, c) == (a \o b) \o c = a \o (b \o c)

LEMMA Associative ==
    ASSUME NEW S, NEW a \in Seq(S), NEW b \in Seq(S), NEW c \in Seq(S)
    PROVE  Assoc(a, b, c)
BY ConcatAssociative DEF Assoc

-----------------------------------------------------------------------------
(* FlattenSeq and Join.                                                     *)

\* What f has at i is the first i sequences of s, one after the other.
Runs(s, f, X) ==
    /\ f \in [0..Len(s) -> X]
    /\ f[0] = <<>>
    /\ \A i \in 1..Len(s) : f[i] = f[i - 1] \o s[i]

LEMMA RunsExist ==
    ASSUME NEW X, <<>> \in X, NEW s, Len(s) \in Nat,
           \A i \in 1..Len(s), x \in X : x \o s[i] \in X
    PROVE  \E f : Runs(s, f, X)
<1> DEFINE n == Len(s)
           Step == [i \in 1..n |-> [x \in X |-> x \o s[i]]]
<1>1. /\ Step \in [1..n -> [X -> X]]
      /\ \A i \in 1..n, x \in X : Step[i][x] = x \o s[i]
  OBVIOUS
<1> HIDE DEF Step
<1>2. PICK f : Solves(f, X, <<>>, n, Step)
  BY <1>1, Recursion
<1>3. f \in [0..n -> X] /\ f[0] = <<>> /\ \A i \in 1..n : f[i] = Step[i][f[i - 1]]
  BY <1>2 DEF Solves
<1>4. ASSUME NEW i \in 1..n PROVE f[i] = f[i - 1] \o s[i]
  <2>1. i - 1 \in 0..n
    OBVIOUS
  <2>2. f[i - 1] \in X
    BY <1>3, <2>1
  <2> QED
    BY <1>1, <1>3, <2>2
<1> QED
  BY <1>3, <1>4 DEF Runs

LEMMA FlattenRuns ==
    ASSUME NEW S, NEW s \in Seq(Seq(S))
    PROVE  /\ \E f : Runs(s, f, Seq(S))
           /\ \A f : Runs(s, f, Seq(S)) => FlattenSeq(s) = f[Len(s)]
<1>1. Len(s) \in Nat /\ \A i \in 1..Len(s) : s[i] \in Seq(S)
  OBVIOUS
<1>2. \E f : Runs(s, f, Seq(S))
  <2>1. \A i \in 1..Len(s), x \in Seq(S) : x \o s[i] \in Seq(S)
    BY <1>1, ConcatProperties
  <2>2. <<>> \in Seq(S)
    OBVIOUS
  <2> QED
    BY <1>1, <2>1, <2>2, RunsExist
<1>3. ASSUME NEW f, Runs(s, f, Seq(S))
      PROVE  FlattenSeq(s) = f[Len(s)]
  <2>r. f[0] = <<>> /\ \A i \in 1..Len(s) : f[i] = f[i - 1] \o s[i] /\ i - 1 + 1 = i
    BY <1>3 DEF Runs
  <2>1. CASE Len(s) = 0
    <3>1. s = <<>>
      BY <2>1, EmptySeq
    <3> QED
      BY <1>3, <2>1, <3>1 DEF FlattenSeq, Runs
  <2>2. CASE Len(s) # 0
    <3> DEFINE Body(g) == [i \in 1..Len(s) |-> IF i = 1 THEN s[i] ELSE g[i - 1] \o s[i]]
               F == CHOOSE g : g = Body(g)
               h == [i \in 0..Len(s) |-> IF i = 0 THEN <<>> ELSE F[i]]
    <3>1. \E g : g = Body(g)
      <4> DEFINE g == [i \in 1..Len(s) |-> f[i]]
      <4>1. ASSUME NEW i \in 1..Len(s)
            PROVE  g[i] = IF i = 1 THEN s[i] ELSE g[i - 1] \o s[i]
        <5>1. CASE i = 1
          <6>1. f[i] = f[i - 1] \o s[i] /\ i - 1 = 0 /\ s[i] \in Seq(S)
            <7> HIDE DEF g
            <7>1. f[i] = f[i - 1] \o s[i]
              BY <2>r
            <7> QED
              BY <1>1, <5>1, <7>1
          <6>2. f[i] = <<>> \o s[i]
            BY <2>r, <6>1
          <6> QED
            BY <5>1, <6>1, <6>2, ConcatEmptySeq
        <5>2. CASE i # 1
          <6>1. g[i - 1] = f[i - 1]
            BY <5>2
          <6> QED
            BY <5>2, <6>1, <2>r
        <5> QED
          BY <5>1, <5>2
      <4>2. g = Body(g)
        BY <4>1, Zenon
      <4> QED
        BY <4>2
    <3>2. F = Body(F)
      BY <3>1, Zenon
    <3>3. FlattenSeq(s) = F[Len(s)]
      BY <2>2 DEF FlattenSeq
    <3> HIDE DEF F
    <3>4. \A i \in 1..Len(s) : F[i] = IF i = 1 THEN s[i] ELSE F[i - 1] \o s[i]
      BY <3>2
    <3>5. ASSUME NEW i \in 1..Len(s), f[i - 1] = h[i - 1] PROVE f[i] = h[i]
      <4>1. f[i] = h[i - 1] \o s[i]
        <5> HIDE DEF h
        <5> QED
          BY <2>r, <3>5
      <4>2. CASE i = 1
        BY <1>1, <3>4, <4>1, <4>2, ConcatEmptySeq
      <4>3. CASE i # 1
        <5>1. h[i - 1] = F[i - 1] /\ h[i] = F[i]
          BY <1>1, <4>3
        <5> QED
          BY <3>4, <4>1, <4>3, <5>1
      <4> QED
        BY <4>2, <4>3
    <3>6. f[0] = h[0]
      BY <1>1, <1>3 DEF Runs
    <3> HIDE DEF h
    <3>7. \A i \in 0..Len(s) : f[i] = h[i]
      <4>1. Alike(f, h, Len(s))
        BY <3>5, <3>6 DEF Alike
      <4> QED
        BY <1>1, <4>1, Agreement
    <3> QED
      BY <1>1, <2>2, <3>3, <3>7 DEF h
  <2> QED
    BY <2>1, <2>2
<1> QED
  BY <1>2, <1>3

LEMMA FlattenEmpty == FlattenSeq(<<>>) = <<>>
BY DEF FlattenSeq

LEMMA FlattenAppend ==
    ASSUME NEW S, NEW s \in Seq(Seq(S)), NEW x \in Seq(S)
    PROVE  /\ FlattenSeq(s) \in Seq(S)
           /\ FlattenSeq(Append(s, x)) = FlattenSeq(s) \o x
<1> DEFINE t == Append(s, x)
           n == Len(s)
<1>1. /\ t \in Seq(Seq(S)) /\ n \in Nat /\ Len(t) = n + 1
      /\ \A i \in 1..n : t[i] = s[i]
      /\ t[n + 1] = x
  OBVIOUS
<1> HIDE DEF t
<1>2. PICK f : Runs(s, f, Seq(S))
  BY FlattenRuns
<1>3. PICK g : Runs(t, g, Seq(S))
  BY <1>1, FlattenRuns
<1>4. FlattenSeq(s) = f[n] /\ FlattenSeq(t) = g[n + 1]
  BY <1>1, <1>2, <1>3, FlattenRuns
<1>5. f[0] = g[0] /\ n \in Nat
  BY <1>1, <1>2, <1>3 DEF Runs
<1>6. ASSUME NEW i \in 1..n, f[i - 1] = g[i - 1] PROVE f[i] = g[i]
  <2>1. i \in 1..Len(t) /\ i \in 1..Len(s)
    BY <1>1
  <2>2. f[i] = f[i - 1] \o s[i] /\ g[i] = g[i - 1] \o t[i]
    BY <1>2, <1>3, <2>1 DEF Runs
  <2> QED
    BY <1>1, <1>6, <2>2
<1>7. f[n] = g[n]
  <2>1. \A i \in 0..n : f[i] = g[i]
    <3>1. Alike(f, g, n)
      BY <1>5, <1>6 DEF Alike
    <3> QED
      BY <1>5, <3>1, Agreement
  <2> QED
    BY <1>1, <2>1
<1>8. g[n + 1] = g[n] \o x
  <2>1. n + 1 \in 1..Len(t) /\ (n + 1) - 1 = n
    BY <1>1
  <2>2. g[n + 1] = g[(n + 1) - 1] \o t[n + 1]
    BY <1>3, <2>1 DEF Runs
  <2> QED
    BY <1>1, <2>1, <2>2
<1>9. f[n] \in Seq(S)
  <2>1. f \in [0..n -> Seq(S)] /\ n \in 0..n
    BY <1>1, <1>2 DEF Runs
  <2> QED
    BY <2>1
<1> QED
  BY <1>4, <1>7, <1>8, <1>9 DEF t

LEMMA JoinOne == ASSUME NEW S, NEW c \in S, NEW x \in Seq(S) PROVE Join(<<x>>, c) = x
<1>1. [i \in DOMAIN <<x>> |-> (IF i = 1 THEN <<>> ELSE <<c>>) \o <<x>>[i]] = Append(<<>>, x)
  <2>1. <<>> \o x = x
    BY ConcatEmptySeq
  <2>2. Append(<<>>, x) = <<x>>
    OBVIOUS
  <2> QED
    BY <2>1, <2>2
<1>2. FlattenSeq(Append(<<>>, x)) = FlattenSeq(<<>>) \o x
  BY FlattenAppend, EmptySeq
<1> QED
  BY <1>1, <1>2, FlattenEmpty, ConcatEmptySeq DEF Join

LEMMA JoinAppend ==
    ASSUME NEW S, NEW c \in S, NEW w \in Seq(Seq(S)), NEW x \in Seq(S)
    PROVE  /\ Join(w, c) \in Seq(S)
           /\ w # <<>> => Join(Append(w, x), c) = Join(w, c) \o (<<c>> \o x)
<1> DEFINE Pieces(v) == [i \in DOMAIN v |-> (IF i = 1 THEN <<>> ELSE <<c>>) \o v[i]]
<1>1. ASSUME NEW v \in Seq(Seq(S)) PROVE Pieces(v) \in Seq(Seq(S))
  <2>1. Len(v) \in Nat /\ DOMAIN v = 1..Len(v)
    OBVIOUS
  <2>2. ASSUME NEW i \in 1..Len(v) PROVE (IF i = 1 THEN <<>> ELSE <<c>>) \o v[i] \in Seq(S)
    <3>1. v[i] \in Seq(S) /\ <<c>> \in Seq(S) /\ <<>> \in Seq(S)
      BY <2>1
    <3> QED
      BY <3>1, ConcatProperties
  <2> QED
    BY <2>1, <2>2
<1>2. ASSUME w # <<>> PROVE Pieces(Append(w, x)) = Append(Pieces(w), <<c>> \o x)
  <2> DEFINE a == Append(w, x)
             n == Len(w)
  <2>1. /\ n \in Nat \ {0} /\ DOMAIN w = 1..n /\ DOMAIN a = 1..(n + 1)
        /\ \A i \in 1..n : a[i] = w[i]
        /\ a[n + 1] = x
    BY <1>2
  <2>2. Append(Pieces(w), <<c>> \o x)
            = [i \in 1..(n + 1) |-> IF i = n + 1 THEN <<c>> \o x ELSE Pieces(w)[i]]
    <3>1. Pieces(w) \in Seq(Seq(S)) /\ Len(Pieces(w)) = n
      BY <1>1, <2>1
    <3> HIDE DEF Pieces
    <3> QED
      BY <3>1
  <2> HIDE DEF a
  <2>3. ASSUME NEW i \in 1..(n + 1)
        PROVE  Pieces(a)[i] = IF i = n + 1 THEN <<c>> \o x ELSE Pieces(w)[i]
    <3>1. CASE i = n + 1
      <4>1. i \in DOMAIN a /\ i # 1 /\ a[i] = x
        BY <2>1, <3>1
      <4> QED
        BY <3>1, <4>1
    <3>2. CASE i # n + 1
      <4>1. i \in DOMAIN a /\ i \in DOMAIN w /\ a[i] = w[i]
        BY <2>1, <3>2
      <4> QED
        BY <3>2, <4>1
    <3> QED
      BY <3>1, <3>2
  <2> HIDE DEF n
  <2>4. Pieces(a) = [i \in 1..(n + 1) |-> IF i = n + 1 THEN <<c>> \o x ELSE Pieces(w)[i]]
    BY <2>1, <2>3
  <2> QED
    BY <2>2, <2>4 DEF a
<1>3. Join(w, c) = FlattenSeq(Pieces(w)) /\ Join(Append(w, x), c) = FlattenSeq(Pieces(Append(w, x)))
  BY DEF Join
<1>4. Pieces(w) \in Seq(Seq(S))
  BY <1>1
<1> HIDE DEF Pieces
<1>5. <<c>> \o x \in Seq(S)
  <2>1. <<c>> \in Seq(S)
    OBVIOUS
  <2> QED
    BY <2>1, ConcatProperties
<1>6. /\ FlattenSeq(Pieces(w)) \in Seq(S)
      /\ FlattenSeq(Append(Pieces(w), <<c>> \o x)) = FlattenSeq(Pieces(w)) \o (<<c>> \o x)
  BY <1>4, <1>5, FlattenAppend
<1> QED
  BY <1>2, <1>3, <1>6

-----------------------------------------------------------------------------
(* Split.                                                                   *)

\* The pieces, one character later.
Grown(pieces, x, c) ==
    IF x = c THEN Append(pieces, <<>>) ELSE [pieces EXCEPT ![Len(pieces)] = Append(@, x)]

\* What Split calls upTo.
Cuts(s, c, f, X) ==
    /\ f \in [0..Len(s) -> X]
    /\ f[0] = <<<<>>>>
    /\ \A i \in 1..Len(s) : f[i] = Grown(f[i - 1], s[i], c)

Pieces(S) == Seq(Seq(S)) \ {<<>>}

LEMMA GrownType ==
    ASSUME NEW S, NEW p \in Pieces(S), NEW x \in S, NEW c
    PROVE  Grown(p, x, c) \in Pieces(S)
<1>1. p \in Seq(Seq(S)) /\ Len(p) \in Nat /\ Len(p) # 0 /\ p # <<>>
  BY EmptySeq DEF Pieces
<1>2. Append(p, <<>>) \in Seq(Seq(S)) /\ Append(p, <<>>) # <<>>
  BY <1>1, EmptySeq, AppendProperties
<1>3. p[Len(p)] \in Seq(S)
  BY <1>1
<1>4. Append(p[Len(p)], x) \in Seq(S)
  BY <1>3, AppendProperties
<1>5. [p EXCEPT ![Len(p)] = Append(p[Len(p)], x)] \in Seq(Seq(S))
      /\ Len([p EXCEPT ![Len(p)] = Append(p[Len(p)], x)]) = Len(p)
  BY <1>1, <1>4, ExceptSeq
<1> QED
  BY <1>1, <1>2, <1>5, EmptySeq DEF Grown, Pieces

LEMMA CutsExist ==
    ASSUME NEW X, <<<<>>>> \in X, NEW s, Len(s) \in Nat, NEW c,
           \A i \in 1..Len(s), p \in X : Grown(p, s[i], c) \in X
    PROVE  \E f : Cuts(s, c, f, X)
<1> DEFINE n == Len(s)
           Step == [i \in 1..n |-> [p \in X |-> Grown(p, s[i], c)]]
<1>1. /\ Step \in [1..n -> [X -> X]]
      /\ \A i \in 1..n, p \in X : Step[i][p] = Grown(p, s[i], c)
  OBVIOUS
<1> HIDE DEF Step
<1>2. PICK f : Solves(f, X, <<<<>>>>, n, Step)
  BY <1>1, Recursion
<1>3. f \in [0..n -> X] /\ f[0] = <<<<>>>> /\ \A i \in 1..n : f[i] = Step[i][f[i - 1]]
  BY <1>2 DEF Solves
<1>4. ASSUME NEW i \in 1..n PROVE f[i] = Grown(f[i - 1], s[i], c)
  <2>1. i - 1 \in 0..n
    OBVIOUS
  <2>2. f[i - 1] \in X
    BY <1>3, <2>1
  <2> QED
    BY <1>1, <1>3, <2>2
<1> QED
  BY <1>3, <1>4 DEF Cuts

LEMMA SplitCuts ==
    ASSUME NEW S, NEW s \in Seq(S), NEW c
    PROVE  /\ \E f : Cuts(s, c, f, Pieces(S))
           /\ \A f : Cuts(s, c, f, Pieces(S)) => Split(s, c) = f[Len(s)]
<1>1. Len(s) \in Nat /\ \A i \in 1..Len(s) : s[i] \in S
  OBVIOUS
<1>2. \E f : Cuts(s, c, f, Pieces(S))
  <2>1. \A i \in 1..Len(s), p \in Pieces(S) : Grown(p, s[i], c) \in Pieces(S)
    BY <1>1, GrownType
  <2>2. <<<<>>>> \in Pieces(S)
    BY DEF Pieces
  <2> QED
    BY <1>1, <2>1, <2>2, CutsExist
<1>3. ASSUME NEW f, Cuts(s, c, f, Pieces(S))
      PROVE  Split(s, c) = f[Len(s)]
  <2> DEFINE Body(g) == [n \in 0..Len(s) |->
                            IF n = 0 THEN <<<<>>>> ELSE Grown(g[n - 1], s[n], c)]
             F == CHOOSE g : g = Body(g)
  <2>1. f = Body(f)
    <3>1. f = [n \in 0..Len(s) |-> f[n]]
      BY <1>3 DEF Cuts
    <3>2. ASSUME NEW n \in 0..Len(s)
          PROVE  f[n] = IF n = 0 THEN <<<<>>>> ELSE Grown(f[n - 1], s[n], c)
      <4>1. f[0] = <<<<>>>> /\ (n # 0 => n \in 1..Len(s))
        BY <1>1, <1>3 DEF Cuts
      <4>2. n # 0 => f[n] = Grown(f[n - 1], s[n], c)
        BY <1>3, <4>1 DEF Cuts
      <4> QED
        BY <4>1, <4>2
    <3> QED
      BY <3>1, <3>2, Zenon
  <2>2. F = Body(F)
    BY <2>1, Zenon
  <2>3. Split(s, c) = F[Len(s)]
    BY DEF Split, Grown
  <2> HIDE DEF F
  <2>4. /\ F[0] = <<<<>>>>
        /\ \A i \in 1..Len(s) : F[i] = Grown(F[i - 1], s[i], c)
    BY <1>1, <2>2
  <2>5. Alike(f, F, Len(s))
    BY <1>3, <2>4 DEF Alike, Cuts
  <2>6. \A i \in 0..Len(s) : f[i] = F[i]
    BY <1>1, <2>5, Agreement
  <2> QED
    BY <1>1, <2>3, <2>6
<1> QED
  BY <1>2, <1>3

LEMMA SplitEmpty == ASSUME NEW c PROVE Split(<<>>, c) = <<<<>>>>
<1>1. <<>> \in Seq(Nat) /\ Len(<<>>) = 0
  OBVIOUS
<1>2. PICK f : Cuts(<<>>, c, f, Pieces(Nat))
  BY <1>1, SplitCuts
<1>3. f[0] = <<<<>>>>
  BY <1>2 DEF Cuts
<1>4. Split(<<>>, c) = f[Len(<<>>)]
  BY <1>1, <1>2, SplitCuts
<1> QED
  BY <1>1, <1>3, <1>4

LEMMA SplitAppend ==
    ASSUME NEW S, NEW s \in Seq(S), NEW x \in S, NEW c
    PROVE  /\ Split(s, c) \in Pieces(S)
           /\ Split(Append(s, x), c) = Grown(Split(s, c), x, c)
<1> DEFINE t == Append(s, x)
           n == Len(s)
<1>1. /\ t \in Seq(S) /\ n \in Nat /\ Len(t) = n + 1
      /\ \A i \in 1..n : t[i] = s[i]
      /\ t[n + 1] = x
  BY AppendProperties
<1> HIDE DEF t
<1>2. PICK f : Cuts(s, c, f, Pieces(S))
  BY SplitCuts
<1>3. PICK g : Cuts(t, c, g, Pieces(S))
  BY <1>1, SplitCuts
<1>4. Split(s, c) = f[n] /\ Split(t, c) = g[n + 1]
  BY <1>1, <1>2, <1>3, SplitCuts
<1>5. f[0] = g[0] /\ n \in Nat
  BY <1>1, <1>2, <1>3 DEF Cuts
<1>6. ASSUME NEW i \in 1..n, f[i - 1] = g[i - 1] PROVE f[i] = g[i]
  <2>1. i \in 1..Len(t) /\ i \in 1..Len(s)
    BY <1>1
  <2>2. f[i] = Grown(f[i - 1], s[i], c) /\ g[i] = Grown(g[i - 1], t[i], c)
    BY <1>2, <1>3, <2>1 DEF Cuts
  <2> QED
    BY <1>1, <1>6, <2>2
<1>7. f[n] = g[n]
  <2>1. \A i \in 0..n : f[i] = g[i]
    <3>1. Alike(f, g, n)
      BY <1>5, <1>6 DEF Alike
    <3> QED
      BY <1>5, <3>1, Agreement
  <2> QED
    BY <1>1, <2>1
<1>8. g[n + 1] = Grown(g[n], x, c)
  <2>1. n + 1 \in 1..Len(t) /\ (n + 1) - 1 = n
    BY <1>1
  <2>2. g[n + 1] = Grown(g[(n + 1) - 1], t[n + 1], c)
    BY <1>3, <2>1 DEF Cuts
  <2> QED
    BY <1>1, <2>1, <2>2
<1>9. f[n] \in Pieces(S)
  <2>1. f \in [0..n -> Pieces(S)] /\ n \in 0..n
    BY <1>1, <1>2 DEF Cuts
  <2> QED
    BY <2>1
<1> QED
  BY <1>4, <1>7, <1>8, <1>9 DEF t

LEMMA ConcatExcept ==
    ASSUME NEW T, NEW p \in Seq(T), NEW q \in Seq(T), q # <<>>, NEW l \in T
    PROVE  [p \o q EXCEPT ![Len(p \o q)] = l] = p \o [q EXCEPT ![Len(q)] = l]
<1> DEFINE m == Len(p)
           n == Len(q)
           u == [q EXCEPT ![n] = l]
           v == [p \o q EXCEPT ![Len(p \o q)] = l]
<1>1. m \in Nat /\ n \in Nat /\ n # 0
  BY EmptySeq
<1>2. /\ p \o q \in Seq(T) /\ Len(p \o q) = m + n
      /\ \A i \in 1..(m + n) : (p \o q)[i] = IF i <= m THEN p[i] ELSE q[i - m]
  BY ConcatProperties
<1>3. /\ u \in Seq(T) /\ Len(u) = n
      /\ \A i \in 1..n : u[i] = IF i = n THEN l ELSE q[i]
  BY <1>1, ExceptSeq
<1>4. /\ v \in Seq(T) /\ Len(v) = m + n
      /\ \A i \in 1..(m + n) : v[i] = IF i = m + n THEN l ELSE (p \o q)[i]
  <2> DEFINE pq == p \o q
  <2>1. pq \in Seq(T) /\ Len(pq) \in 1..Len(pq)
    BY <1>1, <1>2
  <2> HIDE DEF pq
  <2>2. /\ [pq EXCEPT ![Len(pq)] = l] \in Seq(T)
        /\ Len([pq EXCEPT ![Len(pq)] = l]) = Len(pq)
        /\ \A i \in 1..Len(pq) : [pq EXCEPT ![Len(pq)] = l][i] = IF i = Len(pq) THEN l ELSE pq[i]
    BY <2>1, ExceptSeq
  <2> QED
    BY <1>2, <2>2 DEF pq
<1> HIDE DEF u, v
<1>5. /\ p \o u \in Seq(T) /\ Len(p \o u) = m + n
      /\ \A i \in 1..(m + n) : (p \o u)[i] = IF i <= m THEN p[i] ELSE u[i - m]
  <2>1. /\ p \o u \in Seq(T) /\ Len(p \o u) = Len(p) + Len(u)
        /\ \A i \in 1..(Len(p) + Len(u)) :
              (p \o u)[i] = IF i <= Len(p) THEN p[i] ELSE u[i - Len(p)]
    BY <1>3, ConcatProperties
  <2> QED
    BY <1>3, <2>1
<1>6. ASSUME NEW i \in 1..(m + n) PROVE v[i] = (p \o u)[i]
  <2>1. CASE i <= m
    <3>1. i # m + n
      BY <1>1, <2>1
    <3> QED
      BY <1>2, <1>4, <1>5, <2>1, <3>1
  <2>2. CASE i > m
    <3>1. i - m \in 1..n /\ ~(i <= m) /\ (i = m + n <=> i - m = n)
      BY <1>1, <2>2
    <3>2. v[i] = IF i - m = n THEN l ELSE q[i - m]
      BY <1>2, <1>4, <3>1
    <3>3. (p \o u)[i] = u[i - m]
      BY <1>5, <3>1
    <3> QED
      BY <1>3, <3>1, <3>2, <3>3
  <2>3. i <= m \/ i > m
    BY <1>1
  <2> QED
    BY <2>1, <2>2, <2>3, Zenon
<1>7. v = p \o u
  BY <1>4, <1>5, <1>6, SeqEqual
<1> QED
  BY <1>7 DEF u, v

\* Growing the right of two lists of pieces grows the whole.
LEMMA GrownConcat ==
    ASSUME NEW S, NEW p \in Pieces(S), NEW q \in Pieces(S), NEW x \in S, NEW c
    PROVE  Grown(p \o q, x, c) = p \o Grown(q, x, c)
<1>1. /\ p \in Seq(Seq(S)) /\ q \in Seq(Seq(S)) /\ q # <<>>
      /\ Len(p) \in Nat /\ Len(q) \in Nat \ {0} /\ <<>> \in Seq(S)
  BY EmptySeq DEF Pieces
<1>2. CASE x = c
  <2>1. Append(p \o q, <<>>) = (p \o q) \o <<<<>>>> /\ Append(q, <<>>) = q \o <<<<>>>>
    BY <1>1, ConcatProperties, AppendIsConcat
  <2>2. (p \o q) \o <<<<>>>> = p \o (q \o <<<<>>>>)
    <3>1. <<<<>>>> \in Seq(Seq(S))
      BY <1>1
    <3>2. Assoc(p, q, <<<<>>>>)
      BY <1>1, <3>1, Associative
    <3> QED
      BY <3>2 DEF Assoc
  <2> QED
    BY <1>2, <2>1, <2>2 DEF Grown
<1>3. CASE x # c
  <2> DEFINE l == Append(q[Len(q)], x)
  <2>1. l \in Seq(S) /\ (p \o q)[Len(p \o q)] = q[Len(q)]
    <3>1. q[Len(q)] \in Seq(S)
      BY <1>1
    <3>2. Len(p \o q) = Len(p) + Len(q)
      BY <1>1, ConcatProperties
    <3> QED
      BY <1>1, <3>1, <3>2, ConcatProperties, AppendProperties
  <2>2. Grown(p \o q, x, c) = [p \o q EXCEPT ![Len(p \o q)] = l]
        /\ Grown(q, x, c) = [q EXCEPT ![Len(q)] = l]
    BY <1>3, <2>1 DEF Grown
  <2> HIDE DEF l
  <2> QED
    BY <1>1, <2>1, <2>2, ConcatExcept
<1> QED
  BY <1>2, <1>3

\* Where a c is, the pieces on both sides of it are split apart.
LEMMA SplitConcat ==
    ASSUME NEW S, NEW c \in S
    PROVE  \A a, b \in Seq(S) : Split(a \o (<<c>> \o b), c) = Split(a, c) \o Split(b, c)
<1> SUFFICES ASSUME NEW a \in Seq(S), NEW b \in Seq(S)
             PROVE  Split(a \o (<<c>> \o b), c) = Split(a, c) \o Split(b, c)
  OBVIOUS
<1> DEFINE G == {s \in Seq(S) : Split(a \o (<<c>> \o s), c) = Split(a, c) \o Split(s, c)}
<1>1. <<c>> \in Seq(S) /\ Split(a, c) \in Pieces(S) /\ Split(a, c) \in Seq(Seq(S))
  BY SplitAppend DEF Pieces
<1>2. <<>> \in G
  <2>1. a \o (<<c>> \o <<>>) = Append(a, c)
    BY <1>1, ConcatEmptySeq, AppendIsConcat
  <2>2. Split(Append(a, c), c) = Append(Split(a, c), <<>>)
    BY SplitAppend DEF Grown
  <2>3. Append(Split(a, c), <<>>) = Split(a, c) \o <<<<>>>>
    BY <1>1, EmptySeq, AppendIsConcat
  <2> QED
    BY <2>1, <2>2, <2>3, SplitEmpty, EmptySeq
<1>3. ASSUME NEW s \in Seq(S), NEW x \in S, s \in G PROVE Append(s, x) \in G
  <2> DEFINE cs == <<c>> \o s
  <2>1. cs \in Seq(S) /\ Append(s, x) \in Seq(S)
    BY <1>1, ConcatProperties, AppendProperties
  <2>2. a \o (<<c>> \o Append(s, x)) = Append(a \o cs, x)
    <3>1. Append(s, x) = s \o <<x>> /\ <<x>> \in Seq(S)
      BY AppendIsConcat
    <3>2. <<c>> \o (s \o <<x>>) = cs \o <<x>>
      BY <1>1, <3>1, ConcatAssociative
    <3>3. a \o (cs \o <<x>>) = (a \o cs) \o <<x>>
      BY <2>1, <3>1, ConcatAssociative
    <3>4. a \o cs \in Seq(S)
      BY <2>1, ConcatProperties
    <3>5. (a \o cs) \o <<x>> = Append(a \o cs, x)
      BY <3>4, AppendIsConcat
    <3> QED
      BY <3>1, <3>2, <3>3, <3>5
  <2>3. a \o cs \in Seq(S)
    BY <2>1, ConcatProperties
  <2>4. Split(Append(a \o cs, x), c) = Grown(Split(a \o cs, c), x, c)
    <3> DEFINE front == a \o cs
    <3>1. front \in Seq(S)
      BY <2>3
    <3> HIDE DEF front
    <3>2. Split(Append(front, x), c) = Grown(Split(front, c), x, c)
      BY <3>1, SplitAppend
    <3> QED
      BY <3>2 DEF front
  <2>5. Split(s, c) \in Pieces(S) /\ Split(Append(s, x), c) = Grown(Split(s, c), x, c)
    BY SplitAppend
  <2>6. Grown(Split(a, c) \o Split(s, c), x, c) = Split(a, c) \o Grown(Split(s, c), x, c)
    BY <1>1, <2>5, GrownConcat
  <2> QED
    BY <1>3, <2>1, <2>2, <2>4, <2>5, <2>6
<1>4. \A s \in Seq(S) : s \in G
  <2> HIDE DEF G
  <2> QED
    BY <1>2, <1>3, Growing
<1> QED
  BY <1>4

\* Without a c there is one piece.
LEMMA SplitOne ==
    ASSUME NEW S, NEW s \in Seq(S), NEW c, \A i \in 1..Len(s) : s[i] # c
    PROVE  Split(s, c) = <<s>>
<1> DEFINE G == {t \in Seq(S) : (\A i \in 1..Len(t) : t[i] # c) => Split(t, c) = <<t>>}
<1>1. <<>> \in G
  BY SplitEmpty
<1>2. ASSUME NEW t \in Seq(S), NEW x \in S, t \in G PROVE Append(t, x) \in G
  <2> SUFFICES ASSUME \A i \in 1..Len(Append(t, x)) : Append(t, x)[i] # c
               PROVE  Split(Append(t, x), c) = <<Append(t, x)>>
    BY AppendProperties
  <2>1. x # c /\ \A i \in 1..Len(t) : t[i] # c
    BY AppendProperties
  <2>2. Split(t, c) = <<t>>
    BY <1>2, <2>1
  <2>3. Grown(<<t>>, x, c) = <<Append(t, x)>>
    BY <2>1 DEF Grown
  <2> QED
    BY <2>2, <2>3, SplitAppend
<1>3. \A t \in Seq(S) : t \in G
  <2> HIDE DEF G
  <2> QED
    BY <1>1, <1>2, Growing
<1> QED
  BY <1>3

\* No c is in the pieces.
Clean(v, c) == \A i \in 1..Len(v) : \A j \in 1..Len(v[i]) : v[i][j] # c

\* Split undoes Join, except within the last piece.
LEMMA SplitJoin ==
    ASSUME NEW S, NEW c \in S, NEW w \in Seq(Seq(S)), NEW x \in Seq(S), Clean(w, c)
    PROVE  Split(Join(Append(w, x), c), c) = w \o Split(x, c)
<1> DEFINE G == {v \in Seq(Seq(S)) : Clean(v, c) =>
                   \A y \in Seq(S) : Split(Join(Append(v, y), c), c) = v \o Split(y, c)}
<1>0. \A a, b \in Seq(S) : Split(a \o (<<c>> \o b), c) = Split(a, c) \o Split(b, c)
  BY SplitConcat
<1>1. <<>> \in G
  <2>1. ASSUME NEW y \in Seq(S) PROVE Split(Join(Append(<<>>, y), c), c) = <<>> \o Split(y, c)
    <3>1. Append(<<>>, y) = <<y>>
      OBVIOUS
    <3>2. Split(y, c) \in Seq(Seq(S))
      BY SplitAppend DEF Pieces
    <3> QED
      BY <3>1, <3>2, JoinOne, ConcatEmptySeq
  <2>2. <<>> \in Seq(Seq(S))
    OBVIOUS
  <2> QED
    BY <2>1, <2>2
<1>2. ASSUME NEW v \in Seq(Seq(S)), NEW z \in Seq(S), v \in G PROVE Append(v, z) \in G
  <2> SUFFICES ASSUME Clean(Append(v, z), c), NEW y \in Seq(S)
               PROVE  Split(Join(Append(Append(v, z), y), c), c) = Append(v, z) \o Split(y, c)
    BY AppendProperties
  <2>1. Clean(v, c) /\ \A j \in 1..Len(z) : z[j] # c
    <3>1. /\ Len(Append(v, z)) = Len(v) + 1 /\ Len(v) \in Nat
          /\ \A i \in 1..Len(v) : Append(v, z)[i] = v[i]
          /\ Append(v, z)[Len(v) + 1] = z
      BY AppendProperties
    <3>2. ASSUME NEW i \in 1..Len(v), NEW j \in 1..Len(v[i]) PROVE v[i][j] # c
      <4>1. i \in 1..Len(Append(v, z)) /\ j \in 1..Len(Append(v, z)[i])
        BY <3>1
      <4> QED
        BY <3>1, <4>1 DEF Clean
    <3>3. ASSUME NEW j \in 1..Len(z) PROVE z[j] # c
      <4>1. Len(v) + 1 \in 1..Len(Append(v, z)) /\ j \in 1..Len(Append(v, z)[Len(v) + 1])
        BY <3>1
      <4> QED
        BY <3>1, <4>1 DEF Clean
    <3> QED
      BY <3>2, <3>3 DEF Clean
  <2>2. /\ Append(v, z) \in Seq(Seq(S)) /\ Append(v, z) # <<>>
        /\ Split(y, c) \in Seq(Seq(S))
    <3>1. Append(v, z) \in Seq(Seq(S)) /\ Append(v, z) # <<>>
      <4> DEFINE T == Seq(S)
      <4>1. v \in Seq(T) /\ z \in T
        OBVIOUS
      <4> HIDE DEF T, G
      <4>2. Append(v, z) \in Seq(T) /\ Append(v, z) # <<>>
        <5>1. Append(v, z) \in Seq(T) /\ Len(Append(v, z)) = Len(v) + 1 /\ Len(v) \in Nat
          BY <4>1
        <5>2. Len(Append(v, z)) # 0
          BY <5>1
        <5>3. Len(<<>>) = 0
          BY EmptySeq
        <5> QED
          BY <5>1, <5>2, <5>3, Zenon
      <4> QED
        BY <4>2 DEF T
    <3>2. Split(y, c) \in Pieces(S)
      BY SplitAppend, Zenon
    <3> QED
      BY <3>1, <3>2 DEF Pieces
  <2>3. Join(Append(Append(v, z), y), c) = Join(Append(v, z), c) \o (<<c>> \o y)
        /\ Join(Append(v, z), c) \in Seq(S)
    BY <2>2, JoinAppend
  <2>4. Split(Join(Append(v, z), c) \o (<<c>> \o y), c)
            = Split(Join(Append(v, z), c), c) \o Split(y, c)
    <3> DEFINE a == Join(Append(v, z), c)
    <3>1. a \in Seq(S)
      BY <2>3
    <3> HIDE DEF a
    <3>2. Split(a \o (<<c>> \o y), c) = Split(a, c) \o Split(y, c)
      BY <1>0, <3>1
    <3> QED
      BY <3>2 DEF a
  <2>5. Split(Join(Append(v, z), c), c) = v \o Split(z, c)
    BY <1>2, <2>1
  <2>6. v \o Split(z, c) = Append(v, z)
    BY <2>1, SplitOne, AppendIsConcat
  <2> QED
    BY <2>3, <2>4, <2>5, <2>6
<1>3. \A v \in Seq(Seq(S)) : v \in G
  <2> HIDE DEF G
  <2> DEFINE T == Seq(S)
  <2>1. <<>> \in G /\ \A v \in Seq(T) : \A z \in T : v \in G => Append(v, z) \in G
    BY <1>1, <1>2
  <2> HIDE DEF T
  <2>2. \A v \in Seq(T) : v \in G
    BY <2>1, Growing
  <2> QED
    BY <2>2 DEF T
<1> QED
  BY <1>3

LEMMA AppendExcept ==
    ASSUME NEW T, NEW q \in Seq(T), NEW z \in T, NEW l \in T
    PROVE  [Append(q, z) EXCEPT ![Len(q) + 1] = l] = Append(q, l)
<1> DEFINE a == Append(q, z)
           n == Len(q)
<1>1. /\ a \in Seq(T) /\ Len(a) = n + 1 /\ n \in Nat
      /\ \A i \in 1..n : a[i] = q[i]
  BY AppendProperties
<1>2. /\ Append(q, l) \in Seq(T) /\ Len(Append(q, l)) = n + 1
      /\ \A i \in 1..n : Append(q, l)[i] = q[i]
      /\ Append(q, l)[n + 1] = l
  BY AppendProperties
<1> HIDE DEF a, n
<1>3. /\ [a EXCEPT ![n + 1] = l] \in Seq(T)
      /\ Len([a EXCEPT ![n + 1] = l]) = n + 1
      /\ \A i \in 1..(n + 1) : [a EXCEPT ![n + 1] = l][i] = IF i = n + 1 THEN l ELSE a[i]
  BY <1>1, ExceptSeq
<1>4. ASSUME NEW i \in 1..(n + 1) PROVE [a EXCEPT ![n + 1] = l][i] = Append(q, l)[i]
  <2>1. i = n + 1 \/ (i # n + 1 /\ i \in 1..n)
    BY <1>1
  <2> QED
    BY <1>1, <1>2, <1>3, <2>1
<1>5. [a EXCEPT ![n + 1] = l] = Append(q, l)
  BY <1>2, <1>3, <1>4, SeqEqual
<1> QED
  BY <1>5 DEF a, n

LEMMA GrownJoins ==
    ASSUME NEW S, NEW c \in S, NEW p \in Pieces(S), NEW x \in S
    PROVE  Join(Grown(p, x, c), c) = Append(Join(p, c), x)
<1>1. p \in Seq(Seq(S)) /\ p # <<>> /\ <<>> \in Seq(S) /\ <<c>> \in Seq(S)
  BY DEF Pieces
<1>2. CASE x = c
  <2>1. Join(Append(p, <<>>), c) = Join(p, c) \o (<<c>> \o <<>>) /\ Join(p, c) \in Seq(S)
    BY <1>1, JoinAppend
  <2>2. Join(p, c) \o (<<c>> \o <<>>) = Append(Join(p, c), c)
    BY <1>1, <2>1, ConcatEmptySeq, AppendIsConcat
  <2> QED
    BY <1>2, <2>1, <2>2 DEF Grown
<1>3. CASE x # c
  <2>1. PICK q \in Seq(Seq(S)), z \in Seq(S) : p = Append(q, z)
    <3> DEFINE T == Seq(S)
    <3>1. p \in Seq(T) /\ p # <<>>
      BY <1>1
    <3> HIDE DEF T
    <3>2. \E q \in Seq(T), z \in T : p = Append(q, z)
      BY <3>1, SequenceEmptyOrAppend
    <3> QED
      BY <3>2 DEF T
  <2> DEFINE l == Append(z, x)
  <2>2. l \in Seq(S) /\ l = z \o <<x>> /\ <<x>> \in Seq(S)
    BY AppendProperties, AppendIsConcat
  <2>3. Grown(p, x, c) = Append(q, l)
    <3>1. Len(p) = Len(q) + 1 /\ p[Len(p)] = z /\ Len(q) \in Nat
      BY <2>1, AppendProperties
    <3>2. Grown(p, x, c) = [p EXCEPT ![Len(p)] = l]
      BY <1>3, <3>1 DEF Grown
    <3> HIDE DEF l
    <3>3. [Append(q, z) EXCEPT ![Len(q) + 1] = l] = Append(q, l)
      <4> DEFINE T == Seq(S)
      <4>1. q \in Seq(T) /\ z \in T /\ l \in T
        BY <2>2
      <4> HIDE DEF T
      <4> QED
        BY <4>1, AppendExcept
    <3> QED
      BY <2>1, <3>1, <3>2, <3>3
  <2> HIDE DEF l
  <2>4. CASE q = <<>>
    <3>1. p = <<z>> /\ Append(q, l) = <<l>>
      BY <2>1, <2>4
    <3>2. Join(<<z>>, c) = z /\ Join(<<l>>, c) = l
      BY <2>2, JoinOne
    <3> QED
      BY <2>3, <3>1, <3>2 DEF l
  <2>5. CASE q # <<>>
    <3> DEFINE j == Join(q, c)
               cz == <<c>> \o z
    <3>1. /\ Join(p, c) = j \o cz
          /\ Join(Append(q, l), c) = j \o (<<c>> \o l)
          /\ j \in Seq(S)
      <4>1. j \in Seq(S) /\ \A y \in Seq(S) : Join(Append(q, y), c) = j \o (<<c>> \o y)
        BY <2>1, <2>2, <2>5, JoinAppend, Zenon
      <4> QED
        BY <2>1, <2>2, <4>1
    <3>2. cz \in Seq(S) /\ <<c>> \o (z \o <<x>>) = cz \o <<x>>
      BY <1>1, <2>2, ConcatProperties, ConcatAssociative
    <3> HIDE DEF j, cz
    <3>3. j \o (cz \o <<x>>) = (j \o cz) \o <<x>> /\ j \o cz \in Seq(S)
      <4>1. j \o (cz \o <<x>>) = (j \o cz) \o <<x>>
        <5>1. <<x>> \in Seq(S)
          OBVIOUS
        <5>2. Assoc(j, cz, <<x>>)
          BY <3>1, <3>2, <5>1, Associative
        <5> QED
          BY <5>2 DEF Assoc
      <4>2. j \o cz \in Seq(S)
        BY <3>1, <3>2, ConcatProperties
      <4> QED
        BY <4>1, <4>2
    <3>4. (j \o cz) \o <<x>> = Append(j \o cz, x)
      BY <3>3, AppendIsConcat
    <3> QED
      BY <2>2, <2>3, <3>1, <3>2, <3>3, <3>4
  <2> QED
    BY <2>4, <2>5
<1> QED
  BY <1>2, <1>3

\* Join undoes Split.
LEMMA JoinSplit ==
    ASSUME NEW S, NEW c \in S, NEW s \in Seq(S)
    PROVE  Join(Split(s, c), c) = s
<1> DEFINE G == {t \in Seq(S) : Join(Split(t, c), c) = t}
<1>1. <<>> \in G
  BY SplitEmpty, JoinOne, EmptySeq
<1>2. ASSUME NEW t \in Seq(S), NEW x \in S, t \in G PROVE Append(t, x) \in G
  BY <1>2, SplitAppend, GrownJoins, AppendProperties
<1>3. \A t \in Seq(S) : t \in G
  <2> HIDE DEF G
  <2> QED
    BY <1>1, <1>2, Growing
<1> QED
  BY <1>3

-----------------------------------------------------------------------------
(* urldecode.                                                               *)

EscapeAt(s, i) == s[i] = Percent /\ EscapeFits(s, i) /\ IsOctet(s[i + 1], s[i + 2])

\* The text from the i-th character of s on, when f has those after it.
Rest(s, f, i) ==
    IF i > Len(s) THEN <<>>
    ELSE IF EscapeAt(s, i) THEN <<Octet(s[i + 1], s[i + 2])>> \o f[i + 3]
    ELSE <<IF s[i] = Plus THEN Space ELSE s[i]>> \o f[i + 1]

\* What urldecode calls from.
Decodes(s, f) == \A i \in 1..(Len(s) + 1) : f[i] = Rest(s, f, i)

LEMMA OctetType == ASSUME NEW h, NEW l, IsOctet(h, l) PROVE Octet(h, l) \in Nat
<1>1. HexValue \in [48..57 \cup 65..70 \cup 97..102 -> Nat]
  BY DEF HexValue
<1> QED
  BY <1>1 DEF IsOctet, Octet

LEMMA RestType ==
    ASSUME NEW s \in Text, NEW f \in [1..(Len(s) + 1) -> Text], NEW i \in 1..(Len(s) + 1)
    PROVE  Rest(s, f, i) \in Text
<1>1. Len(s) \in Nat /\ \A j \in 1..Len(s) : s[j] \in Nat
  BY DEF Text
<1>2. ASSUME NEW x \in Nat, NEW y \in Text PROVE <<x>> \o y \in Text
  <2>1. <<x>> \in Seq(Nat)
    OBVIOUS
  <2> QED
    BY <2>1, ConcatProperties DEF Text
<1>3. CASE i > Len(s)
  BY <1>3, EmptySeq DEF Rest, Text
<1>4. CASE i <= Len(s) /\ EscapeAt(s, i)
  <2>1. Octet(s[i + 1], s[i + 2]) \in Nat
    BY <1>4, OctetType DEF EscapeAt
  <2>2. i + 3 \in 1..(Len(s) + 1)
    BY <1>1, <1>4 DEF EscapeAt, EscapeFits
  <2>3. f[i + 3] \in Text
    BY <2>2
  <2>4. Rest(s, f, i) = <<Octet(s[i + 1], s[i + 2])>> \o f[i + 3]
    BY <1>1, <1>4 DEF Rest
  <2> QED
    BY <1>2, <2>1, <2>3, <2>4
<1>5. CASE i <= Len(s) /\ ~EscapeAt(s, i)
  <2>1. (IF s[i] = Plus THEN Space ELSE s[i]) \in Nat
    BY <1>1, <1>5 DEF Space
  <2>2. i + 1 \in 1..(Len(s) + 1)
    BY <1>1, <1>5
  <2>3. f[i + 1] \in Text
    BY <2>2
  <2>4. Rest(s, f, i) = <<IF s[i] = Plus THEN Space ELSE s[i]>> \o f[i + 1]
    BY <1>1, <1>5 DEF Rest
  <2> QED
    BY <1>2, <2>1, <2>3, <2>4
<1> QED
  BY <1>1, <1>3, <1>4, <1>5

LEMMA RestLater ==
    ASSUME NEW s \in Text, NEW f, NEW g, NEW i \in 1..(Len(s) + 1),
           \A j \in 1..(Len(s) + 1) : j > i => f[j] = g[j]
    PROVE  Rest(s, f, i) = Rest(s, g, i)
<1>1. Len(s) \in Nat
  BY DEF Text
<1>2. EscapeAt(s, i) /\ i <= Len(s) => f[i + 3] = g[i + 3]
  BY <1>1 DEF EscapeAt, EscapeFits
<1>3. i <= Len(s) => f[i + 1] = g[i + 1]
  BY <1>1
<1> QED
  BY <1>1, <1>2, <1>3 DEF Rest

LEMMA DecodesExist ==
    ASSUME NEW s \in Text
    PROVE  \E f \in [1..(Len(s) + 1) -> Text] : Decodes(s, f)
<1> DEFINE n == Len(s) + 1
           From(f, k) == \A i \in 1..n : i > k => f[i] = Rest(s, f, i)
           G == {k \in Nat : k <= n => \E f \in [1..n -> Text] : From(f, n - k)}
<1>1. n \in Nat
  BY DEF Text
<1>2. 0 \in G
  <2>1. [i \in 1..n |-> <<>>] \in [1..n -> Text] /\ From([i \in 1..n |-> <<>>], n)
    BY <1>1 DEF Text
  <2> QED
    BY <1>1, <2>1
<1>3. ASSUME NEW k \in Nat, k \in G PROVE k + 1 \in G
  <2> SUFFICES ASSUME k + 1 <= n PROVE \E f \in [1..n -> Text] : From(f, n - (k + 1))
    OBVIOUS
  <2>1. PICK f \in [1..n -> Text] : From(f, n - k)
    BY <1>1, <1>3
  <2> DEFINE m == n - k
             v == Rest(s, f, m)
             g == [f EXCEPT ![m] = v]
  <2>2. m \in 1..n
    BY <1>1
  <2>3. v \in Text
    BY <2>2, RestType
  <2> HIDE DEF v
  <2>4. g \in [1..n -> Text] /\ g[m] = v /\ \A i \in 1..n : i # m => g[i] = f[i]
    BY <2>2, <2>3
  <2> HIDE DEF g
  <2>5. ASSUME NEW i \in 1..n, i > n - (k + 1) PROVE g[i] = Rest(s, g, i)
    <3>1. \A j \in 1..(Len(s) + 1) : j > i => f[j] = g[j]
      BY <1>1, <2>4, <2>5
    <3>2. Rest(s, f, i) = Rest(s, g, i)
      BY <3>1, RestLater
    <3>3. CASE i = m
      BY <2>4, <3>2, <3>3 DEF v
    <3>4. CASE i # m
      <4>1. i > n - k
        BY <1>1, <2>5, <3>4
      <4>2. f[i] = Rest(s, f, i)
        BY <2>1, <4>1
      <4> QED
        BY <2>4, <3>2, <3>4, <4>2
    <3> QED
      BY <3>3, <3>4
  <2> QED
    BY <2>4, <2>5
<1>4. n \in G
  <2> HIDE DEF G
  <2> QED
    BY <1>1, <1>2, <1>3, Induction
<1>5. PICK f \in [1..n -> Text] : From(f, n - n)
  BY <1>4
<1>6. Decodes(s, f)
  BY <1>1, <1>5 DEF Decodes
<1> QED
  BY <1>6

\* What a text decodes to from some place on is what it decodes to without
\* the characters before that place.
LEMMA DecodesSuffix ==
    ASSUME NEW p \in Text, NEW t \in Text
    PROVE  \A f, g : Decodes(p \o t, f) /\ Decodes(t, g) => f[Len(p) + 1] = g[1]
<1> SUFFICES ASSUME NEW f, NEW g, NEW s, s = p \o t, Decodes(s, f), Decodes(t, g)
             PROVE  f[Len(p) + 1] = g[1]
  OBVIOUS
<1> DEFINE m == Len(p)
           n == Len(t) + 1
           G == {k \in Nat : \A i \in 1..n : i > n - k => f[m + i] = g[i]}
<1>1. /\ m \in Nat /\ Len(t) \in Nat /\ n \in Nat
      /\ s \in Text /\ Len(s) = m + Len(t)
      /\ \A i \in 1..Len(t) : s[m + i] = t[i]
  BY ConcatProperties DEF Text
<1>2. 0 \in G
  BY <1>1
<1>3. ASSUME NEW k \in Nat, k \in G PROVE k + 1 \in G
  <2> SUFFICES ASSUME NEW i \in 1..n, i > n - (k + 1) PROVE f[m + i] = g[i]
    OBVIOUS
  <2>1. f[m + i] = Rest(s, f, m + i) /\ g[i] = Rest(t, g, i)
    <3>1. m + i \in 1..(Len(s) + 1) /\ i \in 1..(Len(t) + 1)
      BY <1>1
    <3> QED
      BY <3>1 DEF Decodes
  <2>2. \A j \in 1..n : j > i => f[m + j] = g[j]
    <3>1. \A j \in 1..n : j > i => j > n - k
      BY <1>1
    <3> QED
      BY <1>3, <3>1
  <2>3. m + i > Len(s) <=> i > Len(t)
    BY <1>1
  <2>4. CASE i > Len(t)
    BY <2>1, <2>3, <2>4 DEF Rest
  <2>5. CASE i <= Len(t)
    <3>1. s[m + i] = t[i] /\ (EscapeFits(s, m + i) <=> EscapeFits(t, i))
      BY <1>1, <2>5 DEF EscapeFits
    <3>2. EscapeFits(t, i) => s[m + i + 1] = t[i + 1] /\ s[m + i + 2] = t[i + 2]
      <4>1. ASSUME EscapeFits(t, i) PROVE i + 1 \in 1..Len(t) /\ i + 2 \in 1..Len(t)
        BY <1>1, <4>1 DEF EscapeFits
      <4>2. m + (i + 1) = m + i + 1 /\ m + (i + 2) = m + i + 2
        BY <1>1
      <4> QED
        BY <1>1, <4>1, <4>2
    <3>3. EscapeAt(s, m + i) <=> EscapeAt(t, i)
      BY <3>1, <3>2 DEF EscapeAt
    <3>4. CASE EscapeAt(t, i)
      <4>1. EscapeFits(t, i)
        BY <3>4 DEF EscapeAt
      <4>2. i + 3 \in 1..n /\ i + 3 > i /\ m + (i + 3) = m + i + 3
        BY <1>1, <4>1 DEF EscapeFits
      <4>3. f[m + i + 3] = g[i + 3]
        BY <2>2, <4>2
      <4>4. Rest(s, f, m + i) = <<Octet(s[m + i + 1], s[m + i + 2])>> \o f[m + i + 3]
        <5>1. EscapeAt(s, m + i) /\ ~(m + i > Len(s))
          BY <1>1, <2>3, <2>5, <3>3, <3>4
        <5> QED
          BY <5>1 DEF Rest
      <4>5. Rest(t, g, i) = <<Octet(t[i + 1], t[i + 2])>> \o g[i + 3]
        <5>1. EscapeAt(t, i) /\ ~(i > Len(t))
          BY <1>1, <2>5, <3>4
        <5> QED
          BY <5>1 DEF Rest
      <4> QED
        BY <2>1, <3>2, <4>1, <4>3, <4>4, <4>5
    <3>5. CASE ~EscapeAt(t, i)
      <4>1. i + 1 \in 1..n /\ i + 1 > i /\ m + (i + 1) = m + i + 1
        BY <1>1, <2>5
      <4>2. f[m + i + 1] = g[i + 1]
        BY <2>2, <4>1
      <4>3. Rest(s, f, m + i) = <<IF s[m + i] = Plus THEN Space ELSE s[m + i]>> \o f[m + i + 1]
        <5>1. ~EscapeAt(s, m + i) /\ ~(m + i > Len(s))
          BY <1>1, <2>3, <2>5, <3>3, <3>5
        <5> QED
          BY <5>1 DEF Rest
      <4>4. Rest(t, g, i) = <<IF t[i] = Plus THEN Space ELSE t[i]>> \o g[i + 1]
        <5>1. ~EscapeAt(t, i) /\ ~(i > Len(t))
          BY <1>1, <2>5, <3>5
        <5> QED
          BY <5>1 DEF Rest
      <4> QED
        BY <2>1, <3>1, <4>2, <4>3, <4>4
    <3> QED
      BY <3>4, <3>5
  <2> QED
    BY <1>1, <2>4, <2>5
<1>4. n \in G
  <2> HIDE DEF G
  <2> QED
    BY <1>1, <1>2, <1>3, Induction
<1> QED
  BY <1>1, <1>4

LEMMA DecodedBy ==
    ASSUME NEW s \in Text, NEW f, Decodes(s, f)
    PROVE  urldecode[s] = f[1]
<1> DEFINE Body(g) == [i \in 1..(Len(s) + 1) |-> Rest(s, g, i)]
           F == CHOOSE g : g = Body(g)
<1>1. PICK g \in [1..(Len(s) + 1) -> Text] : Decodes(s, g)
  BY DecodesExist
<1>2. g = Body(g)
  <2>1. g = [i \in 1..(Len(s) + 1) |-> g[i]] /\ \A i \in 1..(Len(s) + 1) : g[i] = Rest(s, g, i)
    BY <1>1 DEF Decodes
  <2> QED
    BY <2>1, Zenon
<1>3. F = Body(F)
  BY <1>2, Zenon
<1>4. urldecode[s] = F[1]
  BY DEF urldecode, Rest, EscapeAt
<1> HIDE DEF F
<1>5. Decodes(s, F)
  BY <1>3 DEF Decodes
<1>6. F[1] = f[1]
  <2>1. <<>> \in Text /\ <<>> \o s = s /\ Len(<<>>) = 0 /\ Len(s) \in Nat
    BY ConcatEmptySeq DEF Text
  <2>2. \A k, h : Decodes(<<>> \o s, k) /\ Decodes(s, h) => k[Len(<<>>) + 1] = h[1]
    BY <2>1, DecodesSuffix
  <2>3. F[Len(<<>>) + 1] = f[1]
    BY <1>5, <2>1, <2>2
  <2> QED
    BY <2>1, <2>3
<1> QED
  BY <1>4, <1>6

LEMMA DecodeEmpty == urldecode[<<>>] = <<>>
<1>1. <<>> \in Text /\ Len(<<>>) = 0
  BY DEF Text
<1>2. PICK f : Decodes(<<>>, f)
  BY <1>1, DecodesExist
<1>3. f[1] = <<>>
  <2>1. 1 \in 1..(Len(<<>>) + 1) /\ 1 > Len(<<>>)
    BY <1>1
  <2>2. f[1] = Rest(<<>>, f, 1)
    BY <1>2, <2>1 DEF Decodes
  <2> QED
    BY <2>1, <2>2 DEF Rest
<1> QED
  BY <1>1, <1>2, <1>3, DecodedBy

LEMMA DecodeType == ASSUME NEW s \in Text PROVE urldecode[s] \in Text
<1>1. PICK f \in [1..(Len(s) + 1) -> Text] : Decodes(s, f)
  BY DecodesExist
<1>2. urldecode[s] = f[1] /\ 1 \in 1..(Len(s) + 1)
  BY <1>1, DecodedBy DEF Text
<1> QED
  BY <1>1, <1>2

\* A character that is neither a percent nor a plus sign stands for itself.
LEMMA DecodeLiteral ==
    ASSUME NEW x \in Nat, x # Percent, NEW t \in Text
    PROVE  urldecode[<<x>> \o t] = <<IF x = Plus THEN Space ELSE x>> \o urldecode[t]
<1> DEFINE s == <<x>> \o t
<1>1. /\ <<x>> \in Text /\ Len(<<x>>) = 1 /\ Len(t) \in Nat
      /\ s \in Text /\ Len(s) = Len(t) + 1 /\ s[1] = x
  BY ConcatProperties DEF Text
<1>2. PICK f : Decodes(s, f)
  BY <1>1, DecodesExist
<1>3. PICK g : Decodes(t, g)
  BY DecodesExist
<1>4. f[2] = g[1]
  <2>1. \A h, k : Decodes(s, h) /\ Decodes(t, k) => h[Len(<<x>>) + 1] = k[1]
    BY <1>1, DecodesSuffix
  <2> QED
    BY <1>1, <1>2, <1>3, <2>1
<1>5. urldecode[s] = f[1] /\ urldecode[t] = g[1]
  BY <1>1, <1>2, <1>3, DecodedBy
<1> HIDE DEF s
<1>6. f[1] = <<IF x = Plus THEN Space ELSE x>> \o f[2]
  <2>1. 1 \in 1..(Len(s) + 1) /\ ~(1 > Len(s)) /\ 1 + 1 = 2 /\ ~EscapeAt(s, 1)
    BY <1>1 DEF EscapeAt
  <2>2. f[1] = Rest(s, f, 1)
    BY <1>2, <2>1 DEF Decodes
  <2>3. Rest(s, f, 1) = <<IF s[1] = Plus THEN Space ELSE s[1]>> \o f[1 + 1]
    BY <2>1 DEF Rest
  <2> QED
    BY <1>1, <2>1, <2>2, <2>3
<1> QED
  BY <1>4, <1>5, <1>6 DEF s

\* An escape stands for the character of its number.
LEMMA DecodeEscape ==
    ASSUME NEW h \in Nat, NEW l \in Nat, IsOctet(h, l), NEW t \in Text
    PROVE  urldecode[<<Percent, h, l>> \o t] = <<Octet(h, l)>> \o urldecode[t]
<1> DEFINE p == <<Percent, h, l>>
           s == p \o t
<1>1. /\ p \in Text /\ Len(p) = 3 /\ Len(t) \in Nat
      /\ s \in Text /\ Len(s) = Len(t) + 3
      /\ s[1] = Percent /\ s[2] = h /\ s[3] = l
  <2>1. p \in Text /\ Len(p) = 3 /\ Len(t) \in Nat /\ p[1] = Percent /\ p[2] = h /\ p[3] = l
    BY DEF Text, Percent
  <2> HIDE DEF p
  <2>2. /\ s \in Text /\ Len(s) = Len(p) + Len(t)
        /\ \A i \in 1..(Len(p) + Len(t)) : s[i] = IF i <= Len(p) THEN p[i] ELSE t[i - Len(p)]
    BY <2>1, ConcatProperties DEF Text
  <2> QED
    BY <2>1, <2>2
<1>2. PICK f : Decodes(s, f)
  BY <1>1, DecodesExist
<1>3. PICK g : Decodes(t, g)
  BY DecodesExist
<1>4. f[4] = g[1]
  <2>1. \A d, k : Decodes(s, d) /\ Decodes(t, k) => d[Len(p) + 1] = k[1]
    BY <1>1, DecodesSuffix
  <2> QED
    BY <1>1, <1>2, <1>3, <2>1
<1>5. urldecode[s] = f[1] /\ urldecode[t] = g[1]
  BY <1>1, <1>2, <1>3, DecodedBy
<1> HIDE DEF s
<1>6. f[1] = <<Octet(h, l)>> \o f[4]
  <2>1. 1 + 1 = 2 /\ 1 + 2 = 3 /\ 1 + 3 = 4 /\ 1 \in 1..(Len(s) + 1) /\ ~(1 > Len(s))
    BY <1>1
  <2>2. EscapeAt(s, 1)
    BY <1>1, <2>1 DEF EscapeAt, EscapeFits
  <2>3. f[1] = Rest(s, f, 1)
    BY <1>2, <2>1 DEF Decodes
  <2>4. Rest(s, f, 1) = <<Octet(s[1 + 1], s[1 + 2])>> \o f[1 + 3]
    BY <2>1, <2>2 DEF Rest
  <2> QED
    BY <1>1, <2>1, <2>3, <2>4
<1> QED
  BY <1>4, <1>5, <1>6 DEF s

-----------------------------------------------------------------------------
(* What a client writes.                                                    *)

\* The ways a character may be written anywhere in a target.
Ways(c) == Escaped(c) \cup As(c, 0..127 \ {Space, Percent, Plus})
                      \cup IF c = Space THEN {<<Plus>>} ELSE {}

\* Two digits that stand for c and are no delimiter.
Digits(h, l, c) ==
    /\ IsOctet(h, l)
    /\ Octet(h, l) = c
    /\ {h, l} \cap {Ampersand, Equals, Slash} = {}

LEMMA EscapedIsRead ==
    ASSUME NEW c \in 0..127, NEW e \in Escaped(c)
    PROVE  \E h, l \in Nat : e = <<Percent, h, l>> /\ Digits(h, l, c)
<1> DEFINE digit(d, a) == IF d < 10 THEN 48 + d ELSE a + d - 10
<1>1. PICK a \in {65, 97} : e = <<Percent, digit(c \div 16, a), digit(c % 16, a)>>
  BY DEF Escaped
<1>2. /\ c \div 16 \in 0..15 /\ c % 16 \in 0..15
      /\ c = 16 * (c \div 16) + (c % 16)
  OBVIOUS
<1>3. ASSUME NEW d \in 0..15
      PROVE  /\ digit(d, a) \in Nat /\ digit(d, a) \in DOMAIN HexValue
             /\ HexValue[digit(d, a)] = d
             /\ digit(d, a) \notin {Ampersand, Equals, Slash, Plus}
  <2>1. digit(d, a) \in 48..57 \cup 65..70 \cup 97..102
    OBVIOUS
  <2> QED
    BY <2>1 DEF HexValue, Ampersand, Equals, Slash, Plus
<1> DEFINE h == digit(c \div 16, a)
           l == digit(c % 16, a)
<1>4. IsOctet(h, l) /\ Octet(h, l) = c
  BY <1>2, <1>3 DEF IsOctet, Octet
<1>5. h \in Nat /\ l \in Nat /\ {h, l} \cap {Ampersand, Equals, Slash} = {}
  BY <1>2, <1>3
<1>6. e = <<Percent, h, l>>
  BY <1>1
<1> HIDE DEF h, l
<1> QED
  BY <1>4, <1>5, <1>6 DEF Digits

LEMMA WaysType == ASSUME NEW c \in 0..127, NEW e \in Ways(c) PROVE e \in Text
<1>1. CASE e \in Escaped(c)
  <2>1. PICK h, l \in Nat : e = <<Percent, h, l>> /\ Digits(h, l, c)
    BY <1>1, EscapedIsRead
  <2> QED
    BY <2>1 DEF Text, Percent
<1>2. CASE e = <<c>>
  BY <1>2 DEF Text
<1>3. CASE e = <<Plus>>
  BY <1>3 DEF Text, Plus
<1> QED
  BY <1>1, <1>2, <1>3 DEF Ways, As

\* Whichever way a character is written, it is read.
LEMMA WaysAreRead ==
    ASSUME NEW c \in 0..127, NEW e \in Ways(c), NEW t \in Text
    PROVE  urldecode[e \o t] = <<c>> \o urldecode[t]
<1>1. CASE e \in Escaped(c)
  <2>1. PICK h, l \in Nat : e = <<Percent, h, l>> /\ Digits(h, l, c)
    BY <1>1, EscapedIsRead
  <2>2. IsOctet(h, l) /\ Octet(h, l) = c
    BY <2>1 DEF Digits
  <2>3. urldecode[<<Percent, h, l>> \o t] = <<Octet(h, l)>> \o urldecode[t]
    BY <2>2, DecodeEscape
  <2> QED
    BY <2>1, <2>2, <2>3
<1>2. CASE e = <<c>> /\ c # Percent /\ c # Plus
  <2> c \in Nat
    OBVIOUS
  <2>1. urldecode[<<c>> \o t] = <<IF c = Plus THEN Space ELSE c>> \o urldecode[t]
    BY <1>2, DecodeLiteral
  <2> QED
    BY <1>2, <2>1
<1>3. CASE c = Space /\ e = <<Plus>>
  <2>1. Plus \in Nat /\ Plus # Percent
    BY DEF Plus, Percent
  <2>2. urldecode[<<Plus>> \o t] = <<IF Plus = Plus THEN Space ELSE Plus>> \o urldecode[t]
    BY <2>1, DecodeLiteral
  <2> QED
    BY <1>3, <2>2
<1> QED
  BY <1>1, <1>2, <1>3 DEF Ways, As

\* w is a way to write text, character by character.
Spells(w, text) == Len(w) = Len(text) /\ \A i \in 1..Len(w) : w[i] \in Ways(text[i])

\* The text ends with a character that e is a way to write.
SpellsLast(w, e, text) ==
    \E u \in Texts, c \in 0..127 : text = Append(u, c) /\ Spells(w, u) /\ e \in Ways(c)

LEMMA SpellsAppend ==
    ASSUME NEW w \in Seq(Text), NEW e \in Text, NEW text \in Texts, Spells(Append(w, e), text)
    PROVE  SpellsLast(w, e, text)
<1> DEFINE v == Append(w, e)
           n == Len(w)
<1>1. /\ n \in Nat /\ Len(v) = n + 1 /\ v[n + 1] = e
      /\ \A i \in 1..n : v[i] = w[i]
  BY AppendProperties
<1>2. Len(text) = n + 1 /\ \A i \in 1..(n + 1) : v[i] \in Ways(text[i])
  BY <1>1 DEF Spells
<1>3. text # <<>>
  BY <1>1, <1>2, EmptySeq DEF Texts
<1>4. PICK u \in Texts, c \in 0..127 : text = Append(u, c)
  BY <1>3, SequenceEmptyOrAppend DEF Texts
<1>5. Len(u) = n /\ text[n + 1] = c /\ \A i \in 1..n : text[i] = u[i]
  BY <1>1, <1>2, <1>4, AppendProperties DEF Texts
<1>6. e \in Ways(c)
  BY <1>1, <1>2, <1>5
<1>7. Spells(w, u)
  BY <1>1, <1>2, <1>5 DEF Spells
<1> QED
  BY <1>4, <1>6, <1>7 DEF SpellsLast

LEMMA TextsAreText == \A t \in Texts : t \in Text
BY 0..127 \subseteq Nat, SeqMonotonic DEF Texts, Text

LEMMA TextAssociative ==
    ASSUME NEW a \in Text, NEW b \in Text, NEW c \in Text
    PROVE  Assoc(a, b, c)
BY Associative DEF Text

\* A text that was written is read back, whatever follows it.
LEMMA SpelledIsRead ==
    \A w \in Seq(Text) : \A text \in Texts, t \in Text :
        Spells(w, text) => urldecode[FlattenSeq(w) \o t] = text \o urldecode[t]
<1> DEFINE Read(w) == \A text \in Texts, t \in Text :
                Spells(w, text) => urldecode[FlattenSeq(w) \o t] = text \o urldecode[t]
           G == {w \in Seq(Text) : Read(w)}
<1>1. <<>> \in G
  <2> SUFFICES ASSUME NEW text \in Texts, NEW t \in Text, Spells(<<>>, text)
               PROVE  urldecode[FlattenSeq(<<>>) \o t] = text \o urldecode[t]
    BY EmptySeq
  <2>1. text = <<>>
    BY EmptySeq DEF Spells, Texts
  <2>2. FlattenSeq(<<>>) \o t = t
    BY FlattenEmpty, ConcatEmptySeq DEF Text
  <2>3. text \o urldecode[t] = urldecode[t]
    BY <2>1, DecodeType, ConcatEmptySeq DEF Text
  <2> QED
    BY <2>2, <2>3
<1>2. ASSUME NEW w \in Seq(Text), NEW e \in Text, w \in G PROVE Append(w, e) \in G
  <2>1. Append(w, e) \in Seq(Text)
    BY AppendProperties
  <2>2. ASSUME NEW text \in Texts, NEW t \in Text, Spells(Append(w, e), text)
        PROVE  urldecode[FlattenSeq(Append(w, e)) \o t] = text \o urldecode[t]
    <3>1. PICK u \in Texts, c \in 0..127 : text = Append(u, c) /\ Spells(w, u) /\ e \in Ways(c)
      <4>1. SpellsLast(w, e, text)
        BY <2>2, SpellsAppend
      <4> QED
        BY <4>1 DEF SpellsLast
    <3>2. /\ e \o t \in Text /\ urldecode[t] \in Text /\ FlattenSeq(w) \in Text
          /\ FlattenSeq(Append(w, e)) = FlattenSeq(w) \o e
      BY ConcatProperties, DecodeType, FlattenAppend DEF Text
    <3>3. (FlattenSeq(w) \o e) \o t = FlattenSeq(w) \o (e \o t)
      <4>1. Assoc(FlattenSeq(w), e, t)
        BY <3>2, TextAssociative
      <4> QED
        BY <4>1 DEF Assoc
    <3>4. urldecode[FlattenSeq(w) \o (e \o t)] = u \o urldecode[e \o t]
      BY <1>2, <3>1, <3>2
    <3>5. urldecode[e \o t] = <<c>> \o urldecode[t]
      BY <3>1, WaysAreRead
    <3>6. text = u \o <<c>> /\ u \in Text /\ <<c>> \in Text
      <4>1. u \in Seq(Nat)
        BY <3>1, TextsAreText DEF Text
      <4>2. c \in Nat
        BY <3>1
      <4> QED
        BY <3>1, <4>1, <4>2, AppendIsConcat DEF Text
    <3>7. (u \o <<c>>) \o urldecode[t] = u \o (<<c>> \o urldecode[t])
      <4>1. Assoc(u, <<c>>, urldecode[t])
        BY <3>2, <3>6, TextAssociative
      <4> QED
        BY <4>1 DEF Assoc
    <3> QED
      BY <3>2, <3>3, <3>4, <3>5, <3>6, <3>7
  <2> HIDE DEF Read
  <2> QED
    BY <2>1, <2>2 DEF Read
<1>3. \A w \in Seq(Text) : w \in G
  <2> HIDE DEF G
  <2> QED
    BY <1>1, <1>2, Growing
<1> QED
  BY <1>3

-----------------------------------------------------------------------------
(* OneOfEach.                                                               *)

Picked(sets) ==
    {w \in Seq(Text) : Len(w) = Len(sets) /\ \A i \in 1..Len(w) : w[i] \in sets[i]}

Extended(W, A) == {Append(w, x) : w \in W, x \in A}

LEMMA PickedEmpty == Picked(<<>>) = {<<>>}
<1>1. <<>> \in Seq(Text) /\ Len(<<>>) = 0
  BY EmptySeq
<1>2. \A w \in Seq(Text) : Len(w) = 0 => w = <<>>
  BY EmptySeq
<1>3. ASSUME NEW w \in Picked(<<>>) PROVE w = <<>>
  <2>1. w \in Seq(Text) /\ Len(w) = Len(<<>>)
    BY <1>3 DEF Picked
  <2> QED
    BY <1>1, <1>2, <2>1
<1>4. <<>> \in Picked(<<>>)
  BY <1>1 DEF Picked
<1> QED
  BY <1>3, <1>4

LEMMA PickedAppend ==
    ASSUME NEW sets \in Seq(SUBSET Text), NEW A \in SUBSET Text
    PROVE  Picked(Append(sets, A)) = Extended(Picked(sets), A)
<1> DEFINE all == Append(sets, A)
           n == Len(sets)
<1>1. /\ n \in Nat /\ Len(all) = n + 1 /\ all[n + 1] = A
      /\ \A i \in 1..n : all[i] = sets[i]
  BY AppendProperties
<1> HIDE DEF all
<1>2. ASSUME NEW v \in Picked(all) PROVE v \in Extended(Picked(sets), A)
  <2>1. v \in Seq(Text) /\ Len(v) = n + 1 /\ \A i \in 1..(n + 1) : v[i] \in all[i]
    BY <1>1, <1>2 DEF Picked
  <2>2. v # <<>>
    BY <1>1, <2>1, EmptySeq
  <2>3. PICK w \in Seq(Text), x \in Text : v = Append(w, x)
    BY <2>1, <2>2, SequenceEmptyOrAppend
  <2>4. Len(w) = n /\ v[n + 1] = x /\ \A i \in 1..n : v[i] = w[i]
    BY <1>1, <2>1, <2>3, AppendProperties
  <2>5. x \in A /\ \A i \in 1..n : w[i] \in sets[i]
    BY <1>1, <2>1, <2>4
  <2>6. w \in Picked(sets)
    BY <2>3, <2>4, <2>5 DEF Picked
  <2> QED
    BY <2>3, <2>5, <2>6 DEF Extended
<1>3. ASSUME NEW w \in Picked(sets), NEW x \in A PROVE Append(w, x) \in Picked(all)
  <2>1. w \in Seq(Text) /\ Len(w) = n /\ (\A i \in 1..n : w[i] \in sets[i]) /\ x \in Text
    BY <1>3 DEF Picked
  <2>2. /\ Append(w, x) \in Seq(Text) /\ Len(Append(w, x)) = n + 1
        /\ Append(w, x)[n + 1] = x
        /\ \A i \in 1..n : Append(w, x)[i] = w[i]
    BY <2>1, AppendProperties
  <2>3. \A i \in 1..(n + 1) : Append(w, x)[i] \in all[i]
    BY <1>1, <1>3, <2>1, <2>2
  <2> QED
    BY <1>1, <2>2, <2>3 DEF Picked
<1>4. ASSUME NEW v \in Extended(Picked(sets), A) PROVE v \in Picked(all)
  <2>1. PICK w \in Picked(sets), x \in A : v = Append(w, x)
    BY <1>4 DEF Extended
  <2> QED
    BY <1>3, <2>1
<1>5. Picked(all) = Extended(Picked(sets), A)
  BY <1>2, <1>4
<1> QED
  BY <1>5 DEF all

LEMMA OneOfEachIsPicked ==
    \A sets \in Seq(SUBSET Text) : OneOfEach[sets] = Picked(sets)
<1> DEFINE D == Seq(SUBSET Text)
           Body(f) == [sets \in D |->
               IF sets = <<>> THEN {<<>>} ELSE Extended(f[Front(sets)], Last(sets))]
           F == CHOOSE f : f = Body(f)
           P == [sets \in D |-> Picked(sets)]
<1>1. ASSUME NEW s \in D, NEW A \in SUBSET Text
      PROVE  /\ Append(s, A) \in D /\ Append(s, A) # <<>>
             /\ Front(Append(s, A)) = s /\ Last(Append(s, A)) = A
  <2>1. /\ Append(s, A) \in D /\ Append(s, A) # <<>>
        /\ Len(Append(s, A)) = Len(s) + 1 /\ Len(s) \in Nat
        /\ Append(s, A)[Len(s) + 1] = A
    BY AppendProperties, LenProperties
  <2>2. SubSeq(Append(s, A), 1, Len(s)) = s
    OBVIOUS
  <2> QED
    BY <2>1, <2>2 DEF Front, Last
<1>2. P = Body(P)
  <2>1. ASSUME NEW sets \in D
        PROVE  P[sets] = IF sets = <<>> THEN {<<>>} ELSE Extended(P[Front(sets)], Last(sets))
    <3>1. CASE sets = <<>>
      BY <3>1, PickedEmpty
    <3>2. CASE sets # <<>>
      <4>1. PICK s \in D, A \in SUBSET Text : sets = Append(s, A)
        BY <3>2, SequenceEmptyOrAppend
      <4>2. Front(sets) = s /\ Last(sets) = A
        BY <1>1, <4>1
      <4>3. Picked(sets) = Extended(Picked(s), A)
        BY <4>1, PickedAppend
      <4>4. P[sets] = Picked(sets) /\ P[s] = Picked(s)
        OBVIOUS
      <4> HIDE DEF P, D
      <4> QED
        BY <3>2, <4>2, <4>3, <4>4
    <3> QED
      BY <3>1, <3>2
  <2> QED
    BY <2>1
<1>3. F = Body(F)
  <2> HIDE DEF P, Body
  <2> QED
    BY <1>2
<1>4. OneOfEach = F
  BY DEF OneOfEach, Extended
<1> HIDE DEF F
<1>5. /\ F[<<>>] = {<<>>}
      /\ \A s \in D, A \in SUBSET Text : F[Append(s, A)] = Extended(F[s], A)
  <2>1. <<>> \in D
    BY EmptySeq
  <2>2. \A sets \in D :
            F[sets] = IF sets = <<>> THEN {<<>>} ELSE Extended(F[Front(sets)], Last(sets))
    <3> HIDE DEF D
    <3> QED
      BY <1>3
  <2> HIDE DEF D
  <2>3. ASSUME NEW s \in D, NEW A \in SUBSET Text
        PROVE  F[Append(s, A)] = Extended(F[s], A)
    <3> DEFINE all == Append(s, A)
    <3>1. all \in D /\ all # <<>> /\ Front(all) = s /\ Last(all) = A
      BY <1>1
    <3> HIDE DEF all
    <3>2. F[all] = Extended(F[s], A)
      BY <2>2, <3>1
    <3> QED
      BY <3>2 DEF all
  <2> QED
    BY <2>1, <2>2, <2>3
<1> DEFINE G == {sets \in D : F[sets] = Picked(sets)}
<1>6. \A sets \in D : sets \in G
  <2>1. <<>> \in G
    BY <1>5, PickedEmpty, EmptySeq
  <2>2. ASSUME NEW s \in D, NEW A \in SUBSET Text, s \in G PROVE Append(s, A) \in G
    <3>1. F[Append(s, A)] = Extended(F[s], A) /\ F[s] = Picked(s)
      BY <1>5, <2>2
    <3> QED
      BY <1>1, <3>1, PickedAppend
  <2> HIDE DEF G
  <2> QED
    BY <2>1, <2>2, Growing
<1> QED
  BY <1>4, <1>6

-----------------------------------------------------------------------------
(* Written: what is written stands for the text, and has only the           *)
(* characters that its pieces have.                                         *)

LEMMA WrittenIs ==
    ASSUME NEW S, S \subseteq Nat, NEW text \in Texts,
           NEW sets, DOMAIN sets = DOMAIN text,
           sets \in [DOMAIN text -> SUBSET Seq(S)],
           \A i \in DOMAIN text : sets[i] \subseteq Ways(text[i]),
           NEW w \in OneOfEach[sets]
    PROVE  FlattenSeq(w) \in Seq(S) /\ urldecode[FlattenSeq(w)] = text
<1>1. DOMAIN text = 1..Len(text) /\ Len(text) \in Nat /\ \A i \in 1..Len(text) : text[i] \in 0..127
  BY LenProperties, ElementOfSeq DEF Texts
<1>2. Seq(S) \subseteq Text
  BY SeqMonotonic DEF Text
<1>3. sets \in Seq(SUBSET Text) /\ Len(sets) = Len(text)
  <2>1. sets \in [1..Len(text) -> SUBSET Text]
    BY <1>1, <1>2
  <2> HIDE DEF Texts
  <2> QED
    BY <1>1, <2>1
<1>4. w \in Picked(sets)
  BY <1>3, OneOfEachIsPicked
<1>5. w \in Seq(Text) /\ Len(w) = Len(text) /\ \A i \in 1..Len(w) : w[i] \in sets[i]
  BY <1>3, <1>4 DEF Picked
<1>6. Spells(w, text)
  BY <1>1, <1>5 DEF Spells
<1>7. w \in Seq(Seq(S))
  <2>1. w \in [1..Len(w) -> Text] /\ Len(w) \in Nat
    BY <1>5
  <2>2. \A i \in 1..Len(w) : w[i] \in Seq(S)
    BY <1>1, <1>5
  <2>3. w \in [1..Len(w) -> Seq(S)]
    BY <2>1, <2>2
  <2> QED
    BY <2>1, <2>3
<1>8. FlattenSeq(w) \in Seq(S)
  BY <1>7, FlattenAppend, EmptySeq
<1>9. urldecode[FlattenSeq(w) \o <<>>] = text \o urldecode[<<>>]
  <2>1. <<>> \in Text
    BY EmptySeq DEF Text
  <2> QED
    BY <1>5, <1>6, <2>1, SpelledIsRead
<1> QED
  BY <1>8, <1>9, <1>2, DecodeEmpty, ConcatEmptySeq DEF Texts

LEMMA EscapedType ==
    ASSUME NEW c \in 0..127, NEW e \in Escaped(c)
    PROVE  e \in Seq(Nat \ {Ampersand, Equals, Slash})
<1>1. PICK h, l \in Nat : e = <<Percent, h, l>> /\ Digits(h, l, c)
  BY EscapedIsRead
<1>2. Percent \in Nat \ {Ampersand, Equals, Slash}
  BY DEF Percent, Ampersand, Equals, Slash
<1>3. h \in Nat \ {Ampersand, Equals, Slash} /\ l \in Nat \ {Ampersand, Equals, Slash}
  <2>1. {h, l} \cap {Ampersand, Equals, Slash} = {}
    BY <1>1 DEF Digits
  <2> QED
    BY <2>1
<1> QED
  BY <1>1, <1>2, <1>3

LEMMA InPathIs ==
    ASSUME NEW c \in 0..127
    PROVE  InPath(c) \subseteq Ways(c) /\ InPath(c) \subseteq Seq(Nat \ {Slash})
<1>1. Escaped(c) \subseteq Seq(Nat \ {Slash})
  <2>1. Seq(Nat \ {Ampersand, Equals, Slash}) \subseteq Seq(Nat \ {Slash})
    BY SeqMonotonic
  <2> QED
    BY <2>1, EscapedType
<1>2. c # Slash => <<c>> \in Seq(Nat \ {Slash})
  OBVIOUS
<1> QED
  BY <1>1, <1>2 DEF InPath, Ways, As

LEMMA InRestIs ==
    ASSUME NEW c \in 0..127
    PROVE  InRest(c) \subseteq Ways(c) /\ InRest(c) \subseteq Seq(Nat)
<1>1. InRest(c) \subseteq Ways(c)
  <2>1. c = Slash => c \in 0..127 \ {Space, Percent, Plus}
    BY DEF Space, Percent, Plus, Slash
  <2>2. As(c, {Slash}) \subseteq As(c, 0..127 \ {Space, Percent, Plus})
    BY <2>1 DEF As
  <2> QED
    <3>1. InPath(c) \subseteq Ways(c)
      BY InPathIs
    <3>2. As(c, {Slash}) \subseteq Ways(c)
      BY <2>2 DEF Ways
    <3> QED
      BY <3>1, <3>2 DEF InRest
<1> QED
  BY <1>1, WaysType DEF Text

LEMMA InKeyIs ==
    ASSUME NEW c \in 0..127
    PROVE  InKey(c) \subseteq Ways(c) /\ InKey(c) \subseteq Seq(Nat \ {Ampersand, Equals})
<1>1. Escaped(c) \subseteq Seq(Nat \ {Ampersand, Equals})
  <2>1. Seq(Nat \ {Ampersand, Equals, Slash}) \subseteq Seq(Nat \ {Ampersand, Equals})
    BY SeqMonotonic
  <2> QED
    BY <2>1, EscapedType
<1>2. c \notin {Ampersand, Equals} => <<c>> \in Seq(Nat \ {Ampersand, Equals})
  OBVIOUS
<1>3. <<Plus>> \in Seq(Nat \ {Ampersand, Equals})
  BY DEF Plus, Ampersand, Equals
<1> QED
  BY <1>1, <1>2, <1>3 DEF InKey, Ways, As

LEMMA InValueIs ==
    ASSUME NEW c \in 0..127
    PROVE  InValue(c) \subseteq Ways(c) /\ InValue(c) \subseteq Seq(Nat \ {Ampersand})
<1>1. Seq(Nat \ {Ampersand, Equals}) \subseteq Seq(Nat \ {Ampersand})
  BY SeqMonotonic
<1>2. InKey(c) \subseteq Ways(c) /\ InKey(c) \subseteq Seq(Nat \ {Ampersand})
  BY <1>1, InKeyIs
<1>3. <<Equals>> \in Seq(Nat \ {Ampersand})
  BY DEF Equals, Ampersand
<1> QED
  <2>1. c = Equals => c \in 0..127 \ {Space, Percent, Plus}
    BY DEF Space, Percent, Plus, Equals
  <2>2. /\ As(c, {Equals}) \subseteq As(c, 0..127 \ {Space, Percent, Plus})
        /\ As(c, {Equals}) \subseteq Seq(Nat \ {Ampersand})
    BY <1>3, <2>1 DEF As
  <2>3. As(c, {Equals}) \subseteq Ways(c)
    BY <2>2 DEF Ways
  <2> QED
    BY <1>2, <2>2, <2>3 DEF InValue

LEMMA TextsHave == \A t \in Texts : \A i \in DOMAIN t : t[i] \in 0..127
BY LenProperties, ElementOfSeq DEF Texts

LEMMA WrittenInPath ==
    ASSUME NEW text \in Texts, NEW s \in Written(text, InPath)
    PROVE  s \in Seq(Nat \ {Slash}) /\ urldecode[s] = text
<1> DEFINE sets == [i \in DOMAIN text |-> InPath(text[i])]
<1>1. PICK w \in OneOfEach[sets] : s = FlattenSeq(w)
  BY DEF Written
<1>2. \A i \in DOMAIN text : text[i] \in 0..127
  BY TextsHave
<1>3. /\ DOMAIN sets = DOMAIN text
      /\ sets \in [DOMAIN text -> SUBSET Seq(Nat \ {Slash})]
      /\ \A i \in DOMAIN text : sets[i] \subseteq Ways(text[i])
  BY <1>2, InPathIs
<1> HIDE DEF sets
<1> QED
  BY <1>1, <1>3, WrittenIs, Nat \ {Slash} \subseteq Nat

LEMMA WrittenInRest ==
    ASSUME NEW text \in Texts, NEW s \in Written(text, InRest)
    PROVE  s \in Seq(Nat) /\ urldecode[s] = text
<1> DEFINE sets == [i \in DOMAIN text |-> InRest(text[i])]
<1>1. PICK w \in OneOfEach[sets] : s = FlattenSeq(w)
  BY DEF Written
<1>2. \A i \in DOMAIN text : text[i] \in 0..127
  BY TextsHave
<1>3. /\ DOMAIN sets = DOMAIN text
      /\ sets \in [DOMAIN text -> SUBSET Seq(Nat)]
      /\ \A i \in DOMAIN text : sets[i] \subseteq Ways(text[i])
  BY <1>2, InRestIs
<1> HIDE DEF sets
<1> QED
  BY <1>1, <1>3, WrittenIs, Nat \subseteq Nat

LEMMA WrittenInKey ==
    ASSUME NEW text \in Texts, NEW s \in Written(text, InKey)
    PROVE  s \in Seq(Nat \ {Ampersand, Equals}) /\ urldecode[s] = text
<1> DEFINE sets == [i \in DOMAIN text |-> InKey(text[i])]
<1>1. PICK w \in OneOfEach[sets] : s = FlattenSeq(w)
  BY DEF Written
<1>2. \A i \in DOMAIN text : text[i] \in 0..127
  BY TextsHave
<1>3. /\ DOMAIN sets = DOMAIN text
      /\ sets \in [DOMAIN text -> SUBSET Seq(Nat \ {Ampersand, Equals})]
      /\ \A i \in DOMAIN text : sets[i] \subseteq Ways(text[i])
  BY <1>2, InKeyIs
<1> HIDE DEF sets
<1> QED
  BY <1>1, <1>3, WrittenIs, Nat \ {Ampersand, Equals} \subseteq Nat

LEMMA WrittenInValue ==
    ASSUME NEW text \in Texts, NEW s \in Written(text, InValue)
    PROVE  s \in Seq(Nat \ {Ampersand}) /\ urldecode[s] = text
<1> DEFINE sets == [i \in DOMAIN text |-> InValue(text[i])]
<1>1. PICK w \in OneOfEach[sets] : s = FlattenSeq(w)
  BY DEF Written
<1>2. \A i \in DOMAIN text : text[i] \in 0..127
  BY TextsHave
<1>3. /\ DOMAIN sets = DOMAIN text
      /\ sets \in [DOMAIN text -> SUBSET Seq(Nat \ {Ampersand})]
      /\ \A i \in DOMAIN text : sets[i] \subseteq Ways(text[i])
  BY <1>2, InValueIs
<1> HIDE DEF sets
<1> QED
  BY <1>1, <1>3, WrittenIs, Nat \ {Ampersand} \subseteq Nat

-----------------------------------------------------------------------------
(* The query.                                                               *)

LEMMA MaxIs ==
    ASSUME NEW S \in SUBSET Nat, NEW m \in S, \A i \in S : i <= m
    PROVE  Max(S) = m
<1>1. m \in S /\ \A y \in S : m >= y
  OBVIOUS
<1>2. \A x \in S : (\A y \in S : x >= y) => x = m
  OBVIOUS
<1> QED
  BY <1>1, <1>2 DEF Max

LEMMA MinIs ==
    ASSUME NEW S \in SUBSET Nat, NEW m \in S, \A i \in S : m <= i
    PROVE  Min(S) = m
<1>1. m \in S /\ \A y \in S : m =< y
  OBVIOUS
<1>2. \A x \in S : (\A y \in S : x =< y) => x = m
  OBVIOUS
<1> QED
  BY <1>1, <1>2 DEF Min

LEMMA MaxIsIn ==
    ASSUME NEW n \in Nat, NEW S, S \subseteq 1..n, S # {}
    PROVE  Max(S) \in S
<1> DEFINE G == {k \in Nat : \A T : T \subseteq 1..k /\ T # {} => \E m \in T : \A i \in T : i <= m}
<1>1. 0 \in G
  OBVIOUS
<1>2. ASSUME NEW k \in Nat, k \in G PROVE k + 1 \in G
  <2> SUFFICES ASSUME NEW T, T \subseteq 1..(k + 1), T # {}
               PROVE  \E m \in T : \A i \in T : i <= m
    OBVIOUS
  <2>1. CASE k + 1 \in T
    BY <2>1
  <2>2. CASE k + 1 \notin T
    <3>1. T \subseteq 1..k
      BY <2>2
    <3> QED
      BY <1>2, <3>1
  <2> QED
    BY <2>1, <2>2
<1>3. n \in G
  <2> HIDE DEF G
  <2> QED
    BY <1>1, <1>2, Induction
<1>4. PICK m \in S : \A i \in S : i <= m
  BY <1>3
<1>5. Max(S) = m
  BY <1>4, MaxIs
<1> QED
  BY <1>5

\* The ways to write a pair.
WrittenPair(pair) ==
    {k \o <<Equals>> \o v : k \in Written(pair[1], InKey), v \in Written(pair[2], InValue)}
    \cup IF pair[1] # <<>> /\ pair[2] = <<>> THEN Written(pair[1], InKey) ELSE {}

LEMMA ConcatText ==
    ASSUME NEW a \in Text, NEW b \in Text
    PROVE  /\ a \o b \in Text /\ Len(a \o b) = Len(a) + Len(b)
           /\ \A i \in 1..(Len(a) + Len(b)) :
                  (a \o b)[i] = IF i <= Len(a) THEN a[i] ELSE b[i - Len(a)]
BY ConcatProperties DEF Text

LEMMA KeyAndValue ==
    ASSUME NEW k \in Seq(Nat \ {Equals}), NEW v \in Text
    PROVE  /\ Key(k \o <<Equals>> \o v) = urldecode[k]
           /\ Value(k \o <<Equals>> \o v) = urldecode[v]
<1> DEFINE p == k \o <<Equals>> \o v
           n == Len(k)
<1>1. n \in Nat /\ Len(v) \in Nat /\ k \in Text /\ \A i \in 1..n : k[i] # Equals
  BY SeqMonotonic, Nat \ {Equals} \subseteq Nat DEF Text
<1>2. /\ p \in Text /\ Len(p) = n + 1 + Len(v)
      /\ p[n + 1] = Equals
      /\ \A i \in 1..n : p[i] = k[i]
      /\ \A i \in 1..Len(v) : p[n + 1 + i] = v[i]
  <2> DEFINE ke == k \o <<Equals>>
  <2>1. <<Equals>> \in Text /\ Len(<<Equals>>) = 1 /\ <<Equals>>[1] = Equals
    BY DEF Text, Equals
  <2>2. /\ ke \in Text /\ Len(ke) = n + 1
        /\ \A i \in 1..(n + 1) : ke[i] = IF i <= n THEN k[i] ELSE <<Equals>>[i - n]
    BY <1>1, <2>1, ConcatProperties DEF Text
  <2> HIDE DEF ke
  <2>3. /\ ke \o v \in Text /\ Len(ke \o v) = Len(ke) + Len(v)
        /\ \A i \in 1..(Len(ke) + Len(v)) :
               (ke \o v)[i] = IF i <= Len(ke) THEN ke[i] ELSE v[i - Len(ke)]
    BY <2>2, ConcatText
  <2>4. p = ke \o v
    BY DEF ke
  <2> HIDE DEF p
  <2>5. \A i \in 1..n : i \in 1..(n + 1) /\ i <= n /\ i <= Len(ke) /\ i \in 1..(Len(ke) + Len(v))
    BY <1>1, <2>2
  <2>6. \A i \in 1..Len(v) : /\ n + 1 + i \in 1..(Len(ke) + Len(v))
                             /\ ~(n + 1 + i <= Len(ke))
                             /\ (n + 1 + i) - Len(ke) = i
    BY <1>1, <2>2
  <2>7. n + 1 \in 1..(Len(ke) + Len(v)) /\ n + 1 <= Len(ke) /\ ~(n + 1 <= n) /\ (n + 1) - n = 1
    BY <1>1, <2>2
  <2> QED
    BY <1>1, <2>1, <2>2, <2>3, <2>4, <2>5, <2>6, <2>7
<1> HIDE DEF p
<1>3. KeyEnd(p) = n + 1
  <2> DEFINE all == {i \in DOMAIN p : p[i] = Equals} \cup {Len(p) + 1}
  <2>1. DOMAIN p = 1..Len(p) /\ all \in SUBSET Nat
    BY <1>2 DEF Text
  <2>2. n + 1 \in all
    BY <1>1, <1>2, <2>1
  <2>3. ASSUME NEW i \in all PROVE n + 1 <= i
    <3>1. CASE i = Len(p) + 1
      BY <1>1, <1>2, <3>1
    <3>2. CASE i \in 1..Len(p) /\ p[i] = Equals
      BY <1>1, <1>2, <3>2
    <3> QED
      BY <2>1, <3>1, <3>2
  <2> HIDE DEF all
  <2>4. Min(all) = n + 1
    BY <2>1, <2>2, <2>3, MinIs
  <2> QED
    BY <2>4 DEF KeyEnd, all
<1>4. SubSeq(p, 1, KeyEnd(p) - 1) = k
  <2>1. KeyEnd(p) - 1 = n
    BY <1>1, <1>3
  <2>2. SubSeq(p, 1, n) = k
    BY <1>1, <1>2 DEF Text
  <2> QED
    BY <2>1, <2>2
<1>5. SubSeq(p, KeyEnd(p) + 1, Len(p)) = v
  <2> DEFINE r == SubSeq(p, n + 2, Len(p))
  <2>1. /\ r \in Text /\ Len(r) = Len(v)
        /\ \A i \in 1..Len(v) : r[i] = p[n + 2 + i - 1]
    <3>1. \A i \in (n + 2)..Len(p) : p[i] \in Nat
      <4>1. \A i \in 1..Len(p) : p[i] \in Nat
        BY <1>2, ElementOfSeq DEF Text
      <4> QED
        BY <1>1, <1>2, <4>1
    <3>2. n + 2 \in Int /\ Len(p) \in Int
      BY <1>1, <1>2
    <3>3. /\ r \in Seq(Nat)
          /\ Len(r) = IF n + 2 <= Len(p) THEN Len(p) - (n + 2) + 1 ELSE 0
          /\ \A i \in 1..(Len(p) - (n + 2) + 1) : r[i] = p[(n + 2) + i - 1]
      BY <3>1, <3>2, SubSeqProperties
    <3>4. Len(p) - (n + 2) + 1 = Len(v)
      BY <1>1, <1>2
    <3>5. Len(r) = Len(v)
      BY <1>1, <1>2, <3>3
    <3> QED
      BY <3>3, <3>4, <3>5 DEF Text
  <2> HIDE DEF r
  <2>2. \A i \in 1..Len(v) : n + 2 + i - 1 = n + 1 + i
    BY <1>1
  <2>3. \A i \in 1..Len(v) : r[i] = v[i]
    BY <1>2, <2>1, <2>2
  <2>4. r = v
    BY <2>1, <2>3, SeqEqual DEF Text
  <2>5. KeyEnd(p) + 1 = n + 2
    BY <1>1, <1>3
  <2> QED
    BY <2>4, <2>5 DEF r
<1> QED
  BY <1>4, <1>5 DEF Key, Value, p

\* Without an equals sign it is all key.
LEMMA KeyOnly ==
    ASSUME NEW k \in Seq(Nat \ {Equals})
    PROVE  Key(k) = urldecode[k] /\ Value(k) = <<>>
<1> DEFINE n == Len(k)
<1>1. n \in Nat /\ DOMAIN k = 1..n /\ \A i \in 1..n : k[i] # Equals
  OBVIOUS
<1>2. KeyEnd(k) = n + 1
  <2>1. {i \in DOMAIN k : k[i] = Equals} \cup {Len(k) + 1} = {n + 1}
    BY <1>1
  <2>2. Min({n + 1}) = n + 1
    BY <1>1, MinIs
  <2> QED
    BY <2>1, <2>2 DEF KeyEnd
<1>3. SubSeq(k, 1, KeyEnd(k) - 1) = k
  <2>1. KeyEnd(k) - 1 = n
    BY <1>1, <1>2
  <2> QED
    BY <2>1, SubSeqFull
<1>4. SubSeq(k, KeyEnd(k) + 1, Len(k)) = <<>>
  BY <1>1, <1>2, SubSeqEmpty
<1> QED
  BY <1>3, <1>4, DecodeEmpty DEF Key, Value

\* A pair is read as it was meant.
LEMMA PairIsRead ==
    ASSUME NEW key \in Texts, NEW value \in Texts, NEW p \in WrittenPair(<<key, value>>)
    PROVE  p \in Seq(Nat \ {Ampersand}) /\ p # <<>> /\ Key(p) = key /\ Value(p) = value
<1>0. Seq(Nat \ {Ampersand, Equals}) \subseteq Seq(Nat \ {Ampersand})
  BY SeqMonotonic
<1>00. Seq(Nat \ {Ampersand, Equals}) \subseteq Seq(Nat \ {Equals})
  BY SeqMonotonic
<1>1. CASE \E k \in Written(key, InKey), v \in Written(value, InValue) : p = k \o <<Equals>> \o v
  <2>1. PICK k \in Written(key, InKey), v \in Written(value, InValue) : p = k \o <<Equals>> \o v
    BY <1>1
  <2>2. /\ k \in Seq(Nat \ {Ampersand}) /\ k \in Seq(Nat \ {Equals})
        /\ v \in Seq(Nat \ {Ampersand})
        /\ urldecode[k] = key /\ urldecode[v] = value
    BY <1>0, <1>00, <2>1, WrittenInKey, WrittenInValue
  <2>3. <<Equals>> \in Seq(Nat \ {Ampersand})
    BY DEF Equals, Ampersand
  <2>4. k \o <<Equals>> \in Seq(Nat \ {Ampersand}) /\ Len(k \o <<Equals>>) = Len(k) + 1
    BY <2>2, <2>3, ConcatProperties
  <2>5. /\ (k \o <<Equals>>) \o v \in Seq(Nat \ {Ampersand})
        /\ Len((k \o <<Equals>>) \o v) = Len(k \o <<Equals>>) + Len(v)
    BY <2>2, <2>4, ConcatProperties
  <2>6. p # <<>>
    BY <2>1, <2>2, <2>4, <2>5, EmptySeq
  <2>7. v \in Text
    BY <2>2, SeqMonotonic, Nat \ {Ampersand} \subseteq Nat DEF Text
  <2>8. Key(p) = urldecode[k] /\ Value(p) = urldecode[v]
    BY <2>1, <2>2, <2>7, KeyAndValue
  <2> QED
    BY <2>1, <2>2, <2>5, <2>6, <2>8
<1>2. CASE key # <<>> /\ value = <<>> /\ p \in Written(key, InKey)
  <2>1. p \in Seq(Nat \ {Ampersand}) /\ p \in Seq(Nat \ {Equals}) /\ urldecode[p] = key
    BY <1>0, <1>00, <1>2, WrittenInKey
  <2>2. p # <<>>
    BY <1>2, <2>1, DecodeEmpty
  <2> QED
    BY <1>2, <2>1, <2>2, KeyOnly
<1> QED
  BY <1>1, <1>2 DEF WrittenPair

\* Pieces without a delimiter, joined by it, are split again.
LEMMA CleanSplit ==
    ASSUME NEW c \in Nat, NEW w \in Seq(Seq(Nat \ {c})), w # <<>>
    PROVE  /\ Split(Join(w, c), c) = w
           /\ Join(w, c) \in Text
           /\ w \in Seq(Text)
<1> DEFINE T == Seq(Nat \ {c})
<1>1. T \subseteq Text
  BY SeqMonotonic, Nat \ {c} \subseteq Nat DEF Text
<1>2. \A x \in T : x \in Seq(Nat) /\ \A j \in 1..Len(x) : x[j] # c
  BY <1>1 DEF Text
<1>3. PICK u \in Seq(T), x \in T : w = Append(u, x)
  <2> HIDE DEF T
  <2>1. w \in Seq(T)
    BY DEF T
  <2> QED
    BY <2>1, SequenceEmptyOrAppend
<1>4. u \in Seq(Seq(Nat)) /\ w \in Seq(Seq(Nat))
  <2> T \subseteq Seq(Nat)
    BY <1>1 DEF Text
  <2> w \in Seq(T)
    OBVIOUS
  <2> HIDE DEF T
  <2> QED
    BY <1>3, SeqMonotonic
<1>5. Clean(u, c)
  <2> HIDE DEF T
  <2>1. \A i \in 1..Len(u) : u[i] \in T
    BY <1>3
  <2> QED
    BY <1>2, <2>1 DEF Clean
<1>6. Split(x, c) = <<x>>
  <2>1. x \in Seq(Nat) /\ \A j \in 1..Len(x) : x[j] # c
    BY <1>2, <1>3
  <2> HIDE DEF T
  <2> QED
    BY <2>1, SplitOne
<1>7. Split(Join(w, c), c) = u \o <<x>>
  <2>1. x \in Seq(Nat)
    BY <1>2, <1>3
  <2> HIDE DEF T
  <2>2. Split(Join(Append(u, x), c), c) = u \o Split(x, c)
    BY <1>4, <1>5, <2>1, SplitJoin
  <2> QED
    BY <1>3, <1>6, <2>2
<1>8. Append(u, x) = u \o <<x>>
  <2> HIDE DEF T
  <2> QED
    BY <1>3, AppendIsConcat
<1>9. Join(w, c) \in Seq(Nat)
  BY <1>4, JoinAppend, EmptySeq
<1> QED
  BY <1>3, <1>4, <1>7, <1>8, <1>9 DEF Text

LEMMA QueryIsRead ==
    ASSUME NEW pairs \in Seq(Texts \X Texts), NEW q \in QueryTexts(pairs)
    PROVE  parse_query(q) =
               [k \in {pairs[i][1] : i \in DOMAIN pairs} |->
                   pairs[Max({i \in DOMAIN pairs : pairs[i][1] = k})][2]]
<1> DEFINE n == Len(pairs)
           sets == [i \in DOMAIN pairs |-> WrittenPair(pairs[i])]
           C == Nat \ {Ampersand}
<1>1. /\ n \in Nat /\ DOMAIN pairs = 1..n
      /\ \A i \in 1..n : pairs[i] \in Texts \X Texts
  OBVIOUS
<1>2. PICK w \in OneOfEach[sets] : q = Join(w, Ampersand)
  <2>1. QueryTexts(pairs) = {Join(w, Ampersand) : w \in OneOfEach[sets]}
    BY DEF QueryTexts, WrittenPair
  <2> HIDE DEF sets
  <2> QED
    BY <2>1
<1>3. \A i \in 1..n : \A p \in WrittenPair(pairs[i]) :
          p \in Seq(C) /\ p # <<>> /\ Key(p) = pairs[i][1] /\ Value(p) = pairs[i][2]
  <2> TAKE i \in 1..n
  <2>1. PICK key \in Texts, value \in Texts : pairs[i] = <<key, value>>
    BY <1>1
  <2> QED
    BY <2>1, PairIsRead
<1>4. Seq(C) \subseteq Text
  BY SeqMonotonic, C \subseteq Nat DEF Text
<1> HIDE DEF C
<1>5. sets \in Seq(SUBSET Text) /\ Len(sets) = n /\ \A i \in 1..n : sets[i] = WrittenPair(pairs[i])
  <2>1. \A i \in 1..n : WrittenPair(pairs[i]) \in SUBSET Text
    BY <1>3, <1>4
  <2>2. sets \in [1..n -> SUBSET Text]
    BY <1>1, <2>1
  <2> QED
    BY <1>1, <2>2
<1> HIDE DEF sets
<1>6. /\ w \in Seq(Text) /\ Len(w) = n
      /\ \A i \in 1..n : w[i] \in WrittenPair(pairs[i])
  <2>1. w \in Picked(sets)
    BY <1>2, <1>5, OneOfEachIsPicked
  <2> QED
    BY <1>5, <2>1 DEF Picked
<1>7. DOMAIN w = 1..n
  BY <1>6
<1> DEFINE parts == IF q = <<>> THEN <<>> ELSE Split(q, Ampersand)
<1>8. parts = w
  <2>1. CASE n = 0
    <3>1. w = <<>>
      BY <1>6, <2>1, EmptySeq
    <3>2. Join(<<>>, Ampersand) = <<>>
      BY FlattenEmpty DEF Join
    <3> QED
      BY <1>2, <3>1, <3>2
  <2>2. CASE n # 0
    <3>1. w \in Seq(Seq(C)) /\ w # <<>>
      <4>1. \A i \in 1..n : w[i] \in Seq(C)
        BY <1>3, <1>6
      <4>2. w \in [1..n -> Seq(C)]
        BY <1>6, <4>1
      <4> QED
        BY <1>1, <1>6, <2>2, <4>2
    <3>2. Split(q, Ampersand) = w
      BY <1>2, <3>1, CleanSplit DEF C, Ampersand
    <3>3. q # <<>>
      <4>1. 1 \in 1..n
        BY <1>1, <2>2
      <4>2. w[1] # <<>>
        BY <1>3, <1>6, <4>1
      <4>3. <<<<>>>>[1] = <<>>
        OBVIOUS
      <4> QED
        BY <3>2, <4>2, <4>3, SplitEmpty
    <3> QED
      BY <3>2, <3>3
  <2> QED
    BY <2>1, <2>2
<1> HIDE DEF parts
<1>9. parse_query(q) =
        [k \in {Key(w[i]) : i \in 1..n} |-> Value(w[Max({i \in 1..n : Key(w[i]) = k})])]
  <2>1. parse_query(q) =
          [k \in {Key(parts[i]) : i \in DOMAIN parts} |->
              Value(parts[Max({i \in DOMAIN parts : Key(parts[i]) = k})])]
    BY DEF parse_query, parts
  <2> QED
    BY <1>7, <1>8, <2>1
<1>10. \A i \in 1..n : Key(w[i]) = pairs[i][1] /\ Value(w[i]) = pairs[i][2]
  BY <1>3, <1>6
<1>11. \A k : {i \in 1..n : Key(w[i]) = k} = {i \in 1..n : pairs[i][1] = k}
  BY <1>10
<1>12. ASSUME NEW k \in {pairs[i][1] : i \in 1..n}
       PROVE  Value(w[Max({i \in 1..n : Key(w[i]) = k})])
                  = pairs[Max({i \in 1..n : pairs[i][1] = k})][2]
  <2> DEFINE S == {i \in 1..n : pairs[i][1] = k}
  <2>1. S \subseteq 1..n /\ S # {}
    OBVIOUS
  <2> HIDE DEF S
  <2>2. Max(S) \in 1..n
    BY <1>1, <2>1, MaxIsIn
  <2>3. Value(w[Max(S)]) = pairs[Max(S)][2]
    BY <1>10, <2>2
  <2> QED
    BY <1>11, <2>3 DEF S
<1>13. {Key(w[i]) : i \in 1..n} = {pairs[i][1] : i \in 1..n}
  BY <1>10
<1>14. parse_query(q) =
         [k \in {pairs[i][1] : i \in 1..n} |-> pairs[Max({i \in 1..n : pairs[i][1] = k})][2]]
  BY <1>9, <1>12, <1>13
<1> HIDE DEF n
<1> QED
  BY <1>1, <1>14

-----------------------------------------------------------------------------
(* The path.                                                                *)

LEMMA FunctionIsSeq ==
    ASSUME NEW S, NEW n \in Nat, NEW f \in [1..n -> S]
    PROVE  f \in Seq(S) /\ Len(f) = n
OBVIOUS

\* The first of all is the first of the first sequence.
LEMMA FlattenFirst ==
    ASSUME NEW S, NEW s \in Seq(Seq(S)), s # <<>>, s[1] # <<>>
    PROVE  FlattenSeq(s) # <<>> /\ FlattenSeq(s)[1] = s[1][1]
<1> DEFINE T == Seq(S)
           First(v) == v # <<>> /\ v[1] # <<>> =>
                           FlattenSeq(v) # <<>> /\ FlattenSeq(v)[1] = v[1][1]
           G == {v \in Seq(T) : First(v)}
<1>1. <<>> \in G
  BY EmptySeq
<1>2. ASSUME NEW v \in Seq(T), NEW x \in T, v \in G PROVE Append(v, x) \in G
  <2> DEFINE a == Append(v, x)
  <2> SUFFICES ASSUME a[1] # <<>> PROVE FlattenSeq(a) # <<>> /\ FlattenSeq(a)[1] = a[1][1]
    BY AppendProperties
  <2>1. FlattenSeq(v) \in T /\ FlattenSeq(a) = FlattenSeq(v) \o x
    BY FlattenAppend
  <2>2. CASE v = <<>>
    <3>1. a[1] = x
      BY <2>2
    <3>2. FlattenSeq(a) = x
      BY <2>1, <2>2, FlattenEmpty, ConcatEmptySeq
    <3> QED
      BY <3>1, <3>2
  <2>3. CASE v # <<>>
    <3>1. a[1] = v[1]
      BY <2>3
    <3>2. FlattenSeq(v) # <<>> /\ FlattenSeq(v)[1] = v[1][1]
      BY <1>2, <2>3, <3>1
    <3> DEFINE f == FlattenSeq(v)
    <3>3. f \in Seq(S) /\ f # <<>> /\ Len(f) \in Nat /\ Len(f) # 0
      BY <2>1, <3>2, EmptySeq
    <3> HIDE DEF f, a
    <3>4. (f \o x)[1] = f[1] /\ Len(f \o x) = Len(f) + Len(x) /\ Len(x) \in Nat
      <4>1. /\ Len(f \o x) = Len(f) + Len(x) /\ Len(x) \in Nat
            /\ \A i \in 1..(Len(f) + Len(x)) :
                   (f \o x)[i] = IF i <= Len(f) THEN f[i] ELSE x[i - Len(f)]
        BY <3>3, ConcatProperties
      <4>2. 1 \in 1..(Len(f) + Len(x)) /\ 1 <= Len(f)
        BY <3>3, <4>1
      <4> QED
        BY <4>1, <4>2
    <3>5. f \o x # <<>>
      BY <3>3, <3>4
    <3> QED
      BY <2>1, <3>1, <3>2, <3>4, <3>5 DEF f
  <2> QED
    BY <2>2, <2>3
<1>3. \A v \in Seq(T) : v \in G
  <2> HIDE DEF G, T
  <2> QED
    BY <1>1, <1>2, Growing
<1> QED
  BY <1>3

LEMMA JoinFirst ==
    ASSUME NEW S, NEW c \in S, NEW w \in Seq(Seq(S)), w # <<>>, w[1] # <<>>
    PROVE  Join(w, c) # <<>> /\ Join(w, c)[1] = w[1][1]
<1> DEFINE v == [i \in DOMAIN w |-> (IF i = 1 THEN <<>> ELSE <<c>>) \o w[i]]
<1>1. Len(w) \in Nat \ {0} /\ DOMAIN w = 1..Len(w) /\ \A i \in 1..Len(w) : w[i] \in Seq(S)
  BY EmptySeq, LenProperties, ElementOfSeq
<1>2. \A i \in 1..Len(w) : v[i] \in Seq(S)
  <2> TAKE i \in 1..Len(w)
  <2>1. (IF i = 1 THEN <<>> ELSE <<c>>) \in Seq(S)
    OBVIOUS
  <2> QED
    BY <1>1, <2>1, ConcatProperties
<1>3. v \in [1..Len(w) -> Seq(S)]
  BY <1>1, <1>2
<1>4. v \in Seq(Seq(S)) /\ v # <<>>
  <2> HIDE DEF v
  <2>1. v \in Seq(Seq(S)) /\ Len(v) = Len(w)
    BY <1>1, <1>3, FunctionIsSeq
  <2> QED
    BY <1>1, <2>1, EmptySeq
<1>5. v[1] = w[1]
  <2>1. 1 \in DOMAIN w
    BY <1>1
  <2> QED
    BY <1>1, <2>1, ConcatEmptySeq
<1>6. Join(w, c) = FlattenSeq(v)
  BY DEF Join
<1> HIDE DEF v
<1> QED
  BY <1>4, <1>5, <1>6, FlattenFirst

LEMMA TrimOne ==
    ASSUME NEW s \in Text, s = <<>> \/ s[1] # Slash
    PROVE  TrimSlashes(<<Slash>> \o s) = s
<1> DEFINE p == <<Slash>> \o s
<1>1. /\ p \in Text /\ Len(p) = Len(s) + 1 /\ Len(s) \in Nat /\ p[1] = Slash
      /\ \A i \in 1..Len(s) : p[i + 1] = s[i]
  <2>1. <<Slash>> \in Text /\ Len(<<Slash>>) = 1 /\ <<Slash>>[1] = Slash
    BY DEF Text, Slash
  <2>2. /\ p \in Text /\ Len(p) = Len(<<Slash>>) + Len(s)
        /\ \A i \in 1..(Len(<<Slash>>) + Len(s)) :
               p[i] = IF i <= Len(<<Slash>>) THEN <<Slash>>[i] ELSE s[i - Len(<<Slash>>)]
    BY <2>1, ConcatText
  <2>3. Len(s) \in Nat
    BY DEF Text
  <2> HIDE DEF p
  <2>4. \A i \in 1..Len(s) : /\ i + 1 \in 1..(1 + Len(s)) /\ ~(i + 1 <= 1)
                             /\ (i + 1) - 1 = i
    BY <2>3
  <2> QED
    BY <2>1, <2>2, <2>3, <2>4
<1> HIDE DEF p
<1>2. Min({i \in DOMAIN p : p[i] # Slash} \cup {Len(p) + 1}) = 2
  <2> DEFINE all == {i \in DOMAIN p : p[i] # Slash} \cup {Len(p) + 1}
  <2>1. DOMAIN p = 1..Len(p) /\ all \in SUBSET Nat
    BY <1>1 DEF Text
  <2>2. 2 \in all
    <3>1. CASE s = <<>>
      BY <1>1, <3>1
    <3>2. CASE s # <<>> /\ s[1] # Slash
      <4>1. 1 \in 1..Len(s)
        BY <1>1, <3>2, EmptySeq DEF Text
      <4>2. 2 \in 1..Len(p) /\ p[2] = s[1]
        BY <1>1, <4>1
      <4> QED
        BY <2>1, <3>2, <4>2
    <3> QED
      BY <3>1, <3>2
  <2>3. \A i \in all : 2 <= i
    BY <1>1, <2>1
  <2> HIDE DEF all
  <2>4. Min(all) = 2
    BY <2>1, <2>2, <2>3, MinIs
  <2> QED
    BY <2>4 DEF all
<1>3. SubSeq(p, 2, Len(p)) = s
  <2> DEFINE r == SubSeq(p, 2, Len(p))
  <2>1. \A i \in 2..Len(p) : p[i] \in Nat
    BY <1>1 DEF Text
  <2>2. 2 \in Int /\ Len(p) \in Int
    BY <1>1
  <2>3. /\ r \in Seq(Nat) /\ Len(r) = IF 2 <= Len(p) THEN Len(p) - 2 + 1 ELSE 0
        /\ \A i \in 1..(Len(p) - 2 + 1) : r[i] = p[2 + i - 1]
    BY <2>1, <2>2, SubSeqProperties
  <2> HIDE DEF r
  <2>4. Len(r) = Len(s) /\ Len(p) - 2 + 1 = Len(s) /\ \A i \in 1..Len(s) : 2 + i - 1 = i + 1
    BY <1>1, <2>3
  <2>5. \A i \in 1..Len(s) : r[i] = s[i]
    BY <1>1, <2>3, <2>4
  <2>6. r = s
    BY <2>3, <2>4, <2>5, SeqEqual DEF Text
  <2> QED
    BY <2>6 DEF r
<1> QED
  BY <1>2, <1>3 DEF TrimSlashes, p

\* The segments of a path whose pieces are w, of which only the last may have
\* slashes, and that not in front.
LEMMA SegmentsAre ==
    ASSUME NEW w \in Seq(Text), w # <<>>, w[1] # <<>>, w[1][1] # Slash,
           \A i \in 1..(Len(w) - 1) : w[i] \in Seq(Nat \ {Slash}),
           NEW segs, segs = Segments(<<Slash>> \o Join(w, Slash))
    PROVE  /\ Len(w) \in 1..Len(segs)
           /\ \A i \in 1..(Len(w) - 1) : segs[i] = w[i]
           /\ Join(SubSeq(segs, Len(w), Len(segs)), Slash) = w[Len(w)]
           /\ w[Len(w)] \in Seq(Nat \ {Slash}) => segs[Len(w)] = w[Len(w)]
<1> DEFINE n == Len(w)
<1>0. Slash \in Nat
  BY DEF Slash
<1>1. n \in Nat \ {0}
  BY EmptySeq
<1>2. Join(w, Slash) \in Text /\ Join(w, Slash) # <<>> /\ Join(w, Slash)[1] # Slash
  <2>1. w \in Seq(Seq(Nat))
    BY DEF Text
  <2>2. Join(w, Slash) \in Seq(Nat)
    BY <1>0, <2>1, JoinAppend, EmptySeq
  <2> QED
    BY <1>0, <2>1, <2>2, JoinFirst DEF Text
<1>3. segs = Split(Join(w, Slash), Slash)
  BY <1>2, TrimOne DEF Segments
<1>4. PICK u \in Seq(Text), x \in Text : w = Append(u, x)
  BY SequenceEmptyOrAppend
<1>5. /\ Len(u) \in Nat /\ n = Len(u) + 1 /\ w[n] = x
      /\ \A i \in 1..Len(u) : w[i] = u[i]
  BY <1>4, AppendProperties, LenProperties
<1>6. Clean(u, Slash)
  <2>1. ASSUME NEW i \in 1..Len(u) PROVE \A j \in 1..Len(u[i]) : u[i][j] # Slash
    <3>1. u[i] \in Seq(Nat \ {Slash})
      BY <1>5
    <3> QED
      BY <3>1
  <2> QED
    BY <2>1 DEF Clean
<1> DEFINE v == Split(x, Slash)
<1>7. segs = u \o v
  <2>1. u \in Seq(Seq(Nat)) /\ x \in Seq(Nat)
    BY <1>4 DEF Text
  <2>2. Split(Join(Append(u, x), Slash), Slash) = u \o Split(x, Slash)
    BY <1>0, <1>6, <2>1, SplitJoin
  <2> QED
    BY <1>3, <1>4, <2>2
<1>8. v \in Seq(Text) /\ Len(v) \in Nat \ {0}
  <2>1. v \in Pieces(Nat)
    BY <1>0, <1>4, SplitAppend DEF Text
  <2> QED
    BY <2>1, EmptySeq DEF Pieces, Text
<1>9. x \in Seq(Nat \ {Slash}) => v = <<x>>
  <2> SUFFICES ASSUME x \in Seq(Nat \ {Slash}) PROVE v = <<x>>
    OBVIOUS
  <2>1. \A j \in 1..Len(x) : x[j] # Slash
    OBVIOUS
  <2> QED
    BY <2>1, SplitOne
<1>10. Join(v, Slash) = x
  BY <1>0, <1>4, JoinSplit DEF Text
<1> HIDE DEF v, n
<1>11. /\ segs \in Seq(Text) /\ Len(segs) = Len(u) + Len(v)
       /\ \A i \in 1..(Len(u) + Len(v)) : segs[i] = IF i <= Len(u) THEN u[i] ELSE v[i - Len(u)]
  <2>1. \A a, b \in Seq(Text) :
            /\ a \o b \in Seq(Text) /\ Len(a \o b) = Len(a) + Len(b)
            /\ \A i \in 1..(Len(a) + Len(b)) :
                   (a \o b)[i] = IF i <= Len(a) THEN a[i] ELSE b[i - Len(a)]
    BY ConcatProperties
  <2>2. u \in Seq(Text) /\ v \in Seq(Text)
    BY <1>4, <1>8
  <2>3. /\ u \o v \in Seq(Text) /\ Len(u \o v) = Len(u) + Len(v)
        /\ \A i \in 1..(Len(u) + Len(v)) :
               (u \o v)[i] = IF i <= Len(u) THEN u[i] ELSE v[i - Len(u)]
    BY <2>1, <2>2, Zenon
  <2> QED
    BY <1>7, <2>3, Zenon
<1>12. n \in 1..Len(segs) /\ \A i \in 1..(n - 1) : segs[i] = w[i]
  <2>1. n - 1 = Len(u) /\ \A i \in 1..Len(u) : i \in 1..(Len(u) + Len(v)) /\ i <= Len(u)
    BY <1>5, <1>8
  <2>2. n \in 1..Len(segs)
    BY <1>5, <1>8, <1>11
  <2> QED
    BY <1>5, <1>11, <2>1, <2>2
<1>13. SubSeq(segs, n, Len(segs)) = v
  <2> DEFINE r == SubSeq(segs, n, Len(segs))
             m == Len(segs)
  <2>1. \A i \in n..m : segs[i] \in Text
    BY <1>1, <1>11, <1>12 DEF n
  <2>2. n \in Int /\ m \in Int
    BY <1>5, <1>8, <1>11
  <2>3. /\ r \in Seq(Text) /\ Len(r) = IF n <= m THEN m - n + 1 ELSE 0
        /\ \A i \in 1..(m - n + 1) : r[i] = segs[n + i - 1]
    <3> HIDE DEF m
    <3> QED
      BY <2>1, <2>2, SubSeqProperties DEF m
  <2> HIDE DEF r
  <2>4. m - n + 1 = Len(v) /\ Len(r) = Len(v)
    BY <1>5, <1>8, <1>11, <2>3
  <2>5. \A i \in 1..Len(v) : segs[n + i - 1] = v[i]
    <3> TAKE i \in 1..Len(v)
    <3>1. n + i - 1 \in 1..(Len(u) + Len(v)) /\ ~(n + i - 1 <= Len(u)) /\ (n + i - 1) - Len(u) = i
      BY <1>5, <1>8
    <3> QED
      BY <1>11, <3>1
  <2>6. \A i \in 1..Len(v) : r[i] = v[i]
    BY <2>3, <2>4, <2>5
  <2>7. r = v
    BY <1>8, <2>3, <2>4, <2>6, SeqEqual
  <2> QED
    BY <2>7 DEF r
<1>14. x \in Seq(Nat \ {Slash}) => segs[n] = x
  <2> SUFFICES ASSUME x \in Seq(Nat \ {Slash}) PROVE segs[n] = x
    OBVIOUS
  <2>1. v = <<x>>
    BY <1>9
  <2>2. Len(v) = 1 /\ v[1] = x
    BY <2>1
  <2>3. n \in 1..(Len(u) + Len(v)) /\ ~(n <= Len(u)) /\ n - Len(u) = 1
    BY <1>5, <2>2
  <2> QED
    BY <1>11, <2>2, <2>3
<1> QED
  BY <1>5, <1>10, <1>12, <1>13, <1>14 DEF n

\* The ways to write a segment of a route.
Segment(t, params) ==
    CASE t.kind = "literal" -> {t.text}
      [] t.kind = "param" -> Written(params[t.name], InPath)
      [] t.kind = "rest" -> Written(params[t.name], InRest)

\* A piece of the path: nothing in it can be taken for a delimiter but in a
\* catch-all, and the value is read off it.
SegmentIs(t, params, p) ==
    /\ p \in Text /\ p # <<>>
    /\ t.kind # "rest" => p \in Seq(Nat \ {Slash})
    /\ t.kind # "literal" => urldecode[p] = params[t.name]

LEMMA SegmentsWritten ==
    ASSUME NEW route, NEW params, IsTarget(route, params), NEW i \in 1..Len(route),
           NEW p \in Segment(route[i], params)
    PROVE  /\ SegmentIs(route[i], params, p)
           /\ i = 1 => p[1] # Slash
<1> DEFINE t == route[i]
           C == Nat \ {Slash}
           named == {j \in DOMAIN route : route[j].kind # "literal"}
<1>1. /\ DOMAIN route = 1..Len(route)
      /\ t \in [kind : {"literal"}, text : Seq(C) \ {<<>>}]
                \cup [kind : {"param", "rest"}, name : DOMAIN params]
      /\ t.kind # "literal" => params[t.name] \in Texts \ {<<>>}
      /\ t.kind = "rest" /\ i = 1 => params[t.name][1] # Slash
  <2>1. route \in Seq([kind : {"literal"}, text : Seq(C) \ {<<>>}]
                       \cup [kind : {"param", "rest"}, name : DOMAIN params])
    BY DEF IsTarget
  <2>2. params \in [{route[j].name : j \in named} -> Texts \ {<<>>}]
    BY DEF IsTarget
  <2>3. route # <<>> /\ route[1].kind = "rest" => params[route[1].name][1] # Slash
    BY DEF IsTarget
  <2>4. DOMAIN route = 1..Len(route) /\ route # <<>>
    BY <2>1, LenProperties, EmptySeq
  <2> QED
    BY <2>1, <2>2, <2>3, <2>4, ElementOfSeq
<1>2. Seq(C) \subseteq Text
  BY SeqMonotonic, C \subseteq Nat DEF Text
<1>3. \A s \in Seq(C) : s # <<>> => s[1] # Slash
  <2> TAKE s \in Seq(C)
  <2> SUFFICES ASSUME s # <<>> PROVE s[1] # Slash
    OBVIOUS
  <2>1. 1 \in 1..Len(s)
    BY EmptySeq
  <2>2. s[1] \in C
    BY <2>1, ElementOfSeq
  <2> QED
    BY <2>2
<1> HIDE DEF C
<1>4. CASE t.kind = "literal"
  <2>1. p = t.text
    BY <1>4 DEF Segment
  <2>2. t \in [kind : {"literal"}, text : Seq(C) \ {<<>>}]
    BY <1>1, <1>4
  <2>3. p \in Seq(C) /\ p # <<>>
    BY <2>1, <2>2
  <2> QED
    BY <1>2, <1>3, <1>4, <2>3 DEF SegmentIs, C
<1>5. CASE t.kind = "param"
  <2>1. p \in Written(params[t.name], InPath)
    BY <1>5 DEF Segment
  <2>2. p \in Seq(C) /\ urldecode[p] = params[t.name]
    BY <1>1, <1>5, <2>1, WrittenInPath DEF C
  <2>3. p # <<>>
    BY <1>1, <1>5, <2>2, DecodeEmpty
  <2> QED
    BY <1>2, <1>3, <1>5, <2>2, <2>3 DEF SegmentIs, C
<1>6. CASE t.kind = "rest"
  <2>1. p \in Written(params[t.name], InRest)
    BY <1>6 DEF Segment
  <2>2. p \in Text /\ urldecode[p] = params[t.name]
    BY <1>1, <1>6, <2>1, WrittenInRest DEF Text
  <2>3. p # <<>>
    BY <1>1, <1>6, <2>2, DecodeEmpty
  <2>4. ASSUME i = 1 PROVE p[1] # Slash
    <3> SUFFICES ASSUME p[1] = Slash PROVE FALSE
      OBVIOUS
    <3>1. p = <<Slash>> \o Tail(p) /\ Tail(p) \in Text
      BY <2>2, <2>3 DEF Text
    <3>2. Slash \in Nat /\ Slash # Percent /\ Slash # Plus
      BY DEF Slash, Percent, Plus
    <3>3. urldecode[p] = <<Slash>> \o urldecode[Tail(p)]
      <4>1. urldecode[<<Slash>> \o Tail(p)]
                = <<IF Slash = Plus THEN Space ELSE Slash>> \o urldecode[Tail(p)]
        BY <3>1, <3>2, DecodeLiteral
      <4> QED
        BY <3>1, <3>2, <4>1
    <3>4. (<<Slash>> \o urldecode[Tail(p)])[1] = Slash
      BY <3>1, <3>2, DecodeType DEF Text
    <3> QED
      BY <1>1, <1>6, <2>2, <2>4, <3>3, <3>4
  <2> QED
    BY <1>6, <2>2, <2>3, <2>4 DEF SegmentIs
<1> QED
  BY <1>1, <1>4, <1>5, <1>6

\* What a path is read as, from the pieces it was joined of.
LEMMA ParamsOfSegments ==
    ASSUME NEW route, NEW params, IsTarget(route, params),
           NEW w, \A i \in 1..Len(route) : SegmentIs(route[i], params, w[i]),
           NEW path, NEW segs, segs = Segments(path),
           Len(route) <= Len(segs), Len(segs) \in Nat,
           \A i \in 1..Len(route) : route[i].kind = "param" => segs[i] = w[i],
           \A i \in 1..Len(route) :
               route[i].kind = "rest" => Join(SubSeq(segs, i, Len(segs)), Slash) = w[i]
    PROVE  extract_path_params(route, path) = params
<1> DEFINE n == Len(route)
           isRest(i)  == route[i].kind = "rest"
           isBound(i) == /\ \A j \in 1..(i - 1) : ~isRest(j)
                         /\ isRest(i) \/ (route[i].kind = "param" /\ i <= Len(segs))
           bound    == {i \in DOMAIN route : isBound(i)}
           named    == {i \in DOMAIN route : route[i].kind # "literal"}
           lastOf(k) == Max({i \in bound : route[i].name = k})
           value(i) == IF isRest(i) THEN Join(SubSeq(segs, i, Len(segs)), Slash) ELSE segs[i]
<1>1. extract_path_params(route, path) =
          [k \in {route[i].name : i \in bound} |-> urldecode[value(lastOf(k))]]
  BY DEF extract_path_params
<1>2. /\ n \in Nat /\ DOMAIN route = 1..n
      /\ \A i \in 1..n : route[i].kind \in {"literal", "param", "rest"}
      /\ \A i \in 1..n : isRest(i) => i = n
      /\ \A i, j \in named : route[i].name = route[j].name => i = j
      /\ params \in [{route[i].name : i \in named} -> Texts \ {<<>>}]
  <2> DEFINE T == [kind : {"literal"}, text : Seq(Nat \ {Slash}) \ {<<>>}]
                   \cup [kind : {"param", "rest"}, name : DOMAIN params]
  <2>1. route \in Seq(T)
    BY DEF IsTarget
  <2>2. \A t \in T : t.kind \in {"literal", "param", "rest"}
    OBVIOUS
  <2>3. /\ \A i \in DOMAIN route : isRest(i) => i = n
        /\ \A i, j \in named : route[i].name = route[j].name => i = j
        /\ params \in [{route[i].name : i \in named} -> Texts \ {<<>>}]
    BY DEF IsTarget
  <2> HIDE DEF T
  <2>4. n \in Nat /\ DOMAIN route = 1..n /\ \A i \in 1..n : route[i] \in T
    BY <2>1, LenProperties, ElementOfSeq
  <2> QED
    BY <2>2, <2>3, <2>4
<1>3. bound = named
  <2>1. ASSUME NEW i \in 1..n PROVE isBound(i) <=> route[i].kind # "literal"
    <3>0. n \in Nat /\ n <= Len(segs) /\ \A j \in 1..n : isRest(j) => j = n
      BY <1>2
    <3>00. route[i].kind \in {"literal", "param", "rest"}
      BY <1>2
    <3> HIDE DEF isRest, n
    <3>1. \A j \in 1..(i - 1) : ~isRest(j)
      BY <3>0
    <3>2. i <= Len(segs)
      BY <3>0
    <3> QED
      BY <3>00, <3>1, <3>2 DEF isRest
  <2> HIDE DEF isBound, n
  <2> QED
    BY <1>2, <2>1
<1>4. ASSUME NEW i \in named PROVE lastOf(route[i].name) = i
  <2>1. {j \in bound : route[j].name = route[i].name} = {i}
    BY <1>2, <1>3
  <2>2. i \in Nat
    <3>1. i \in 1..n
      BY <1>2
    <3> HIDE DEF n
    <3> QED
      BY <3>1
  <2>3. Max({i}) = i
    BY <2>2, MaxIs
  <2> QED
    BY <2>1, <2>3
<1>5. ASSUME NEW i \in named PROVE urldecode[value(i)] = params[route[i].name]
  <2>1. i \in 1..n /\ route[i].kind # "literal"
    BY <1>2
  <2>2. value(i) = w[i]
    BY <1>2, <2>1
  <2>3. urldecode[w[i]] = params[route[i].name]
    BY <2>1 DEF SegmentIs
  <2> QED
    BY <2>2, <2>3
<1>6. ASSUME NEW k \in {route[i].name : i \in named}
      PROVE  urldecode[value(lastOf(k))] = params[k]
  <2>1. PICK i \in named : k = route[i].name
    BY <1>6
  <2> HIDE DEF lastOf, value, named
  <2> QED
    BY <1>4, <1>5, <2>1
<1> HIDE DEF lastOf, value, bound, named
<1>7. extract_path_params(route, path) =
          [k \in {route[i].name : i \in named} |-> params[k]]
  BY <1>1, <1>3, <1>6
<1> QED
  BY <1>2, <1>7

LEMMA ParamsAreRead ==
    ASSUME NEW route, NEW params, IsTarget(route, params), NEW path \in Paths(route, params)
    PROVE  extract_path_params(route, path) = params
<1> DEFINE n == Len(route)
           sets == [i \in DOMAIN route |-> Segment(route[i], params)]
<1>1. PICK w \in OneOfEach[sets] : path = <<Slash>> \o Join(w, Slash)
  <2>1. Paths(route, params) = {<<Slash>> \o Join(w, Slash) : w \in OneOfEach[sets]}
    BY DEF Paths, Segment
  <2> HIDE DEF sets
  <2> QED
    BY <2>1
<1>2. n \in Nat /\ DOMAIN route = 1..n /\ \A i \in 1..n : route[i].kind = "rest" => i = n
  <2> DEFINE T == [kind : {"literal"}, text : Seq(Nat \ {Slash}) \ {<<>>}]
                   \cup [kind : {"param", "rest"}, name : DOMAIN params]
  <2>1. route \in Seq(T) /\ \A i \in DOMAIN route : route[i].kind = "rest" => i = n
    BY DEF IsTarget
  <2> HIDE DEF T
  <2> QED
    BY <2>1, LenProperties
<1>3. \A i \in 1..n : \A p \in Segment(route[i], params) :
          SegmentIs(route[i], params, p) /\ (i = 1 => p[1] # Slash)
  BY SegmentsWritten
<1>4. sets \in Seq(SUBSET Text) /\ Len(sets) = n
      /\ \A i \in 1..n : sets[i] = Segment(route[i], params)
  <2>1. \A i \in 1..n : Segment(route[i], params) \in SUBSET Text
    BY <1>3 DEF SegmentIs
  <2>2. sets \in [1..n -> SUBSET Text]
    BY <1>2, <2>1
  <2>3. \A i \in 1..n : sets[i] = Segment(route[i], params)
    BY <1>2
  <2> HIDE DEF sets
  <2> QED
    BY <1>2, <2>2, <2>3, FunctionIsSeq
<1> HIDE DEF sets
<1>5. w \in Seq(Text) /\ Len(w) = n /\ \A i \in 1..n : w[i] \in Segment(route[i], params)
  <2>1. w \in Picked(sets)
    BY <1>1, <1>4, OneOfEachIsPicked
  <2> QED
    BY <1>4, <2>1 DEF Picked
<1>6. \A i \in 1..n : SegmentIs(route[i], params, w[i])
  BY <1>3, <1>5
<1> DEFINE segs == Segments(path)
<1>7. CASE n = 0
  <2>1. path = <<Slash>> \o <<>>
    <3>1. w = <<>>
      BY <1>5, <1>7, EmptySeq
    <3>2. Join(<<>>, Slash) = <<>>
      BY FlattenEmpty DEF Join
    <3> QED
      BY <1>1, <3>1, <3>2
  <2>2. TrimSlashes(path) = <<>>
    BY <2>1, TrimOne, EmptySeq DEF Text
  <2>3. segs = <<<<>>>>
    BY <2>2, SplitEmpty DEF Segments
  <2>4. Len(segs) = 1
    BY <2>3
  <2> HIDE DEF segs
  <2>5. segs = Segments(path) /\ Len(segs) \in Nat /\ n <= Len(segs)
    BY <1>7, <2>4 DEF segs
  <2> QED
    BY <1>6, <1>7, <2>5, ParamsOfSegments
<1>8. CASE n # 0
  <2>1. 1 \in 1..n /\ w # <<>> /\ w[1] # <<>> /\ w[1][1] # Slash
    <3>1. 1 \in 1..n
      BY <1>2, <1>8
    <3>2. w # <<>>
      BY <1>5, <1>8, EmptySeq
    <3> QED
      BY <1>3, <1>5, <1>6, <3>1, <3>2 DEF SegmentIs
  <2>2. \A i \in 1..n : route[i].kind # "rest" => w[i] \in Seq(Nat \ {Slash})
    BY <1>6 DEF SegmentIs
  <2>3. \A i \in 1..(n - 1) : w[i] \in Seq(Nat \ {Slash})
    <3> TAKE i \in 1..(n - 1)
    <3>1. n \in Nat
      BY <1>2
    <3>2. i \in 1..n /\ i # n
      BY <3>1
    <3> QED
      BY <1>2, <2>2, <3>2
  <2> HIDE DEF segs, n
  <2>4. segs = Segments(<<Slash>> \o Join(w, Slash))
    BY <1>1 DEF segs
  <2>5. /\ n \in 1..Len(segs)
        /\ \A i \in 1..(n - 1) : segs[i] = w[i]
        /\ Join(SubSeq(segs, n, Len(segs)), Slash) = w[n]
        /\ w[n] \in Seq(Nat \ {Slash}) => segs[n] = w[n]
    BY <1>5, <2>1, <2>3, <2>4, SegmentsAre
  <2>6. \A i \in 1..n : route[i].kind = "param" => segs[i] = w[i]
    <3> TAKE i \in 1..n
    <3>1. CASE i = n
      BY <2>2, <2>5, <3>1
    <3>2. CASE i # n
      <4>1. i \in 1..(n - 1)
        BY <1>2, <3>2
      <4> QED
        BY <2>5, <4>1
    <3> QED
      BY <3>1, <3>2
  <2>7. \A i \in 1..n :
            route[i].kind = "rest" => Join(SubSeq(segs, i, Len(segs)), Slash) = w[i]
    BY <1>2, <2>5
  <2>8. segs = Segments(path) /\ n <= Len(segs) /\ Len(segs) \in Nat
    <3>1. segs = Segments(path)
      BY DEF segs
    <3> QED
      BY <1>2, <2>5, <3>1
  <2> QED
    BY <1>6, <2>6, <2>7, <2>8, ParamsOfSegments DEF n
<1> QED
  BY <1>7, <1>8

-----------------------------------------------------------------------------
(* X-Forwarded-For.                                                         *)

\* Whom a script takes for the client it finds in the headers, or it is the peer.
LEMMA ClientIsForwarded ==
    ASSUME NEW peer, NEW trusted, NEW lines \in Seq(Lines),
           client_addr(peer, trusted, lines) # peer
    PROVE  peer \in trusted /\ client_addr(peer, trusted, lines) = joined_headers(lines)[1]
<1> DEFINE E == Addresses \cup {Blank}
           shown == [i \in DOMAIN lines |-> IF lines[i].visible THEN lines[i].entries ELSE <<>>]
<1>1. /\ peer \in trusted /\ lines # <<>> /\ lines[1].visible
      /\ client_addr(peer, trusted, lines) = lines[1].entries[1]
  BY DEF client_addr, peer_is_trusted
<1>2. Len(lines) \in Nat \ {0} /\ DOMAIN lines = 1..Len(lines)
      /\ \A i \in 1..Len(lines) : lines[i] \in Lines
  BY <1>1, EmptySeq, LenProperties, ElementOfSeq
<1>3. \A l \in Lines : l.entries \in Seq(E) /\ l.entries # <<>> /\ l.visible \in BOOLEAN
  BY DEF Lines
<1>4. \A i \in 1..Len(lines) : shown[i] \in Seq(E)
  <2>1. <<>> \in Seq(E)
    BY EmptySeq
  <2> HIDE DEF E
  <2> QED
    BY <1>2, <1>3, <2>1
<1>5. shown \in [1..Len(lines) -> Seq(E)]
  BY <1>2, <1>4
<1>6. 1 \in DOMAIN lines
  BY <1>2
<1>7. shown[1] = lines[1].entries /\ shown[1] # <<>>
  BY <1>1, <1>2, <1>3, <1>6
<1>8. joined_headers(lines) = FlattenSeq(shown)
  BY DEF joined_headers
<1> HIDE DEF shown, E
<1>9. shown \in Seq(Seq(E)) /\ shown # <<>>
  BY <1>2, <1>5, FunctionIsSeq, EmptySeq
<1>10. FlattenSeq(shown)[1] = shown[1][1]
  BY <1>7, <1>9, FlattenFirst
<1> QED
  BY <1>1, <1>7, <1>8, <1>10

-----------------------------------------------------------------------------
(* Elements of DER.                                                         *)

\* Where the elements of a \o b are.
Cat(a, b) ==
    /\ Len(a \o b) = Len(a) + Len(b)
    /\ \A i \in 1..(Len(a) + Len(b)) :
           (a \o b)[i] = IF i <= Len(a) THEN a[i] ELSE b[i - Len(a)]

LEMMA CatHolds ==
    ASSUME NEW S, NEW a \in Seq(S), NEW b \in Seq(S)
    PROVE  a \o b \in Seq(S) /\ Cat(a, b)
BY ConcatProperties DEF Cat

\* What stands between two sequences can be cut out again.
LEMMA Slice ==
    ASSUME NEW S, NEW a \in Seq(S), NEW b \in Seq(S), NEW c \in Seq(S)
    PROVE  SubSeq(a \o (b \o c), Len(a) + 1, Len(a) + Len(b)) = b
<1> DEFINE s == a \o (b \o c)
           m == Len(a) + 1
           n == Len(a) + Len(b)
           r == SubSeq(s, m, n)
<1>1. Len(a) \in Nat /\ Len(b) \in Nat /\ Len(c) \in Nat /\ b \o c \in Seq(S)
      /\ Len(b \o c) = Len(b) + Len(c)
  BY ConcatProperties
<1>2. /\ s \in Seq(S) /\ Len(s) = Len(a) + Len(b) + Len(c)
      /\ \A i \in 1..Len(b) : s[Len(a) + i] = b[i]
  <2> DEFINE t == b \o c
  <2>1. \A i \in 1..(Len(b) + Len(c)) : t[i] = IF i <= Len(b) THEN b[i] ELSE c[i - Len(b)]
    BY ConcatProperties
  <2>2. t \in Seq(S) /\ Len(t) = Len(b) + Len(c)
    BY <1>1
  <2> HIDE DEF t
  <2>3. /\ a \o t \in Seq(S) /\ Len(a \o t) = Len(a) + Len(t)
        /\ \A i \in 1..(Len(a) + Len(t)) :
               (a \o t)[i] = IF i <= Len(a) THEN a[i] ELSE t[i - Len(a)]
    <3>1. a \o t \in Seq(S) /\ Cat(a, t)
      BY <2>2, CatHolds
    <3> QED
      BY <3>1 DEF Cat
  <2>4. ASSUME NEW i \in 1..Len(b) PROVE (a \o t)[Len(a) + i] = b[i]
    <3>1. /\ Len(a) + i \in 1..(Len(a) + Len(t)) /\ ~(Len(a) + i <= Len(a))
          /\ Len(a) + i - Len(a) = i /\ i \in 1..(Len(b) + Len(c)) /\ i <= Len(b)
      BY <1>1, <2>2
    <3>2. (a \o t)[Len(a) + i] = t[i]
      BY <2>3, <3>1
    <3> QED
      BY <2>1, <3>1, <3>2
  <2>5. s = a \o t
    BY DEF t
  <2> HIDE DEF s
  <2> QED
    BY <1>1, <2>2, <2>3, <2>4, <2>5
<1> HIDE DEF s
<1>3. m \in Int /\ n \in Int /\ \A i \in m..n : s[i] \in S
  <2>1. \A i \in m..n : i \in 1..Len(s)
    BY <1>1, <1>2
  <2> QED
    BY <1>1, <1>2, <2>1, ElementOfSeq
<1> HIDE DEF m, n
<1>4. /\ r \in Seq(S) /\ Len(r) = IF m <= n THEN n - m + 1 ELSE 0
      /\ \A i \in 1..(n - m + 1) : r[i] = s[m + i - 1]
  BY <1>3, SubSeqProperties
<1> HIDE DEF r
<1>5. Len(r) = Len(b) /\ n - m + 1 = Len(b) /\ \A i \in 1..Len(b) : m + i - 1 = Len(a) + i
  BY <1>1, <1>4 DEF m, n
<1>6. \A i \in 1..Len(b) : r[i] = b[i]
  BY <1>2, <1>4, <1>5
<1>7. r = b
  BY <1>4, <1>5, <1>6, SeqEqual
<1> QED
  BY <1>7 DEF r, m, n, s

\* The same of octets.
LEMMA OctetsCat ==
    ASSUME NEW a \in Octets, NEW b \in Octets
    PROVE  a \o b \in Octets /\ Cat(a, b)
BY CatHolds DEF Octets

LEMMA OctetsAssociative ==
    ASSUME NEW a \in Octets, NEW b \in Octets, NEW c \in Octets
    PROVE  Assoc(a, b, c)
BY Associative DEF Octets

LEMMA OctetsSlice ==
    ASSUME NEW a \in Octets, NEW b \in Octets, NEW c \in Octets
    PROVE  SubSeq(a \o (b \o c), Len(a) + 1, Len(a) + Len(b)) = b
BY Slice DEF Octets

\* A number of a length is what is computed from its octets, one after the other.
Folds(f, octets) ==
    /\ f \in [0..Len(octets) -> Nat]
    /\ f[0] = 0
    /\ \A i \in 1..Len(octets) : f[i] = f[i - 1] * 256 + octets[i]
    /\ LengthOf(octets) = f[Len(octets)]

LEMMA LengthBy ==
    ASSUME NEW octets \in Octets
    PROVE  \E f : Folds(f, octets)
<1> DEFINE n == Len(octets)
           Body(f) == [i \in 0..n |-> IF i = 0 THEN 0 ELSE f[i - 1] * 256 + octets[i]]
           F == CHOOSE f : f = Body(f)
           Step == [i \in 1..n |-> [x \in Nat |-> x * 256 + octets[i]]]
<1>1. n \in Nat /\ \A i \in 1..n : octets[i] \in Nat
  <2>1. n \in Nat
    BY LenProperties DEF Octets
  <2>2. \A i \in 1..n : octets[i] \in 0..255
    BY ElementOfSeq DEF Octets
  <2> HIDE DEF n
  <2> QED
    BY <2>1, <2>2
<1>2. /\ Step \in [1..n -> [Nat -> Nat]]
      /\ \A i \in 1..n, x \in Nat : Step[i][x] = x * 256 + octets[i]
  BY <1>1
<1> HIDE DEF Step
<1>3. PICK f : Solves(f, Nat, 0, n, Step)
  BY <1>1, <1>2, Recursion
<1>4. f \in [0..n -> Nat] /\ f[0] = 0 /\ \A i \in 1..n : f[i] = Step[i][f[i - 1]]
  BY <1>3 DEF Solves
<1>5. f = Body(f)
  <2>1. ASSUME NEW i \in 0..n PROVE f[i] = IF i = 0 THEN 0 ELSE f[i - 1] * 256 + octets[i]
    <3>1. CASE i = 0
      BY <1>4, <3>1
    <3>2. CASE i # 0
      <4>1. i \in 1..n /\ i - 1 \in 0..n
        BY <1>1, <3>2
      <4> HIDE DEF n
      <4>2. f[i - 1] \in Nat
        BY <1>4, <4>1
      <4> DEFINE y == f[i - 1]
      <4>3. f[i] = Step[i][y] /\ y \in Nat
        BY <1>4, <4>1, <4>2
      <4> HIDE DEF y
      <4>4. Step[i][y] = y * 256 + octets[i]
        BY <1>2, <4>1, <4>3
      <4> QED
        BY <3>2, <4>3, <4>4 DEF y
    <3> QED
      BY <3>1, <3>2
  <2> HIDE DEF n
  <2> QED
    BY <1>4, <2>1
<1>6. F = Body(F)
  <2> HIDE DEF Body
  <2> QED
    BY <1>5
<1>7. LengthOf(octets) = F[n]
  BY DEF LengthOf
<1> HIDE DEF F
<1>8. F[0] = 0 /\ \A i \in 1..n : F[i] = F[i - 1] * 256 + octets[i]
  <2>1. \A i \in 0..n : F[i] = IF i = 0 THEN 0 ELSE F[i - 1] * 256 + octets[i]
    BY <1>6
  <2> HIDE DEF n
  <2> QED
    BY <1>1, <2>1
<1> HIDE DEF n
<1>9. Alike(f, F, n)
  <2>1. ASSUME NEW i \in 1..n, f[i - 1] = F[i - 1] PROVE f[i] = F[i]
    <3>1. i - 1 \in 0..n
      BY <1>1
    <3>2. f[i - 1] \in Nat
      BY <1>4, <3>1
    <3> DEFINE y == f[i - 1]
    <3>3. f[i] = Step[i][y]
      BY <1>4
    <3>4. F[i] = y * 256 + octets[i]
      BY <1>8, <2>1
    <3>5. y \in Nat
      BY <3>2
    <3> HIDE DEF y
    <3>6. Step[i][y] = y * 256 + octets[i]
      BY <1>2, <3>5
    <3> QED
      BY <3>3, <3>4, <3>6
  <2> QED
    BY <1>4, <1>8, <2>1 DEF Alike
<1>10. \A i \in 0..n : f[i] = F[i]
  BY <1>1, <1>9, Agreement
<1>11. /\ f[0] = 0 /\ LengthOf(octets) = f[n]
       /\ \A i \in 1..n : f[i] = f[i - 1] * 256 + octets[i]
  <2>1. n \in 0..n /\ 0 \in 0..n /\ \A i \in 1..n : i \in 0..n /\ i - 1 \in 0..n
    BY <1>1
  <2> QED
    BY <1>7, <1>8, <1>10, <2>1
<1> QED
  BY <1>4, <1>11 DEF n, Folds

\* LengthOf of up to three octets, which lengths below LengthLimit have.
LEMMA LengthOfFew ==
    ASSUME NEW o \in Octets
    PROVE  /\ Len(o) = 1 => LengthOf(o) = o[1]
           /\ Len(o) = 2 => LengthOf(o) = o[1] * 256 + o[2]
           /\ Len(o) = 3 => LengthOf(o) = (o[1] * 256 + o[2]) * 256 + o[3]
<1>1. PICK f : Folds(f, o)
  BY LengthBy
<1>2. /\ f \in [0..Len(o) -> Nat] /\ f[0] = 0 /\ LengthOf(o) = f[Len(o)]
      /\ \A i \in 1..Len(o) : f[i] = f[i - 1] * 256 + o[i]
  BY <1>1 DEF Folds
<1>3. \A i \in 1..Len(o) : o[i] \in Nat
  <2>1. 0..255 \subseteq Nat
    OBVIOUS
  <2>2. \A i \in 1..Len(o) : o[i] \in 0..255
    BY ElementOfSeq DEF Octets
  <2> QED
    BY <2>1, <2>2, Zenon
<1> DEFINE m == Len(o)
<1> HIDE DEF m
<1>4. m \in {1, 2, 3} => 1 \in 1..m /\ f[1] = o[1]
  BY <1>2, <1>3 DEF m
<1>5. m \in {2, 3} => 2 \in 1..m /\ f[2] = o[1] * 256 + o[2]
  BY <1>2, <1>3, <1>4 DEF m
<1>6. m = 3 => 3 \in 1..m /\ f[3] = (o[1] * 256 + o[2]) * 256 + o[3]
  BY <1>2, <1>3, <1>5 DEF m
<1>7. LengthOf(o) = f[m]
  BY <1>2 DEF m
<1>8. m = 1 => LengthOf(o) = o[1]
  BY <1>4, <1>7
<1>9. m = 2 => LengthOf(o) = o[1] * 256 + o[2]
  BY <1>5, <1>7
<1>10. m = 3 => LengthOf(o) = (o[1] * 256 + o[2]) * 256 + o[3]
  BY <1>6, <1>7
<1> QED
  BY <1>8, <1>9, <1>10 DEF m

\* What element computes: where the content starts and how long it is.
Start(input) == IF input[2] >= 128 THEN 2 + (input[2] % 128) ELSE 2

Size(input) ==
    IF input[2] >= 128 THEN LengthOf(SubSeq(input, 3, Start(input))) ELSE input[2]

Unreadable(input) ==
    \/ Len(input) < 2
    \/ input[1] % 32 = 31
    \/ input[2] >= 128 /\ (Start(input) \notin 3..6 \/ Len(input) < Start(input))
    \/ Len(input) - Start(input) < Size(input)

Found(tag, content, rest) == [ok |-> TRUE, tag |-> tag, content |-> content, rest |-> rest]

\* What element reads, in named parts.
LEMMA ElementIs ==
    ASSUME NEW input \in Octets
    PROVE  element[input] =
               IF Unreadable(input) THEN Broken
               ELSE Found(input[1],
                          SubSeq(input, Start(input) + 1, Start(input) + Size(input)),
                          SubSeq(input, Start(input) + Size(input) + 1, Len(input)))
BY DEF element, Unreadable, Found, Start, Size

\* first and more, in front of a content, say that it has n octets.
Announces(first, more, n) ==
    \/ first < 128 /\ first = n /\ more = <<>>
    \/ Len(more) \in 1..3 /\ first = 128 + Len(more) /\ LengthOf(more) = n

Opens(head, tag, first) == head = <<tag, first>>

FoundAt(head, more, tag, content, rest) ==
    element[(head \o more) \o (content \o rest)] = Found(tag, content, rest)

\* An element whose head announces the length of its content is read whole.
LEMMA ElementAt ==
    ASSUME NEW tag \in Tags, NEW first \in 0..255, NEW more \in Octets,
           NEW content \in Octets, NEW rest \in Octets, Announces(first, more, Len(content)),
           NEW head, Opens(head, tag, first)
    PROVE  FoundAt(head, more, tag, content, rest)
<1> DEFINE h == head \o more
           tail == content \o rest
           input == h \o tail
<1>1. /\ head \in Octets /\ Len(head) = 2 /\ head[1] = tag /\ head[2] = first
      /\ tag \in 0..255 /\ tag % 32 # 31
  BY DEF Octets, Tags, Opens
<1>2. /\ h \in Octets /\ Len(h) = 2 + Len(more)
      /\ tail \in Octets /\ Len(tail) = Len(content) + Len(rest)
      /\ Len(more) \in Nat /\ Len(content) \in Nat /\ Len(rest) \in Nat
  <2>1. h \in Octets /\ Cat(head, more) /\ tail \in Octets /\ Cat(content, rest)
    BY <1>1, OctetsCat
  <2>2. Len(more) \in Nat /\ Len(content) \in Nat /\ Len(rest) \in Nat
    BY LenProperties DEF Octets
  <2> QED
    BY <1>1, <2>1, <2>2 DEF Cat
<1>3. input = head \o (more \o tail) /\ input = (h \o content) \o rest
  <2>1. Assoc(head, more, tail) /\ Assoc(h, content, rest)
    BY <1>1, <1>2, OctetsAssociative
  <2> QED
    BY <2>1 DEF Assoc
<1>4. more \o tail \in Octets /\ h \o content \in Octets
  BY <1>2, OctetsCat
<1>5. /\ input \in Octets /\ Len(input) = 2 + Len(more) + Len(content) + Len(rest)
      /\ input[1] = tag /\ input[2] = first
  <2> DEFINE t == more \o tail
  <2>1. head \o t \in Octets /\ Cat(head, t) /\ Cat(h, tail) /\ t \in Octets
    BY <1>1, <1>2, <1>4, OctetsCat
  <2>2. Len(t) \in Nat
    BY <1>4, LenProperties DEF Octets
  <2> HIDE DEF t
  <2>3. (head \o t)[1] = head[1] /\ (head \o t)[2] = head[2]
    BY <1>1, <2>1, <2>2 DEF Cat
  <2>4. input = head \o t
    BY <1>3 DEF t
  <2>5. Len(input) = Len(h) + Len(tail)
    BY <2>1 DEF Cat
  <2> HIDE DEF input, tail, h
  <2> QED
    BY <1>1, <1>2, <2>1, <2>3, <2>4, <2>5
<1>6. SubSeq(input, 3, 2 + Len(more)) = more
  <2>1. SubSeq(head \o (more \o tail), Len(head) + 1, Len(head) + Len(more)) = more
    BY <1>1, <1>2, OctetsSlice
  <2>2. Len(head) + 1 = 3 /\ Len(head) + Len(more) = 2 + Len(more)
    BY <1>1
  <2> HIDE DEF input, tail, h
  <2> QED
    BY <1>3, <2>1, <2>2
<1>7. SubSeq(input, 2 + Len(more) + 1, 2 + Len(more) + Len(content)) = content
  <2>1. SubSeq(h \o (content \o rest), Len(h) + 1, Len(h) + Len(content)) = content
    BY <1>2, OctetsSlice
  <2> HIDE DEF h
  <2> QED
    BY <1>2, <2>1
<1>8. SubSeq(input, 2 + Len(more) + Len(content) + 1, Len(input)) = rest
  <2> DEFINE b == h \o content
  <2>1. <<>> \in Octets /\ rest \o <<>> = rest /\ b \in Octets /\ Len(b) = 2 + Len(more) + Len(content)
    <3>1. Cat(h, content)
      BY <1>2, OctetsCat
    <3> QED
      BY <1>2, <1>4, <3>1, ConcatEmptySeq DEF Octets, Cat
  <2>2. SubSeq(b \o (rest \o <<>>), Len(b) + 1, Len(b) + Len(rest)) = rest
    BY <2>1, OctetsSlice
  <2>3. input = b \o rest
    BY <1>3
  <2> HIDE DEF b, input
  <2> QED
    BY <1>5, <2>1, <2>2, <2>3
<1> HIDE DEF input, h, tail
<1>9. Start(input) = 2 + Len(more) /\ Size(input) = Len(content)
  <2>1. CASE first < 128 /\ first = Len(content) /\ more = <<>>
    <3>1. Len(more) = 0
      BY <2>1, EmptySeq
    <3> QED
      BY <1>5, <2>1, <3>1 DEF Start, Size
  <2>2. CASE Len(more) \in 1..3 /\ first = 128 + Len(more) /\ LengthOf(more) = Len(content)
    <3>1. first >= 128 /\ first % 128 = Len(more)
      <4>1. \A d \in 1..3 : 128 + d >= 128 /\ (128 + d) % 128 = d
        OBVIOUS
      <4> QED
        BY <2>2, <4>1
    <3>2. Start(input) = 2 + Len(more)
      BY <1>5, <3>1 DEF Start
    <3> QED
      BY <1>5, <1>6, <2>2, <3>1, <3>2 DEF Size
  <2> QED
    BY <2>1, <2>2 DEF Announces
<1>10. ~Unreadable(input)
  <2>1. first >= 128 => 2 + Len(more) \in 3..6
    <3>1. first >= 128 => Len(more) \in 1..3
      BY DEF Announces
    <3>2. \A d \in 1..3 : 2 + d \in 3..6
      OBVIOUS
    <3> QED
      BY <3>1, <3>2
  <2>2. ~(Len(input) < 2) /\ ~(Len(input) < 2 + Len(more))
        /\ ~(Len(input) - (2 + Len(more)) < Len(content))
    BY <1>2, <1>5
  <2> QED
    BY <1>1, <1>5, <1>9, <2>1, <2>2 DEF Unreadable
<1>11. element[input] = Found(tag, content, rest)
  BY <1>5, <1>7, <1>8, <1>9, <1>10, ElementIs
<1> QED
  BY <1>11 DEF input, h, tail, FoundAt

LEMMA PrefixIs ==
    ASSUME NEW S, NEW a \in Seq(S), NEW b \in Seq(S), NEW c \in Seq(S),
           Len(a) = 1, Len(c) = Len(b) + 1, c[1] = a[1], \A i \in 1..Len(b) : c[i + 1] = b[i]
    PROVE  a \o b = c
<1>1. Len(b) \in Nat
  BY LenProperties
<1>2. a \o b \in Seq(S) /\ Cat(a, b)
  BY <1>1, CatHolds
<1>3. Len(a \o b) = Len(c) /\ Len(c) = 1 + Len(b)
  BY <1>1, <1>2 DEF Cat
<1>4. ASSUME NEW i \in 1..Len(a \o b) PROVE (a \o b)[i] = c[i]
  <2>1. (a \o b)[i] = IF i <= 1 THEN a[i] ELSE b[i - 1]
    BY <1>1, <1>2, <1>3 DEF Cat
  <2>2. CASE i = 1
    BY <1>1, <2>1, <2>2
  <2>3. CASE i # 1
    <3>1. i - 1 \in 1..Len(b) /\ (i - 1) + 1 = i /\ ~(i <= 1)
      BY <1>1, <1>3, <2>3
    <3>2. c[(i - 1) + 1] = b[i - 1]
      BY <3>1
    <3> QED
      BY <2>1, <3>1, <3>2
  <2> QED
    BY <2>2, <2>3
<1> QED
  BY <1>2, <1>3, <1>4, SeqEqual

LEMMA PrefixOfOne ==
    ASSUME NEW t \in Nat, NEW x \in Nat,
           NEW a, a = <<t>>, NEW b, b = <<x>>
    PROVE  a \o b = <<t, x>>
<1> DEFINE c == <<t, x>>
<1>1. /\ a \in Seq(Nat) /\ Len(a) = 1 /\ a[1] = t
      /\ b \in Seq(Nat) /\ Len(b) = 1 /\ b[1] = x
      /\ c \in Seq(Nat) /\ Len(c) = 2 /\ c[1] = t /\ c[2] = x
  OBVIOUS
<1> HIDE DEF c
<1>2. Len(c) = Len(b) + 1 /\ \A i \in 1..Len(b) : c[i + 1] = b[i]
  BY <1>1
<1>3. a \o b = c
  BY <1>1, <1>2, PrefixIs
<1> QED
  BY <1>3 DEF c

LEMMA PrefixOfTwo ==
    ASSUME NEW t \in Nat, NEW x \in Nat, NEW y \in Nat,
           NEW a, a = <<t>>, NEW b, b = <<x, y>>
    PROVE  a \o b = <<t, x, y>>
<1> DEFINE c == <<t, x, y>>
<1>1. /\ a \in Seq(Nat) /\ Len(a) = 1 /\ a[1] = t
      /\ b \in Seq(Nat) /\ Len(b) = 2 /\ b[1] = x /\ b[2] = y
      /\ c \in Seq(Nat) /\ Len(c) = 3 /\ c[1] = t /\ c[2] = x /\ c[3] = y
  OBVIOUS
<1> HIDE DEF c
<1>2. Len(c) = Len(b) + 1 /\ \A i \in 1..Len(b) : c[i + 1] = b[i]
  BY <1>1
<1>3. a \o b = c
  BY <1>1, <1>2, PrefixIs
<1> QED
  BY <1>3 DEF c

LEMMA PrefixOfThree ==
    ASSUME NEW t \in Nat, NEW x \in Nat, NEW y \in Nat, NEW z \in Nat,
           NEW a, a = <<t>>, NEW b, b = <<x, y, z>>
    PROVE  a \o b = <<t, x, y, z>>
<1> DEFINE c == <<t, x, y, z>>
<1>1. /\ a \in Seq(Nat) /\ Len(a) = 1 /\ a[1] = t
      /\ b \in Seq(Nat) /\ Len(b) = 3 /\ b[1] = x /\ b[2] = y /\ b[3] = z
      /\ c \in Seq(Nat) /\ Len(c) = 4 /\ c[1] = t /\ c[2] = x /\ c[3] = y /\ c[4] = z
  OBVIOUS
<1> HIDE DEF c
<1>2. Len(c) = Len(b) + 1 /\ \A i \in 1..Len(b) : c[i + 1] = b[i]
  BY <1>1
<1>3. a \o b = c
  BY <1>1, <1>2, PrefixIs
<1> QED
  BY <1>3 DEF c

Single(first, e) == first = <<e>>

Spelt(first, more, n) ==
    /\ \A f : Single(f, first) => LengthOctets(n) = f \o more
    /\ Announces(first, more, n)

\* LengthOctets spells any length below the limit as element reads it.
LEMMA LengthIsAnnounced ==
    ASSUME NEW n \in Nat, n < LengthLimit
    PROVE  \E first \in 0..255, more \in Octets :
               Spelt(first, more, n)
<1>1. CASE n < 128
  <2>1. n \in 0..255 /\ <<>> \in Octets
    BY <1>1 DEF Octets
  <2> DEFINE b == <<n>>
             o == <<>>
  <2>2. b \in Seq(Nat) /\ o = <<>>
    OBVIOUS
  <2>3. LengthOctets(n) = b
    BY <1>1 DEF LengthOctets
  <2> HIDE DEF b, o
  <2>4. b \o o = b
    BY <2>2, ConcatEmptySeq
  <2>5. LengthOctets(n) = b \o o
    BY <2>3, <2>4
  <2>6. Announces(n, o, n)
    BY <1>1, <2>2 DEF Announces
  <2>7. ASSUME NEW f, Single(f, n) PROVE LengthOctets(n) = f \o o
    BY <2>5, <2>7 DEF b, Single
  <2>8. Spelt(n, o, n)
    BY <2>6, <2>7 DEF Spelt
  <2>9. n \in 0..255 /\ o \in Octets
    BY <2>1, <2>2
  <2> QED
    BY <2>8, <2>9
<1>2. CASE n >= 128 /\ n < 256
  <2>1. n \in 0..255
    BY <1>2
  <2>2. LengthOctets(n) = <<129, n>>
    BY <1>2 DEF LengthOctets
  <2> DEFINE o == <<n>>
  <2>3. o \in Octets /\ Len(o) = 1 /\ o[1] = n
    BY <2>1 DEF Octets
  <2>4. ASSUME NEW f, Single(f, 129) PROVE LengthOctets(n) = f \o o
    BY <2>1, <2>2, <2>4, PrefixOfOne DEF Single
  <2> HIDE DEF o
  <2>5. LengthOf(o) = o[1]
    BY <2>3, LengthOfFew
  <2>6. LengthOf(o) = n
    BY <2>1, <2>3, <2>5
  <2>7. Announces(129, o, n)
    BY <2>3, <2>6 DEF Announces
  <2>8. Spelt(129, o, n)
    BY <2>4, <2>7 DEF Spelt
  <2> QED
    BY <2>3, <2>8
<1>3. CASE n >= 256 /\ n < 65536
  <2> DEFINE x == n \div 256
             y == n % 256
  <2>1. x \in 0..255 /\ y \in 0..255 /\ x * 256 + y = n
    BY <1>3
  <2>2. LengthOctets(n) = <<130, x, y>>
    BY <1>3 DEF LengthOctets
  <2> HIDE DEF x, y
  <2> DEFINE o == <<x, y>>
  <2>3. o \in Octets /\ Len(o) = 2 /\ o[1] = x /\ o[2] = y
    BY <2>1 DEF Octets
  <2>4. ASSUME NEW f, Single(f, 130) PROVE LengthOctets(n) = f \o o
    BY <2>1, <2>2, <2>4, PrefixOfTwo DEF Single
  <2> HIDE DEF o
  <2>5. LengthOf(o) = o[1] * 256 + o[2]
    BY <2>3, LengthOfFew
  <2>6. LengthOf(o) = n
    BY <2>1, <2>3, <2>5
  <2>7. Announces(130, o, n)
    BY <2>3, <2>6 DEF Announces
  <2>8. Spelt(130, o, n)
    BY <2>4, <2>7 DEF Spelt
  <2> QED
    BY <2>3, <2>8
<1>4. CASE n >= 65536
  <2> DEFINE x == (n \div 65536) % 256
             y == (n \div 256) % 256
             z == n % 256
  <2>1. x \in 0..255 /\ y \in 0..255 /\ z \in 0..255 /\ (x * 256 + y) * 256 + z = n
    BY <1>4 DEF LengthLimit
  <2>2. LengthOctets(n) = <<131, x, y, z>>
    BY <1>4 DEF LengthOctets
  <2> HIDE DEF x, y, z
  <2> DEFINE o == <<x, y, z>>
  <2>3. o \in Octets /\ Len(o) = 3 /\ o[1] = x /\ o[2] = y /\ o[3] = z
    BY <2>1 DEF Octets
  <2>4. ASSUME NEW f, Single(f, 131) PROVE LengthOctets(n) = f \o o
    <3>1. 131 \in Nat /\ x \in Nat /\ y \in Nat /\ z \in Nat
      BY <2>1
    <3> HIDE DEF o
    <3>2. f \o o = <<131, x, y, z>>
      BY <2>4, <3>1, PrefixOfThree DEF o, Single
    <3> QED
      BY <2>2, <3>2
  <2> HIDE DEF o
  <2>5. LengthOf(o) = (o[1] * 256 + o[2]) * 256 + o[3]
    BY <2>3, LengthOfFew
  <2>6. LengthOf(o) = n
    BY <2>1, <2>3, <2>5
  <2>7. Announces(131, o, n)
    BY <2>3, <2>6 DEF Announces
  <2>8. Spelt(131, o, n)
    BY <2>4, <2>7 DEF Spelt
  <2> QED
    BY <2>3, <2>8
<1> QED
  BY <1>1, <1>2, <1>3, <1>4

LEMMA LengthOctetsType == ASSUME NEW n \in Nat PROVE LengthOctets(n) \in Octets
<1>1. CASE n < 128
  BY <1>1 DEF LengthOctets, Octets
<1>2. CASE n >= 128 /\ n < 256
  <2>1. LengthOctets(n) = <<129, n>> /\ n \in 0..255
    BY <1>2 DEF LengthOctets
  <2>2. <<129, n>> \in Octets
    BY <2>1 DEF Octets
  <2> QED
    BY <2>1, <2>2
<1>3. CASE n >= 256 /\ n < 65536
  <2> DEFINE x == n \div 256
             y == n % 256
  <2>1. x \in 0..255 /\ y \in 0..255
    BY <1>3
  <2>2. LengthOctets(n) = <<130, x, y>>
    BY <1>3 DEF LengthOctets
  <2> HIDE DEF x, y
  <2>3. <<130, x, y>> \in Octets
    BY <2>1 DEF Octets
  <2> QED
    BY <2>2, <2>3
<1>4. CASE n >= 65536
  <2> DEFINE x == (n \div 65536) % 256
             y == (n \div 256) % 256
             z == n % 256
  <2>1. x \in 0..255 /\ y \in 0..255 /\ z \in 0..255
    OBVIOUS
  <2>2. LengthOctets(n) = <<131, x, y, z>>
    BY <1>4 DEF LengthOctets
  <2> HIDE DEF x, y, z
  <2>3. <<131, x, y, z>> \in Octets
    BY <2>1 DEF Octets
  <2> QED
    BY <2>2, <2>3
<1> QED
  BY <1>1, <1>2, <1>3, <1>4

LEMMA EncodedIs ==
    ASSUME NEW tag, NEW content, NEW t, t = <<tag>>
    PROVE  Encoded(tag, content) = (t \o LengthOctets(Len(content))) \o content
BY DEF Encoded

\* An encoding is made of octets, longer than its content, and begins with the tag.
LEMMA EncodedType ==
    ASSUME NEW tag \in 0..255, NEW content \in Octets
    PROVE  /\ Encoded(tag, content) \in Octets
           /\ Len(content) < Len(Encoded(tag, content))
           /\ Encoded(tag, content)[1] = tag
<1> DEFINE t == <<tag>>
           l == LengthOctets(Len(content))
           h == t \o l
           e == h \o content
<1>1. t \in Octets /\ Len(t) = 1 /\ t[1] = tag /\ l \in Octets
  <2>1. t \in Octets /\ Len(t) = 1 /\ t[1] = tag
    BY DEF Octets
  <2>2. Len(content) \in Nat
    BY LenProperties DEF Octets
  <2>3. l \in Octets
    BY <2>2, LengthOctetsType
  <2> QED
    BY <2>1, <2>3
<1>2. Encoded(tag, content) = e
  BY EncodedIs
<1> HIDE DEF t, l
<1>3. h \in Octets /\ Cat(t, l)
  BY <1>1, OctetsCat
<1>4. Len(l) \in Nat /\ Len(content) \in Nat
  BY <1>1, LenProperties DEF Octets
<1>5. Len(h) = 1 + Len(l) /\ h[1] = tag
  BY <1>1, <1>3, <1>4 DEF Cat
<1> HIDE DEF h
<1>6. e \in Octets /\ Cat(h, content)
  BY <1>3, OctetsCat
<1>7. Len(e) = Len(h) + Len(content) /\ e[1] = tag
  BY <1>4, <1>5, <1>6 DEF Cat
<1> HIDE DEF e
<1> QED
  BY <1>2, <1>4, <1>5, <1>6, <1>7

\* The issuer's encoding is what the listener reads.
LEMMA EncodedReads ==
    ASSUME NEW tag \in Tags, NEW content \in Octets, Len(content) < LengthLimit, NEW rest \in Octets
    PROVE  element[Encoded(tag, content) \o rest] = Found(tag, content, rest)
<1>1. tag \in 0..255 /\ Len(content) \in Nat
  BY LenProperties DEF Tags, Octets
<1>2. PICK first \in 0..255, more \in Octets : Spelt(first, more, Len(content))
  BY <1>1, LengthIsAnnounced
<1> DEFINE t == <<tag>>
           f == <<first>>
           h == <<tag, first>>
<1>3. LengthOctets(Len(content)) = f \o more /\ Announces(first, more, Len(content))
  <2>1. Single(f, first)
    BY DEF Single
  <2> QED
    BY <1>2, <2>1 DEF Spelt
<1>4. t \in Octets /\ f \in Octets /\ h \in Octets
  BY <1>1 DEF Octets
<1>5. t \o f = h
  <2>1. tag \in Nat /\ first \in Nat
    BY <1>1
  <2> QED
    BY <2>1, PrefixOfOne DEF t, f, h
<1>6. Encoded(tag, content) = (t \o (f \o more)) \o content
  <2>1. Encoded(tag, content) = (t \o LengthOctets(Len(content))) \o content
    BY <1>1, EncodedIs
  <2> HIDE DEF t, f
  <2> QED
    BY <1>3, <2>1
<1> HIDE DEF t, f, h
<1>7. element[(h \o more) \o (content \o rest)] = Found(tag, content, rest)
  <2>1. Opens(h, tag, first)
    BY DEF h, Opens
  <2>2. FoundAt(h, more, tag, content, rest)
    BY <1>2, <1>3, <2>1, ElementAt
  <2> QED
    BY <2>2 DEF FoundAt
<1>8. Assoc(t, f, more) /\ Assoc(h \o more, content, rest)
  <2>1. h \o more \in Octets
    BY <1>4, OctetsCat
  <2> QED
    BY <1>4, <2>1, OctetsAssociative
<1>9. Encoded(tag, content) \o rest = (h \o more) \o (content \o rest)
  BY <1>5, <1>6, <1>8 DEF Assoc
<1> QED
  BY <1>7, <1>9

\* An element is followed by the octets after it, fewer than it had.
Element == [ok : {TRUE}, tag : 0..255, content : Octets, rest : Octets]

\* What element leaves is shorter than what it was given.
LEMMA ElementType ==
    ASSUME NEW input \in Octets
    PROVE  \/ element[input] = Broken
           \/ element[input] \in Element /\ Len(element[input].rest) < Len(input)
<1>1. CASE Unreadable(input)
  BY <1>1, ElementIs
<1>2. CASE ~Unreadable(input)
  <2> DEFINE l == Len(input)
             m == Start(input)
             n == Size(input)
             a == SubSeq(input, m + 1, m + n)
             b == SubSeq(input, m + n + 1, l)
  <2>1. l \in Nat /\ l >= 2 /\ input[1] \in 0..255 /\ input[2] \in 0..255
    <3>1. l \in Nat /\ l >= 2
      BY <1>2, LenProperties DEF Unreadable, Octets
    <3>2. 1 \in 1..l /\ 2 \in 1..l
      BY <3>1
    <3> HIDE DEF l
    <3> QED
      BY <3>1, <3>2, ElementOfSeq DEF Octets, l
  <2>2. m \in 2..6 /\ m <= l
    BY <1>2, <2>1 DEF Unreadable, Start
  <2>3. n \in Nat
    <3>1. CASE input[2] >= 128
      <4> DEFINE o == SubSeq(input, 3, m)
      <4>1. m \in 3..6 /\ m <= l
        BY <1>2, <3>1 DEF Unreadable
      <4>2. o \in Octets
        <5>1. \A i \in 3..m : i \in 1..l
          BY <2>1, <4>1
        <5>2. \A i \in 3..m : input[i] \in 0..255
          BY <5>1, ElementOfSeq DEF Octets
        <5>3. 3 \in Int /\ m \in Int
          BY <4>1
        <5> HIDE DEF m
        <5> QED
          BY <5>2, <5>3, SubSeqProperties DEF Octets
      <4>3. LengthOf(o) \in Nat
        <5> HIDE DEF o
        <5>1. PICK f : Folds(f, o)
          BY <4>2, LengthBy
        <5>2. Len(o) \in 0..Len(o)
          BY <4>2, LenProperties DEF Octets
        <5> QED
          BY <5>1, <5>2 DEF Folds
      <4> QED
        BY <3>1, <4>3 DEF Size
    <3>2. CASE ~(input[2] >= 128)
      <4> DEFINE x == input[2]
      <4>1. n = x
        BY <3>2 DEF Size
      <4>2. x \in 0..255
        BY <2>1
      <4> HIDE DEF n, x
      <4> QED
        BY <4>1, <4>2
    <3> QED
      BY <3>1, <3>2
  <2>4. m + n <= l
    BY <1>2, <2>1, <2>2, <2>3 DEF Unreadable
  <2> HIDE DEF l, m, n
  <2>5. \A i \in 1..l : input[i] \in 0..255
    BY ElementOfSeq DEF Octets, l
  <2>6. a \in Octets
    <3>1. \A i \in (m + 1)..(m + n) : i \in 1..l
      BY <2>1, <2>2, <2>3, <2>4
    <3>2. \A i \in (m + 1)..(m + n) : input[i] \in 0..255
      BY <2>5, <3>1
    <3>3. m + 1 \in Int /\ m + n \in Int
      BY <2>2, <2>3
    <3> QED
      BY <3>2, <3>3, SubSeqProperties DEF Octets
  <2>7. b \in Octets /\ Len(b) < l
    <3>1. \A i \in (m + n + 1)..l : i \in 1..l
      BY <2>1, <2>2, <2>3, <2>4
    <3>2. \A i \in (m + n + 1)..l : input[i] \in 0..255
      BY <2>5, <3>1
    <3>3. m + n + 1 \in Int /\ l \in Int
      BY <2>1, <2>2, <2>3
    <3>4. b \in Octets /\ Len(b) = IF m + n + 1 <= l THEN l - (m + n + 1) + 1 ELSE 0
      BY <3>2, <3>3, SubSeqProperties DEF Octets
    <3> QED
      BY <2>1, <2>2, <2>3, <3>4
  <2>8. element[input] = Found(input[1], a, b)
    BY <1>2, ElementIs DEF l, m, n
  <2> HIDE DEF a, b
  <2> QED
    BY <2>1, <2>6, <2>7, <2>8 DEF Found, Element, l
<1> QED
  BY <1>1, <1>2

\* What elements has for an input, given what f has for shorter ones.
ElementsOf(f, input) ==
    IF input = <<>> THEN <<>>
    ELSE IF element[input].ok THEN <<element[input]>> \o f[element[input].rest]
    ELSE <<Broken>>

ElementOrBroken == Element \cup {Broken}

\* f is right for inputs of fewer than n octets.
RightTo(f, n) == \A s \in Octets : Len(s) < n => f[s] = ElementsOf(f, s)

LEMMA ElementOk ==
    ASSUME NEW s \in Octets, element[s].ok
    PROVE  /\ element[s] \in Element /\ element[s].rest \in Octets
           /\ Len(element[s].rest) \in Nat /\ Len(s) \in Nat
           /\ Len(element[s].rest) < Len(s)
<1>1. element[s] # Broken
  BY DEF Broken
<1>2. element[s] \in Element /\ Len(element[s].rest) < Len(s)
  BY <1>1, ElementType
<1>3. element[s].rest \in Octets
  BY <1>2 DEF Element
<1> QED
  BY <1>2, <1>3, LenProperties DEF Octets

LEMMA ElementsOfType ==
    ASSUME NEW f \in [Octets -> Seq(ElementOrBroken)], NEW s \in Octets
    PROVE  ElementsOf(f, s) \in Seq(ElementOrBroken)
<1> DEFINE T == ElementOrBroken
<1>1. Broken \in T
  BY DEF ElementOrBroken
<1> HIDE DEF T
<1>2. <<Broken>> \in Seq(T) /\ <<>> \in Seq(T)
  BY <1>1
<1>3. CASE element[s].ok
  <2> DEFINE e == element[s]
  <2>1. e \in T /\ e.rest \in Octets
    BY <1>3, ElementOk DEF ElementOrBroken, T
  <2> HIDE DEF e
  <2>2. f[e.rest] \in Seq(T) /\ <<e>> \in Seq(T)
    BY <2>1 DEF T
  <2>3. <<e>> \o f[e.rest] \in Seq(T)
    <3> DEFINE a == <<e>>
               b == f[e.rest]
    <3>1. a \in Seq(T) /\ b \in Seq(T)
      BY <2>2
    <3> HIDE DEF a, b
    <3>2. a \o b \in Seq(T)
      BY <3>1, CatHolds
    <3> QED
      BY <3>2 DEF a, b
  <2> QED
    BY <1>2, <1>3, <2>3 DEF ElementsOf, e, T
<1>4. CASE ~element[s].ok
  BY <1>2, <1>4 DEF ElementsOf, T
<1> QED
  BY <1>3, <1>4

\* It does not matter what f has for longer inputs.
LEMMA ElementsOfShorter ==
    ASSUME NEW s \in Octets, NEW f, NEW g,
           \A t \in Octets : Len(t) < Len(s) => f[t] = g[t]
    PROVE  ElementsOf(f, s) = ElementsOf(g, s)
<1>1. element[s].ok => f[element[s].rest] = g[element[s].rest]
  BY ElementOk
<1> QED
  BY <1>1 DEF ElementsOf

\* Two functions that are right for inputs up to some length are the same there.
LEMMA RightAgree ==
    ASSUME NEW n \in Nat, NEW f, NEW g, RightTo(f, n), RightTo(g, n)
    PROVE  \A s \in Octets : Len(s) < n => f[s] = g[s]
<1> DEFINE Same(k) == \A s \in Octets : Len(s) < k => f[s] = g[s]
           G == {k \in Nat : k <= n => Same(k)}
<1>1. 0 \in G
  <2>1. \A s \in Octets : Len(s) \in Nat
    BY LenProperties DEF Octets
  <2> QED
    BY <2>1
<1>2. ASSUME NEW k \in Nat, k \in G PROVE k + 1 \in G
  <2> SUFFICES ASSUME k + 1 <= n, NEW s \in Octets, Len(s) < k + 1 PROVE f[s] = g[s]
    OBVIOUS
  <2>1. Len(s) \in Nat /\ \A t \in Octets : Len(t) \in Nat
    BY LenProperties DEF Octets
  <2>2. \A t \in Octets : Len(t) < k => f[t] = g[t]
    BY <1>2
  <2>3. \A t \in Octets : Len(t) < Len(s) => f[t] = g[t]
    BY <2>1, <2>2
  <2>4. ElementsOf(f, s) = ElementsOf(g, s)
    BY <2>3, ElementsOfShorter
  <2>5. Len(s) < n
    BY <2>1
  <2> QED
    BY <2>4, <2>5 DEF RightTo
<1>3. n \in G
  <2> HIDE DEF G
  <2> QED
    BY <1>1, <1>2, Induction
<1> QED
  BY <1>3

\* For inputs up to any length there is a function that is right.
LEMMA RightExists ==
    ASSUME NEW n \in Nat
    PROVE  \E f \in [Octets -> Seq(ElementOrBroken)] : RightTo(f, n)
<1> DEFINE X == [Octets -> Seq(ElementOrBroken)]
           G == {k \in Nat : \E f \in X : RightTo(f, k)}
<1>1. 0 \in G
  <2>1. [s \in Octets |-> <<>>] \in X
    OBVIOUS
  <2>2. \A f : RightTo(f, 0)
    <3>1. \A s \in Octets : Len(s) \in Nat
      BY LenProperties DEF Octets
    <3> QED
      BY <3>1 DEF RightTo
  <2> HIDE DEF X
  <2> QED
    BY <2>1, <2>2
<1>2. ASSUME NEW k \in Nat, k \in G PROVE k + 1 \in G
  <2>1. PICK f \in X : RightTo(f, k)
    BY <1>2
  <2> DEFINE g == [s \in Octets |-> ElementsOf(f, s)]
  <2>2. g \in X
    BY ElementsOfType
  <2>3. \A s \in Octets : g[s] = ElementsOf(f, s)
    OBVIOUS
  <2> HIDE DEF g
  <2>4. ASSUME NEW s \in Octets, Len(s) < k + 1 PROVE g[s] = ElementsOf(g, s)
    <3>1. Len(s) \in Nat /\ \A t \in Octets : Len(t) \in Nat
      BY LenProperties DEF Octets
    <3>2. ASSUME NEW t \in Octets, Len(t) < Len(s) PROVE f[t] = g[t]
      <4>1. Len(t) < k
        BY <2>4, <3>1, <3>2
      <4> QED
        BY <2>1, <2>3, <4>1 DEF RightTo
    <3>3. ElementsOf(f, s) = ElementsOf(g, s)
      BY <3>2, ElementsOfShorter
    <3> QED
      BY <2>3, <3>3
  <2>5. RightTo(g, k + 1)
    BY <2>4 DEF RightTo
  <2> HIDE DEF X
  <2> QED
    BY <2>2, <2>5
<1>3. n \in G
  <2> HIDE DEF G
  <2> QED
    BY <1>1, <1>2, Induction
<1> QED
  BY <1>3

\* elements is what its definition says: there is one function like that.
LEMMA ElementsAre ==
    /\ \A s \in Octets : elements[s] = ElementsOf(elements, s)
    /\ \A s \in Octets : elements[s] \in Seq(ElementOrBroken)
<1> DEFINE X == [Octets -> Seq(ElementOrBroken)]
           Body(f) == [s \in Octets |-> ElementsOf(f, s)]
           at[n \in Nat] == CHOOSE f \in X : RightTo(f, n)
           L == [s \in Octets |-> at[Len(s) + 1][s]]
           F == CHOOSE f : f = Body(f)
<1>1. \A s \in Octets : Len(s) \in Nat
  BY LenProperties DEF Octets
<1>2. \A n \in Nat : at[n] \in X /\ RightTo(at[n], n)
  <2> TAKE n \in Nat
  <2>1. at[n] = CHOOSE f \in X : RightTo(f, n)
    OBVIOUS
  <2> QED
    BY <2>1, RightExists
<1> HIDE DEF at
<1>3. L \in X
  <2>1. ASSUME NEW s \in Octets PROVE at[Len(s) + 1][s] \in Seq(ElementOrBroken)
    <3>1. at[Len(s) + 1] \in X
      BY <1>1, <1>2
    <3> QED
      BY <3>1
  <2> QED
    BY <2>1
<1>4. \A s \in Octets : L[s] = at[Len(s) + 1][s]
  OBVIOUS
<1> HIDE DEF L
<1>5. ASSUME NEW s \in Octets PROVE L[s] = ElementsOf(L, s)
  <2> DEFINE n == Len(s) + 1
             f == at[n]
  <2>1. n \in Nat /\ Len(s) \in Nat /\ Len(s) < n
    BY <1>1
  <2>2. RightTo(f, n)
    BY <1>2, <2>1
  <2>3. ASSUME NEW t \in Octets, Len(t) < Len(s) PROVE f[t] = L[t]
    <3> DEFINE m == Len(t) + 1
    <3>1. m \in Nat /\ Len(t) \in Nat /\ Len(t) < m /\ m <= n
      BY <1>1, <2>1, <2>3
    <3>2. RightTo(at[m], m) /\ RightTo(f, m)
      <4>1. \A u \in Octets : Len(u) < m => Len(u) < n
        BY <1>1, <2>1, <3>1
      <4> QED
        BY <1>2, <2>2, <3>1, <4>1 DEF RightTo
    <3> HIDE DEF f, n, m
    <3>3. f[t] = at[m][t]
      BY <3>1, <3>2, RightAgree
    <3> QED
      BY <1>4, <3>3 DEF m
  <2>4. ElementsOf(f, s) = ElementsOf(L, s)
    BY <2>3, ElementsOfShorter
  <2>5. f[s] = ElementsOf(f, s)
    BY <2>1, <2>2 DEF RightTo
  <2> QED
    BY <1>4, <2>4, <2>5
<1>6. L = Body(L)
  BY <1>3, <1>5
<1>7. F = Body(F)
  <2> HIDE DEF Body
  <2> QED
    BY <1>6
<1>8. elements = F
  BY DEF elements, ElementsOf
<1> HIDE DEF F
<1>9. \A s \in Octets : F[s] = ElementsOf(F, s)
  BY <1>7
<1>10. ASSUME NEW s \in Octets PROVE F[s] \in Seq(ElementOrBroken)
  <2> DEFINE n == Len(s) + 1
  <2>1. n \in Nat /\ Len(s) < n
    BY <1>1
  <2>2. RightTo(F, n) /\ RightTo(L, n)
    BY <1>5, <1>9 DEF RightTo
  <2> HIDE DEF n
  <2>3. F[s] = L[s]
    BY <2>1, <2>2, RightAgree
  <2> QED
    BY <1>3, <2>3
<1> QED
  BY <1>8, <1>9, <1>10

LEMMA ElementsEmpty == elements[<<>>] = <<>>
<1>1. <<>> \in Octets
  BY DEF Octets
<1> QED
  BY <1>1, ElementsAre DEF ElementsOf

\* One more element at the front is one more read.
LEMMA ElementsStep ==
    ASSUME NEW tag \in Tags, NEW content \in Octets, Len(content) < LengthLimit, NEW rest \in Octets,
           NEW first, Single(first, Found(tag, content, rest))
    PROVE  elements[Encoded(tag, content) \o rest] = first \o elements[rest]
<1> DEFINE e == Encoded(tag, content)
           s == e \o rest
<1>1. tag \in 0..255
  BY DEF Tags
<1>2. e \in Octets /\ Len(e) \in Nat /\ Len(e) # 0
  <2>1. e \in Octets /\ Len(content) < Len(e)
    BY <1>1, EncodedType
  <2> HIDE DEF e
  <2> QED
    BY <2>1, LenProperties DEF Octets
<1>3. element[s] = Found(tag, content, rest)
  BY EncodedReads
<1> HIDE DEF e
<1>4. s \in Octets /\ s # <<>>
  <2>1. s \in Octets /\ Cat(e, rest)
    BY <1>2, OctetsCat
  <2>2. Len(s) = Len(e) + Len(rest) /\ Len(rest) \in Nat
    BY <2>1, LenProperties DEF Cat, Octets
  <2>3. Len(s) # 0
    BY <1>2, <2>2
  <2> QED
    BY <2>1, <2>3
<1>5. Found(tag, content, rest).ok /\ Found(tag, content, rest).rest = rest
  BY DEF Found
<1>6. elements[s] = ElementsOf(elements, s)
  BY <1>4, ElementsAre
<1> HIDE DEF s
<1>7. elements[s] = first \o elements[rest]
  BY <1>3, <1>4, <1>5, <1>6 DEF ElementsOf, Single
<1> QED
  BY <1>7 DEF s, e

-----------------------------------------------------------------------------
(* Parts: what is encoded one after the other, and read back in order.      *)

Part == [tag : Tags, content : Octets]

Codes(parts) == [i \in DOMAIN parts |-> Encoded(parts[i].tag, parts[i].content)]

LEMMA CodeOf == ASSUME NEW p \in Part PROVE Encoded(p.tag, p.content) \in Octets
<1>1. p.tag \in 0..255 /\ p.content \in Octets
  BY DEF Part, Tags
<1> QED
  BY <1>1, EncodedType

LEMMA CodesType ==
    ASSUME NEW v \in Seq(Part)
    PROVE  /\ Codes(v) \in Seq(Octets) /\ Len(Codes(v)) = Len(v)
           /\ \A i \in 1..Len(v) : Codes(v)[i] = Encoded(v[i].tag, v[i].content)
<1>1. Len(v) \in Nat /\ DOMAIN v = 1..Len(v) /\ \A i \in 1..Len(v) : v[i] \in Part
  BY LenProperties, ElementOfSeq
<1>2. \A i \in 1..Len(v) : Encoded(v[i].tag, v[i].content) \in Octets
  BY <1>1, CodeOf
<1>3. Codes(v) \in [1..Len(v) -> Octets]
  BY <1>1, <1>2 DEF Codes
<1>4. Codes(v) \in Seq(Octets) /\ Len(Codes(v)) = Len(v)
  BY <1>1, <1>3, FunctionIsSeq
<1> QED
  BY <1>1, <1>4 DEF Codes

LEMMA CodesEmpty == Codes(<<>>) = <<>>
<1> DEFINE c == Codes(<<>>)
<1>1. <<>> \in Seq(Part) /\ Len(<<>>) = 0
  OBVIOUS
<1>2. c \in Seq(Octets) /\ Len(c) = 0
  BY <1>1, CodesType
<1> HIDE DEF c
<1>3. c = <<>>
  BY <1>2, EmptySeq
<1> QED
  BY <1>3 DEF c

LEMMA CodesAppend ==
    ASSUME NEW v \in Seq(Part), NEW x \in Part
    PROVE  Codes(Append(v, x)) = Append(Codes(v), Encoded(x.tag, x.content))
<1> DEFINE a == Append(v, x)
           e == Encoded(x.tag, x.content)
           n == Len(v)
           c == Codes(a)
           b == Append(Codes(v), e)
<1>1. /\ n \in Nat /\ a \in Seq(Part) /\ Len(a) = n + 1 /\ a[n + 1] = x
      /\ \A i \in 1..n : a[i] = v[i]
  BY LenProperties, AppendProperties
<1>2. e \in Octets
  BY CodeOf
<1>3. /\ c \in Seq(Octets) /\ Len(c) = n + 1
      /\ \A i \in 1..(n + 1) : c[i] = Encoded(a[i].tag, a[i].content)
  BY <1>1, CodesType
<1>4. /\ Codes(v) \in Seq(Octets) /\ Len(Codes(v)) = n
      /\ \A i \in 1..n : Codes(v)[i] = Encoded(v[i].tag, v[i].content)
  BY CodesType
<1> HIDE DEF e
<1>5. /\ b \in Seq(Octets) /\ Len(b) = n + 1 /\ b[n + 1] = e
      /\ \A i \in 1..n : b[i] = Codes(v)[i]
  BY <1>2, <1>4, AppendProperties
<1> HIDE DEF a, b, c, n
<1>6. ASSUME NEW i \in 1..(n + 1) PROVE c[i] = b[i]
  <2>1. CASE i = n + 1
    BY <1>1, <1>3, <1>5, <2>1 DEF e
  <2>2. CASE i # n + 1
    <3>1. i \in 1..n
      BY <1>1, <2>2
    <3> QED
      BY <1>1, <1>3, <1>4, <1>5, <3>1
  <2> QED
    BY <2>1, <2>2
<1>7. c = b
  BY <1>3, <1>5, <1>6, SeqEqual
<1> QED
  BY <1>7 DEF a, b, c, e

\* One of several sequences is no longer than all of them.
LEMMA FlattenLength ==
    ASSUME NEW S, NEW s \in Seq(Seq(S))
    PROVE  /\ FlattenSeq(s) \in Seq(S)
           /\ \A i \in 1..Len(s) : Len(s[i]) <= Len(FlattenSeq(s))
<1> DEFINE T == Seq(S)
           Longest(v) == /\ FlattenSeq(v) \in T
                         /\ \A i \in 1..Len(v) : Len(v[i]) <= Len(FlattenSeq(v))
           G == {v \in Seq(T) : Longest(v)}
<1>1. <<>> \in G
  <2>1. <<>> \in T /\ <<>> \in Seq(T) /\ Len(<<>>) = 0
    OBVIOUS
  <2> HIDE DEF T
  <2>2. Longest(<<>>)
    BY <2>1, FlattenEmpty
  <2> QED
    BY <2>1, <2>2
<1>2. ASSUME NEW v \in Seq(T), NEW x \in T, v \in G PROVE Append(v, x) \in G
  <2> DEFINE a == Append(v, x)
             f == FlattenSeq(v)
             n == Len(v)
  <2>1. f \in T /\ FlattenSeq(a) = f \o x
    BY FlattenAppend
  <2>2. /\ n \in Nat /\ a \in Seq(T) /\ Len(a) = n + 1 /\ a[n + 1] = x
        /\ \A i \in 1..n : a[i] = v[i] /\ v[i] \in T
    BY LenProperties, AppendProperties, ElementOfSeq
  <2>3. \A i \in 1..n : Len(v[i]) <= Len(f)
    BY <1>2
  <2>4. Len(f) \in Nat /\ Len(x) \in Nat /\ f \o x \in T /\ Len(f \o x) = Len(f) + Len(x)
    <3>1. f \o x \in T /\ Cat(f, x)
      BY <2>1, CatHolds
    <3> QED
      BY <2>1, <3>1, LenProperties DEF Cat
  <2>5. \A i \in 1..n : Len(v[i]) \in Nat
    BY <2>2, LenProperties
  <2> HIDE DEF a, f, n, T
  <2>6. ASSUME NEW i \in 1..(n + 1) PROVE Len(a[i]) <= Len(f \o x)
    <3>1. CASE i = n + 1
      BY <2>2, <2>4, <3>1
    <3>2. CASE i # n + 1
      <4>1. i \in 1..n
        BY <2>2, <3>2
      <4>2. Len(a[i]) <= Len(f) /\ Len(a[i]) \in Nat
        BY <2>2, <2>3, <2>5, <4>1
      <4> QED
        BY <2>4, <4>2
    <3> QED
      BY <3>1, <3>2
  <2>7. Longest(a)
    BY <2>1, <2>2, <2>4, <2>6
  <2> QED
    BY <2>2, <2>7 DEF a
<1>3. \A v \in Seq(T) : v \in G
  <2> HIDE DEF G, T
  <2> QED
    BY <1>1, <1>2, Growing
<1> QED
  BY <1>3

\* found are the elements that parts were encoded as.
Spread(found, parts) ==
    /\ DOMAIN found = 1..Len(parts)
    /\ \A i \in 1..Len(parts) :
           /\ found[i].ok = TRUE
           /\ found[i].tag = parts[i].tag
           /\ found[i].content = parts[i].content

LEMMA SpreadAppend ==
    ASSUME NEW S, NEW found \in Seq(S), NEW parts \in Seq(Part), Spread(found, parts),
           NEW x \in Part, NEW e \in S, e.ok = TRUE, e.tag = x.tag, e.content = x.content
    PROVE  Spread(Append(found, e), Append(parts, x))
<1> DEFINE n == Len(parts)
           f == Append(found, e)
           a == Append(parts, x)
<1>1. n \in Nat /\ Len(found) = n
  BY LenProperties DEF Spread
<1>2. /\ DOMAIN f = 1..(n + 1) /\ f[n + 1] = e /\ \A i \in 1..n : f[i] = found[i]
      /\ Len(a) = n + 1 /\ a[n + 1] = x /\ \A i \in 1..n : a[i] = parts[i]
  BY <1>1, AppendProperties, LenProperties
<1> HIDE DEF f, a, n
<1>3. ASSUME NEW i \in 1..(n + 1)
      PROVE  f[i].ok = TRUE /\ f[i].tag = a[i].tag /\ f[i].content = a[i].content
  <2>1. CASE i = n + 1
    BY <1>2, <2>1
  <2>2. CASE i # n + 1
    <3>1. i \in 1..n
      BY <1>1, <2>2
    <3> QED
      BY <1>2, <3>1 DEF Spread, n
  <2> QED
    BY <2>1, <2>2
<1> QED
  BY <1>2, <1>3 DEF Spread, f, a, n

\* The elements of what was encoded, in front of t, are those and the elements of t.
SpreadsBefore(parts, found, t) ==
    Spread(found, parts)
    /\ elements[FlattenSeq(Codes(parts)) \o t] = found \o elements[t]

LEMMA SpreadBefore ==
    ASSUME NEW parts \in Seq({p \in Part : Len(p.content) < LengthLimit})
    PROVE  \A t \in Octets : \E found \in Seq(ElementOrBroken) : SpreadsBefore(parts, found, t)
<1> DEFINE P == {p \in Part : Len(p.content) < LengthLimit}
           T == ElementOrBroken
           G == {v \in Seq(P) : \A t \in Octets : \E found \in Seq(T) : SpreadsBefore(v, found, t)}
<1>1. <<>> \in G
  <2> SUFFICES ASSUME NEW t \in Octets PROVE \E found \in Seq(T) : SpreadsBefore(<<>>, found, t)
    OBVIOUS
  <2> DEFINE o == <<>>
  <2>1. o \in Seq(T) /\ Len(o) = 0 /\ DOMAIN o = 1..0 /\ elements[t] \in Seq(T)
    BY ElementsAre
  <2>2. FlattenSeq(Codes(o)) = o
    BY CodesEmpty, FlattenEmpty
  <2> HIDE DEF o, T
  <2>3. o \o t = t /\ o \o elements[t] = elements[t]
    BY <2>1, ConcatEmptySeq DEF Octets, o
  <2>4. SpreadsBefore(o, o, t)
    BY <2>1, <2>2, <2>3 DEF SpreadsBefore, Spread
  <2> QED
    BY <2>1, <2>4 DEF o
<1>2. ASSUME NEW v \in Seq(P), NEW x \in P, v \in G PROVE Append(v, x) \in G
  <2> SUFFICES ASSUME NEW t \in Octets
               PROVE  \E found \in Seq(T) : SpreadsBefore(Append(v, x), found, t)
    BY AppendProperties
  <2> DEFINE c == Encoded(x.tag, x.content)
             f == FlattenSeq(Codes(v))
             e == Found(x.tag, x.content, t)
             one == <<e>>
             u == c \o t
  <2>1. x \in Part /\ v \in Seq(Part) /\ Len(x.content) < LengthLimit
    <3>1. P \subseteq Part
      OBVIOUS
    <3> HIDE DEF P
    <3>2. \A s \in Seq(P) : s \in Seq(Part)
      BY <3>1
    <3> QED
      BY <3>1, <3>2 DEF P
  <2>2. x.tag \in Tags /\ x.content \in Octets /\ c \in Octets
    BY <2>1, CodeOf DEF Part
  <2>3. f \in Octets /\ Codes(v) \in Seq(Octets)
    BY <2>1, CodesType, FlattenLength DEF Octets
  <2>4. FlattenSeq(Codes(Append(v, x))) = f \o c
    <3>1. Codes(Append(v, x)) = Append(Codes(v), c)
      BY <2>1, CodesAppend
    <3> HIDE DEF c
    <3>2. FlattenSeq(Append(Codes(v), c)) = f \o c
      BY <2>2, <2>3, FlattenAppend DEF Octets
    <3> QED
      BY <3>1, <3>2
  <2>5. u \in Octets
    BY <2>2, OctetsCat
  <2>6. PICK found \in Seq(T) : SpreadsBefore(v, found, u)
    BY <1>2, <2>5
  <2>7. elements[u] = one \o elements[t]
    <3>1. Single(one, Found(x.tag, x.content, t))
      BY DEF Single
    <3> HIDE DEF one
    <3> QED
      BY <2>1, <2>2, <3>1, ElementsStep
  <2>8. e \in T /\ e.ok = TRUE /\ e.tag = x.tag /\ e.content = x.content
    <3>1. x.tag \in 0..255
      BY <2>2 DEF Tags
    <3> QED
      BY <2>2, <3>1 DEF Found, ElementOrBroken, Element
  <2>9. (f \o c) \o t = f \o u
    <3>1. Assoc(f, c, t)
      BY <2>2, <2>3, OctetsAssociative
    <3> QED
      BY <3>1 DEF Assoc
  <2>10. elements[t] \in Seq(T)
    BY ElementsAre
  <2> HIDE DEF c, f, e, u, T, P
  <2>11. one \in Seq(T)
    BY <2>8
  <2>12. found \o (one \o elements[t]) = Append(found, e) \o elements[t]
    <3>1. Assoc(found, one, elements[t])
      BY <2>6, <2>10, <2>11, Associative
    <3>2. found \o one = Append(found, e)
      BY <2>6, <2>8, AppendIsConcat
    <3> QED
      BY <3>1, <3>2 DEF Assoc
  <2>13. Spread(Append(found, e), Append(v, x))
    BY <2>1, <2>6, <2>8, SpreadAppend DEF SpreadsBefore
  <2>14. elements[f \o u] = found \o elements[u]
    BY <2>6 DEF SpreadsBefore, f
  <2> HIDE DEF one
  <2>15. SpreadsBefore(Append(v, x), Append(found, e), t)
    BY <2>4, <2>7, <2>9, <2>12, <2>13, <2>14 DEF SpreadsBefore
  <2>16. Append(found, e) \in Seq(T)
    BY <2>6, <2>8, AppendProperties
  <2> QED
    BY <2>15, <2>16
<1>3. \A v \in Seq(P) : v \in G
  <2> HIDE DEF G, P
  <2> QED
    BY <1>1, <1>2, Growing
<1> QED
  BY <1>3

\* What was encoded one after the other is read one after the other.
LEMMA PartsAreRead ==
    ASSUME NEW parts \in Seq(Part), Len(FlattenSeq(Codes(parts))) < LengthLimit
    PROVE  FlattenSeq(Codes(parts)) \in Octets /\ Spread(elements[FlattenSeq(Codes(parts))], parts)
<1> DEFINE P == {p \in Part : Len(p.content) < LengthLimit}
           c == Codes(parts)
           f == FlattenSeq(c)
<1>1. /\ c \in Seq(Octets) /\ Len(c) = Len(parts)
      /\ \A i \in 1..Len(parts) : c[i] = Encoded(parts[i].tag, parts[i].content)
  BY CodesType
<1>2. \A i \in 1..Len(parts) : parts[i] \in Part
  BY ElementOfSeq
<1> HIDE DEF c
<1>3. f \in Octets /\ \A i \in 1..Len(c) : Len(c[i]) <= Len(f)
  BY <1>1, FlattenLength DEF Octets
<1>4. Len(f) < LengthLimit /\ LengthLimit \in Nat
  BY DEF c, LengthLimit
<1> HIDE DEF f
<1>5. ASSUME NEW i \in 1..Len(parts) PROVE parts[i] \in P
  <2> DEFINE p == parts[i]
  <2>1. p \in Part /\ c[i] = Encoded(p.tag, p.content) /\ Len(c[i]) <= Len(f)
    BY <1>1, <1>2, <1>3
  <2>2. p.tag \in 0..255 /\ p.content \in Octets
    BY <2>1 DEF Part, Tags
  <2>3. c[i] \in Octets /\ Len(p.content) < Len(c[i])
    BY <2>1, <2>2, EncodedType
  <2>4. Len(p.content) \in Nat /\ Len(c[i]) \in Nat /\ Len(f) \in Nat
    BY <1>3, <2>2, <2>3, LenProperties DEF Octets
  <2>5. Len(p.content) < LengthLimit
    BY <1>4, <2>1, <2>3, <2>4
  <2> QED
    BY <2>1, <2>5
<1>6. parts \in Seq(P)
  <2>1. parts \in [1..Len(parts) -> P] /\ Len(parts) \in Nat
    BY <1>5, LenProperties
  <2> HIDE DEF P
  <2> QED
    BY <2>1, FunctionIsSeq
<1>7. PICK found \in Seq(ElementOrBroken) : SpreadsBefore(parts, found, <<>>)
  <2>1. <<>> \in Octets
    BY DEF Octets
  <2> QED
    BY <1>6, <2>1, SpreadBefore
<1>8. f \o <<>> = f /\ found \o <<>> = found
  BY <1>3, <1>7, ConcatEmptySeq DEF Octets
<1>9. elements[f] = found
  BY <1>7, <1>8, ElementsEmpty DEF SpreadsBefore, f, c
<1> QED
  BY <1>3, <1>7, <1>9 DEF SpreadsBefore, f, c

\* Parts of what is short are short.
Short(s) == s \in Octets /\ Len(s) < LengthLimit

LEMMA LimitType == LengthLimit \in Nat
BY DEF LengthLimit

LEMMA ShortEncoded ==
    ASSUME NEW tag \in 0..255, NEW content \in Octets, Short(Encoded(tag, content))
    PROVE  Short(content)
<1> DEFINE e == Encoded(tag, content)
<1>1. e \in Octets /\ Len(content) < Len(e) /\ Len(e) < LengthLimit
  BY EncodedType DEF Short
<1> HIDE DEF e
<1>2. Len(content) \in Nat /\ Len(e) \in Nat
  BY <1>1, LenProperties DEF Octets
<1> QED
  BY <1>1, <1>2, LimitType DEF Short

LEMMA ShortCat ==
    ASSUME NEW a \in Octets, NEW b \in Octets, Short(a \o b)
    PROVE  Short(a) /\ Short(b)
<1>1. Cat(a, b) /\ Len(a) \in Nat /\ Len(b) \in Nat
  BY CatHolds, LenProperties DEF Octets
<1>2. Len(a) + Len(b) < LengthLimit
  BY <1>1 DEF Cat, Short
<1> QED
  BY <1>1, <1>2, LimitType DEF Short

LEMMA ShortCodes ==
    ASSUME NEW parts \in Seq(Part), Short(FlattenSeq(Codes(parts))), NEW i \in 1..Len(parts)
    PROVE  Short(parts[i].content)
<1> DEFINE c == Codes(parts)
           f == FlattenSeq(c)
           p == parts[i]
<1>1. c \in Seq(Octets) /\ Len(c) = Len(parts) /\ c[i] = Encoded(p.tag, p.content)
  BY CodesType
<1>2. p \in Part
  BY ElementOfSeq
<1>3. p.tag \in 0..255 /\ p.content \in Octets
  BY <1>2 DEF Part, Tags
<1> HIDE DEF c
<1>4. f \in Octets /\ Len(c[i]) <= Len(f)
  BY <1>1, FlattenLength DEF Octets
<1>5. Len(f) < LengthLimit
  BY DEF Short, c
<1> HIDE DEF f, p
<1>6. c[i] \in Octets
  BY <1>1, <1>3, EncodedType
<1>7. Len(c[i]) \in Nat /\ Len(f) \in Nat
  BY <1>4, <1>6, LenProperties DEF Octets
<1>8. Short(c[i])
  BY <1>4, <1>5, <1>6, <1>7, LimitType DEF Short
<1>9. Short(p.content)
  BY <1>1, <1>3, <1>8, ShortEncoded
<1> QED
  BY <1>9 DEF p

\* expect finds what was encoded with the tag it expects.
LEMMA ExpectReads ==
    ASSUME NEW tag \in Tags, NEW content, Short(content), NEW rest \in Octets
    PROVE  expect(Encoded(tag, content) \o rest, tag) = Found(tag, content, rest)
<1>1. content \in Octets /\ Len(content) < LengthLimit
  BY DEF Short
<1>2. element[Encoded(tag, content) \o rest] = Found(tag, content, rest)
  BY <1>1, EncodedReads
<1>3. Found(tag, content, rest).ok /\ Found(tag, content, rest).tag = tag
  BY DEF Found
<1> QED
  BY <1>2, <1>3 DEF expect, Tagged

LEMMA ElementWhole ==
    ASSUME NEW tag \in Tags, NEW content, Short(content)
    PROVE  /\ element[Encoded(tag, content)] = Found(tag, content, <<>>)
           /\ expect(Encoded(tag, content), tag) = Found(tag, content, <<>>)
<1> DEFINE e == Encoded(tag, content)
           o == <<>>
<1>1. e \in Octets
  BY EncodedType DEF Short, Tags
<1>2. o \in Octets /\ o = <<>>
  BY DEF Octets
<1>3. content \in Octets /\ Len(content) < LengthLimit
  BY DEF Short
<1> HIDE DEF o
<1>4. element[e \o o] = Found(tag, content, o) /\ expect(e \o o, tag) = Found(tag, content, o)
  BY <1>2, <1>3, EncodedReads, ExpectReads
<1> HIDE DEF e
<1>5. e \o o = e
  BY <1>1, <1>2, ConcatEmptySeq DEF Octets
<1>6. element[e] = Found(tag, content, o) /\ expect(e, tag) = Found(tag, content, o)
  BY <1>4, <1>5
<1> QED
  BY <1>6 DEF e, o

\* Parts with one tag.
Parts(tag, contents) ==
    [i \in DOMAIN contents |-> [tag |-> tag, content |-> contents[i]]]

LEMMA PartsOf ==
    ASSUME NEW tag \in Tags, NEW contents \in Seq(Octets)
    PROVE  /\ Parts(tag, contents) \in Seq(Part)
           /\ Len(Parts(tag, contents)) = Len(contents)
           /\ \A i \in 1..Len(contents) : /\ Parts(tag, contents)[i].tag = tag
                                          /\ Parts(tag, contents)[i].content = contents[i]
           /\ Codes(Parts(tag, contents)) = [i \in DOMAIN contents |-> Encoded(tag, contents[i])]
<1> DEFINE n == Len(contents)
           p == Parts(tag, contents)
<1>1. n \in Nat /\ DOMAIN contents = 1..n /\ \A i \in 1..n : contents[i] \in Octets
  BY LenProperties, ElementOfSeq
<1>2. p \in [1..n -> Part]
  BY <1>1 DEF Parts, Part
<1>3. \A i \in 1..n : p[i].tag = tag /\ p[i].content = contents[i]
  BY <1>1 DEF Parts
<1>4. DOMAIN p = 1..n
  BY <1>1 DEF Parts
<1>5. Codes(p) = [i \in 1..n |-> Encoded(tag, contents[i])]
  <2> HIDE DEF p
  <2> QED
    BY <1>3, <1>4 DEF Codes
<1> HIDE DEF p
<1>6. p \in Seq(Part) /\ Len(p) = n
  BY <1>1, <1>2, FunctionIsSeq
<1> QED
  BY <1>1, <1>3, <1>5, <1>6 DEF p

\* What Each makes of contents with one tag.
Encodes(input, tag, contents) ==
    input = FlattenSeq(Codes(Parts(tag, contents))) /\ Short(input)

ReadsAs(read, contents, items) ==
    /\ Len(items) = Len(contents)
    /\ \A i \in 1..Len(contents) : read[contents[i]] = items[i] /\ items[i].ok

\* Each reads contents encoded with one tag, each as its reader does.
LEMMA EachReads ==
    ASSUME NEW tag \in Tags, NEW contents \in Seq(Octets), NEW input,
           Encodes(input, tag, contents),
           NEW read, NEW S, NEW items \in Seq(S), ReadsAs(read, contents, items)
    PROVE  Each(input, tag, read) = [ok |-> TRUE, items |-> items]
<1> DEFINE p == Parts(tag, contents)
           n == Len(contents)
           found == elements[input]
           r == [i \in DOMAIN found |-> read[found[i].content]]
<1>1. /\ p \in Seq(Part) /\ Len(p) = n /\ n \in Nat
      /\ \A i \in 1..n : p[i].tag = tag /\ p[i].content = contents[i]
  BY PartsOf, LenProperties
<1>2. input = FlattenSeq(Codes(p)) /\ Len(input) < LengthLimit
  BY DEF Short, Encodes
<1> HIDE DEF p
<1>3. Spread(found, p)
  BY <1>1, <1>2, PartsAreRead
<1> HIDE DEF found
<1>4. /\ DOMAIN found = 1..n
      /\ \A i \in 1..n : found[i].ok = TRUE /\ found[i].tag = tag /\ found[i].content = contents[i]
  BY <1>1, <1>3 DEF Spread
<1>5. AllRead(found) /\ \A i \in DOMAIN found : found[i].tag = tag
  BY <1>4 DEF AllRead
<1>6. r = items
  <2>1. DOMAIN items = 1..n /\ items = [i \in 1..n |-> items[i]]
    BY LenProperties DEF ReadsAs
  <2>2. r = [i \in 1..n |-> items[i]]
    BY <1>4 DEF ReadsAs
  <2> QED
    BY <2>1, <2>2
<1>7. AllRead(items)
  BY LenProperties DEF AllRead, ReadsAs
<1>8. Each(input, tag, read) = Items(r)
  BY <1>5 DEF Each, found
<1> QED
  BY <1>6, <1>7, <1>8 DEF Items

-----------------------------------------------------------------------------
(* Names of an issuer or a subject.                                         *)

Attr == [type : Octets, tag : Tags, value : Octets]

AttributeContent(a) == Encoded(OBJECT_IDENTIFIER, a.type) \o Encoded(a.tag, a.value)

AttributeContents(attrs) == [j \in DOMAIN attrs |-> AttributeContent(attrs[j])]

AttributesContent(attrs) == FlattenSeq(Codes(Parts(SEQUENCE, AttributeContents(attrs))))

RdnContents(rdns) == [i \in DOMAIN rdns |-> AttributesContent(rdns[i])]

NameContent(rdns) == FlattenSeq(Codes(Parts(SET, RdnContents(rdns))))

AttributeRead(a) == [ok |-> TRUE, type |-> a.type, tag |-> a.tag, value |-> a.value]

AttributesRead(attrs) == [j \in DOMAIN attrs |-> AttributeRead(attrs[j])]

LEMMA TagsHave ==
    /\ {BOOLEAN_TAG, INTEGER, OCTET_STRING, OBJECT_IDENTIFIER, SEQUENCE, SET, VERSION, EXTENSIONS,
        129} \subseteq Tags
    /\ Tags \subseteq 0..255
BY DEF BOOLEAN_TAG, INTEGER, OCTET_STRING, OBJECT_IDENTIFIER, SEQUENCE, SET, VERSION, EXTENSIONS,
       Tags

LEMMA AttributeContentType ==
    ASSUME NEW a \in Attr
    PROVE  /\ AttributeContent(a) \in Octets
           /\ Encoded(OBJECT_IDENTIFIER, a.type) \in Octets
           /\ Encoded(a.tag, a.value) \in Octets
<1> DEFINE t == Encoded(OBJECT_IDENTIFIER, a.type)
           v == Encoded(a.tag, a.value)
<1>1. OBJECT_IDENTIFIER \in 0..255 /\ a.tag \in 0..255 /\ a.type \in Octets /\ a.value \in Octets
  BY TagsHave DEF Attr
<1>2. t \in Octets /\ v \in Octets
  BY <1>1, EncodedType
<1> HIDE DEF t, v
<1>3. t \o v \in Octets
  BY <1>2, OctetsCat
<1> QED
  BY <1>2, <1>3 DEF AttributeContent, t, v

\* An attribute is read back,
LEMMA AttributeReads ==
    ASSUME NEW a \in Attr, Short(AttributeContent(a))
    PROVE  Attribute[AttributeContent(a)] = AttributeRead(a)
<1> DEFINE t == Encoded(OBJECT_IDENTIFIER, a.type)
           v == Encoded(a.tag, a.value)
           s == t \o v
<1>1. OBJECT_IDENTIFIER \in Tags /\ OBJECT_IDENTIFIER \in 0..255 /\ a.tag \in Tags
      /\ a.tag \in 0..255 /\ a.type \in Octets /\ a.value \in Octets
  BY TagsHave DEF Attr
<1>2. t \in Octets /\ v \in Octets /\ s \in Octets
  BY AttributeContentType DEF AttributeContent
<1>3. Short(t) /\ Short(v)
  BY <1>2, ShortCat DEF AttributeContent
<1>4. Short(a.type) /\ Short(a.value)
  BY <1>1, <1>3, ShortEncoded
<1>5. expect(s, OBJECT_IDENTIFIER) = Found(OBJECT_IDENTIFIER, a.type, v)
  BY <1>1, <1>2, <1>4, ExpectReads
<1>6. element[v] = Found(a.tag, a.value, <<>>)
  BY <1>1, <1>4, ElementWhole
<1>7. AttributeContent(a) = s
  BY DEF AttributeContent
<1> HIDE DEF t, v, s
<1>8. Attribute[s] = AttributeRead(a)
  <2> DEFINE e == expect(s, OBJECT_IDENTIFIER)
             w == element[e.rest]
  <2>1. e.ok /\ e.content = a.type /\ e.rest = v
    BY <1>5 DEF Found
  <2>2. w.ok /\ w.tag = a.tag /\ w.content = a.value
    BY <1>6, <2>1 DEF Found
  <2>3. Attribute[s] = IF e.ok /\ w.ok
                       THEN [ok |-> TRUE, type |-> e.content, tag |-> w.tag, value |-> w.content]
                       ELSE Broken
    BY <1>2 DEF Attribute
  <2> HIDE DEF e, w
  <2> QED
    BY <2>1, <2>2, <2>3 DEF AttributeRead
<1> QED
  BY <1>7, <1>8

\* the attributes of one part of a name,
LEMMA AttributesAreRead ==
    ASSUME NEW attrs \in Seq(Attr)
    PROVE  /\ AttributesContent(attrs) \in Octets
           /\ AttributesRead(attrs) \in Seq([ok : {TRUE}, type : Octets, tag : Tags, value : Octets])
           /\ Len(AttributesRead(attrs)) = Len(attrs)
           /\ Short(AttributesContent(attrs)) =>
                  Attributes[AttributesContent(attrs)] = [ok |-> TRUE, items |-> AttributesRead(attrs)]
<1> DEFINE n == Len(attrs)
           c == AttributeContents(attrs)
           p == Parts(SEQUENCE, c)
           s == FlattenSeq(Codes(p))
           R == [ok : {TRUE}, type : Octets, tag : Tags, value : Octets]
           r == AttributesRead(attrs)
<1>1. n \in Nat /\ DOMAIN attrs = 1..n /\ \A j \in 1..n : attrs[j] \in Attr
  BY LenProperties, ElementOfSeq
<1>2. c \in Seq(Octets) /\ Len(c) = n /\ \A j \in 1..n : c[j] = AttributeContent(attrs[j])
  <2>1. c \in [1..n -> Octets] /\ \A j \in 1..n : c[j] = AttributeContent(attrs[j])
    BY <1>1, AttributeContentType DEF AttributeContents
  <2> HIDE DEF c
  <2> QED
    BY <1>1, <2>1, FunctionIsSeq
<1>3. r \in Seq(R) /\ Len(r) = n /\ \A j \in 1..n : r[j] = AttributeRead(attrs[j])
  <2>1. \A j \in 1..n : AttributeRead(attrs[j]) \in R
    BY <1>1 DEF AttributeRead, Attr
  <2> HIDE DEF R
  <2>2. r \in [1..n -> R] /\ \A j \in 1..n : r[j] = AttributeRead(attrs[j])
    BY <1>1, <2>1 DEF AttributesRead
  <2> HIDE DEF r
  <2> QED
    BY <1>1, <2>2, FunctionIsSeq
<1> HIDE DEF c
<1>4. SEQUENCE \in Tags
  BY TagsHave
<1>5. p \in Seq(Part) /\ Len(p) = n /\ \A j \in 1..n : p[j].content = c[j]
  BY <1>2, <1>4, PartsOf
<1>6. s \in Octets
  <2>1. Codes(p) \in Seq(Octets)
    BY <1>5, CodesType
  <2> HIDE DEF p
  <2> QED
    BY <2>1, FlattenLength DEF Octets
<1>7. ASSUME Short(s) PROVE Attributes[s] = [ok |-> TRUE, items |-> r]
  <2>1. ASSUME NEW j \in 1..n PROVE Attribute[c[j]] = r[j] /\ r[j].ok
    <3>1. Short(c[j])
      <4>1. Short(p[j].content)
        BY <1>5, <1>7, ShortCodes
      <4> QED
        BY <1>5, <4>1
    <3>2. Attribute[AttributeContent(attrs[j])] = AttributeRead(attrs[j])
      BY <1>1, <1>2, <3>1, AttributeReads
    <3>3. AttributeRead(attrs[j]).ok
      BY DEF AttributeRead
    <3> QED
      BY <1>2, <1>3, <3>2, <3>3
  <2> HIDE DEF r, n, R
  <2>2. ReadsAs(Attribute, c, r)
    BY <1>2, <1>3, <2>1 DEF ReadsAs
  <2>3. Encodes(s, SEQUENCE, c)
    BY <1>7 DEF Encodes
  <2>4. Each(s, SEQUENCE, Attribute) = [ok |-> TRUE, items |-> r]
    BY <1>2, <1>3, <1>4, <2>2, <2>3, EachReads
  <2> HIDE DEF s
  <2> QED
    BY <1>6, <2>4 DEF Attributes
<1>8. AttributesContent(attrs) = s
  BY DEF AttributesContent, c
<1> HIDE DEF s, p, r
<1> QED
  BY <1>3, <1>6, <1>7, <1>8 DEF r

\* A name is told by the types, tags and values of its attributes.
SameAttributes(a, b) ==
    /\ Len(a) = Len(b)
    /\ \A j \in 1..Len(a) : /\ a[j].type = b[j].type
                            /\ a[j].tag = b[j].tag
                            /\ a[j].value = b[j].value

SameName(a, b) == Len(a) = Len(b) /\ \A i \in 1..Len(a) : SameAttributes(a[i], b[i])

LEMMA NameTextAlike ==
    ASSUME NEW S, NEW T, NEW a \in Seq(Seq(S)), NEW b \in Seq(Seq(T)), SameName(a, b)
    PROVE  NameText(Reverse(a)) = NameText(Reverse(b))
<1> DEFINE n == Len(a)
           u == Reverse(a)
           v == Reverse(b)
<1>1. /\ n \in Nat /\ \A i \in 1..n : a[i] \in Seq(S) /\ b[i] \in Seq(T)
      /\ DOMAIN u = 1..n /\ DOMAIN v = 1..n
      /\ \A i \in 1..n : u[i] = a[n - i + 1] /\ v[i] = b[n - i + 1]
  <2>1. n \in Nat /\ Len(b) = n /\ \A i \in 1..n : a[i] \in Seq(S) /\ b[i] \in Seq(T)
    BY LenProperties, ElementOfSeq DEF SameName
  <2> QED
    BY <2>1 DEF Reverse
<1> HIDE DEF u, v
<1>2. ASSUME NEW i \in 1..n PROVE PartText(u[i]) = PartText(v[i])
  <2> DEFINE k == n - i + 1
             x == a[k]
             y == b[k]
  <2>1. k \in 1..n /\ u[i] = x /\ v[i] = y
    BY <1>1
  <2>2. /\ x \in Seq(S) /\ y \in Seq(T) /\ Len(x) = Len(y)
        /\ \A j \in 1..Len(x) : x[j].type = y[j].type /\ x[j].tag = y[j].tag /\ x[j].value = y[j].value
    <3>1. x \in Seq(S) /\ y \in Seq(T)
      BY <1>1, <2>1
    <3>2. SameAttributes(x, y)
      BY <2>1 DEF SameName
    <3> QED
      BY <3>1, <3>2 DEF SameAttributes
  <2> HIDE DEF x, y, k
  <2>3. DOMAIN x = 1..Len(x) /\ DOMAIN y = 1..Len(x)
    BY <2>2, LenProperties
  <2>4. \A j \in 1..Len(x) : AttributeText(x[j]) = AttributeText(y[j])
    BY <2>2 DEF AttributeText
  <2>5. [j \in DOMAIN x |-> AttributeText(x[j])] = [j \in DOMAIN y |-> AttributeText(y[j])]
    BY <2>3, <2>4
  <2>6. PartText(x) = PartText(y)
    BY <2>5 DEF PartText
  <2> QED
    BY <2>1, <2>6
<1>3. [i \in DOMAIN u |-> PartText(u[i])] = [i \in DOMAIN v |-> PartText(v[i])]
  BY <1>1, <1>2
<1>4. NameText(u) = NameText(v)
  BY <1>3 DEF NameText
<1> QED
  BY <1>4 DEF u, v

NameRead(rdns) == [ok |-> TRUE, text |-> NameText(Reverse(rdns))]

\* and a name as the text of its parts, the last first.
LEMMA NameReads ==
    ASSUME NEW rdns \in Seq(Seq(Attr))
    PROVE  /\ NameContent(rdns) \in Octets
           /\ Short(NameContent(rdns)) => distinguished_name[NameContent(rdns)] = NameRead(rdns)
<1> DEFINE n == Len(rdns)
           c == RdnContents(rdns)
           p == Parts(SET, c)
           s == FlattenSeq(Codes(p))
           R == [ok : {TRUE}, type : Octets, tag : Tags, value : Octets]
           Q == [ok : {TRUE}, items : Seq(R)]
           q == [i \in 1..n |-> [ok |-> TRUE, items |-> AttributesRead(rdns[i])]]
           r == [i \in DOMAIN q |-> q[i].items]
<1>1. n \in Nat /\ DOMAIN rdns = 1..n /\ \A i \in 1..n : rdns[i] \in Seq(Attr)
  BY LenProperties, ElementOfSeq
<1>2. c \in Seq(Octets) /\ Len(c) = n /\ \A i \in 1..n : c[i] = AttributesContent(rdns[i])
  <2>1. c \in [1..n -> Octets] /\ \A i \in 1..n : c[i] = AttributesContent(rdns[i])
    BY <1>1, AttributesAreRead DEF RdnContents
  <2> HIDE DEF c
  <2> QED
    BY <1>1, <2>1, FunctionIsSeq
<1>3. \A i \in 1..n : /\ AttributesRead(rdns[i]) \in Seq(R)
                      /\ Len(AttributesRead(rdns[i])) = Len(rdns[i])
  BY <1>1, AttributesAreRead
<1> HIDE DEF R
<1>4. /\ q \in Seq(Q) /\ Len(q) = n
      /\ \A i \in 1..n : /\ q[i].ok /\ q[i] = [ok |-> TRUE, items |-> AttributesRead(rdns[i])]
                         /\ q[i].items = AttributesRead(rdns[i])
  <2>1. q \in [1..n -> Q]
    BY <1>3
  <2>2. \A i \in 1..n : /\ q[i].ok /\ q[i] = [ok |-> TRUE, items |-> AttributesRead(rdns[i])]
                        /\ q[i].items = AttributesRead(rdns[i])
    OBVIOUS
  <2> HIDE DEF q, Q
  <2> QED
    BY <1>1, <2>1, <2>2, FunctionIsSeq
<1> HIDE DEF q, Q
<1>5. r \in Seq(Seq(R)) /\ Len(r) = n /\ \A i \in 1..n : r[i] = AttributesRead(rdns[i])
  <2>1. DOMAIN q = 1..n
    BY <1>4, LenProperties
  <2>2. r \in [1..n -> Seq(R)] /\ \A i \in 1..n : r[i] = AttributesRead(rdns[i])
    BY <1>3, <1>4, <2>1
  <2> HIDE DEF r
  <2> QED
    BY <1>1, <2>2, FunctionIsSeq
<1>6. NameText(Reverse(r)) = NameText(Reverse(rdns))
  <2>1. ASSUME NEW i \in 1..Len(r) PROVE SameAttributes(r[i], rdns[i])
    <3> DEFINE x == rdns[i]
               y == AttributesRead(x)
    <3>1. r[i] = y /\ Len(y) = Len(x) /\ x \in Seq(Attr)
      BY <1>1, <1>3, <1>5, <2>1
    <3>2. DOMAIN x = 1..Len(x)
      BY <3>1, LenProperties
    <3>3. \A j \in 1..Len(x) : y[j] = AttributeRead(x[j])
      BY <3>2 DEF AttributesRead
    <3>4. \A a : /\ AttributeRead(a).type = a.type
                 /\ AttributeRead(a).tag = a.tag
                 /\ AttributeRead(a).value = a.value
      BY DEF AttributeRead
    <3> HIDE DEF x, y
    <3>5. SameAttributes(y, x)
      BY <3>1, <3>3, <3>4 DEF SameAttributes
    <3> QED
      BY <3>1, <3>5 DEF x
  <2> HIDE DEF r
  <2>2. SameName(r, rdns)
    BY <1>5, <2>1 DEF SameName
  <2> QED
    BY <1>5, <2>2, NameTextAlike
<1> HIDE DEF c, r
<1>7. SET \in Tags
  BY TagsHave
<1>8. p \in Seq(Part) /\ Len(p) = n /\ \A i \in 1..n : p[i].content = c[i]
  BY <1>2, <1>7, PartsOf
<1>9. s \in Octets
  <2>1. Codes(p) \in Seq(Octets)
    BY <1>8, CodesType
  <2> HIDE DEF p
  <2> QED
    BY <2>1, FlattenLength DEF Octets
<1>10. ASSUME Short(s) PROVE distinguished_name[s] = NameRead(rdns)
  <2>1. ASSUME NEW i \in 1..n PROVE Attributes[c[i]] = q[i] /\ q[i].ok
    <3>1. Short(c[i])
      <4>1. Short(p[i].content)
        BY <1>8, <1>10, ShortCodes
      <4> QED
        BY <1>8, <4>1
    <3>2. Attributes[AttributesContent(rdns[i])] = [ok |-> TRUE, items |-> AttributesRead(rdns[i])]
      BY <1>1, <1>2, <3>1, AttributesAreRead
    <3> QED
      BY <1>2, <1>4, <3>2
  <2> HIDE DEF n
  <2>2. ReadsAs(Attributes, c, q)
    BY <1>2, <1>4, <2>1 DEF ReadsAs
  <2>3. Encodes(s, SET, c)
    BY <1>10 DEF Encodes
  <2>4. Each(s, SET, Attributes) = [ok |-> TRUE, items |-> q]
    BY <1>2, <1>4, <1>7, <2>2, <2>3, EachReads
  <2> HIDE DEF s
  <2>5. distinguished_name[s] = Named([ok |-> TRUE, items |-> q])
    BY <1>9, <2>4 DEF distinguished_name
  <2>6. Named([ok |-> TRUE, items |-> q]) = [ok |-> TRUE, text |-> NameText(Reverse(r))]
    BY DEF Named, InOrder, r
  <2> QED
    BY <1>6, <2>5, <2>6 DEF NameRead
<1>11. NameContent(rdns) = s
  BY DEF NameContent, c
<1> HIDE DEF s, p
<1> QED
  BY <1>9, <1>10, <1>11

\* The issuer encodes a name so.
LEMMA EncodedNameIs ==
    ASSUME NEW rdns \in Seq(Seq(Attr))
    PROVE  EncodedName(rdns) = Encoded(SEQUENCE, NameContent(rdns))
<1> DEFINE n == Len(rdns)
           c == RdnContents(rdns)
           d(i) == InTurn(rdns[i], LAMBDA a : Encoded(SEQUENCE, AttributeContent(a)))
           e == [i \in DOMAIN rdns |-> Encoded(SET, d(i))]
<1>1. n \in Nat /\ DOMAIN rdns = 1..n /\ \A i \in 1..n : rdns[i] \in Seq(Attr)
  BY LenProperties, ElementOfSeq
<1>2. c \in Seq(Octets) /\ DOMAIN c = 1..n /\ \A i \in 1..n : c[i] = AttributesContent(rdns[i])
  <2>1. c \in [1..n -> Octets] /\ \A i \in 1..n : c[i] = AttributesContent(rdns[i])
    BY <1>1, AttributesAreRead DEF RdnContents
  <2> HIDE DEF c
  <2> QED
    BY <1>1, <2>1, FunctionIsSeq
<1>3. ASSUME NEW i \in 1..n PROVE d(i) = AttributesContent(rdns[i])
  <2> DEFINE x == rdns[i]
             b == AttributeContents(x)
  <2>1. x \in Seq(Attr) /\ DOMAIN x = 1..Len(x) /\ Len(x) \in Nat
        /\ \A j \in 1..Len(x) : x[j] \in Attr
    BY <1>1, LenProperties, ElementOfSeq
  <2> HIDE DEF x
  <2>2. b \in Seq(Octets) /\ DOMAIN b = 1..Len(x)
        /\ \A j \in 1..Len(x) : b[j] = AttributeContent(x[j])
    <3>1. b \in [1..Len(x) -> Octets] /\ \A j \in 1..Len(x) : b[j] = AttributeContent(x[j])
      BY <2>1, AttributeContentType DEF AttributeContents
    <3> HIDE DEF b
    <3> QED
      BY <2>1, <3>1, FunctionIsSeq
  <2> HIDE DEF b
  <2>3. Codes(Parts(SEQUENCE, b)) = [j \in 1..Len(x) |-> Encoded(SEQUENCE, b[j])]
    <3>1. SEQUENCE \in Tags
      BY TagsHave
    <3>2. Codes(Parts(SEQUENCE, b)) = [j \in DOMAIN b |-> Encoded(SEQUENCE, b[j])]
      BY <2>2, <3>1, PartsOf
    <3> QED
      BY <2>2, <3>2
  <2>4. [j \in 1..Len(x) |-> Encoded(SEQUENCE, b[j])]
        = [j \in DOMAIN x |-> Encoded(SEQUENCE, AttributeContent(x[j]))]
    BY <2>1, <2>2
  <2>5. d(i) = FlattenSeq([j \in DOMAIN x |-> Encoded(SEQUENCE, AttributeContent(x[j]))])
    BY DEF InTurn, x
  <2>6. AttributesContent(x) = FlattenSeq(Codes(Parts(SEQUENCE, b)))
    BY DEF AttributesContent, b
  <2> HIDE DEF d
  <2> QED
    BY <2>3, <2>4, <2>5, <2>6 DEF x
<1>4. EncodedName(rdns) = Encoded(SEQUENCE, FlattenSeq(e))
  BY DEF EncodedName, InTurn, AttributeContent
<1> HIDE DEF d, c
<1>5. Codes(Parts(SET, c)) = [i \in 1..n |-> Encoded(SET, c[i])]
  <2>1. SET \in Tags
    BY TagsHave
  <2>2. Codes(Parts(SET, c)) = [i \in DOMAIN c |-> Encoded(SET, c[i])]
    BY <1>2, <2>1, PartsOf
  <2> QED
    BY <1>2, <2>2
<1>6. [i \in 1..n |-> Encoded(SET, c[i])] = e
  BY <1>1, <1>2, <1>3
<1>7. NameContent(rdns) = FlattenSeq(Codes(Parts(SET, c)))
  BY DEF NameContent, c
<1> HIDE DEF e
<1> QED
  BY <1>4, <1>5, <1>6, <1>7

-----------------------------------------------------------------------------
(* Alternative names.                                                       *)

General == [tag : Tags, octets : Octets]

GeneralParts(list) ==
    [i \in DOMAIN list |-> [tag |-> list[i].tag, content |-> list[i].octets]]

NamesContent(list) == FlattenSeq(Codes(GeneralParts(list)))

KnownOf(tag, octets) == IF IsKept(tag, octets) THEN <<<<tag, octets>>>> ELSE <<>>

Known(list) ==
    FlattenSeq([i \in DOMAIN list |-> KnownOf(list[i].tag, list[i].octets)])

LEMMA GeneralPartsAre ==
    ASSUME NEW v \in Seq(General)
    PROVE  /\ GeneralParts(v) \in Seq(Part) /\ Len(GeneralParts(v)) = Len(v)
           /\ \A i \in 1..Len(v) : /\ GeneralParts(v)[i].tag = v[i].tag
                                   /\ GeneralParts(v)[i].content = v[i].octets
           /\ NamesContent(v) \in Octets
           /\ NamesContent(v) = FlattenSeq([i \in DOMAIN v |-> Encoded(v[i].tag, v[i].octets)])
<1> DEFINE n == Len(v)
           p == GeneralParts(v)
<1>1. n \in Nat /\ DOMAIN v = 1..n /\ \A i \in 1..n : v[i] \in General
  BY LenProperties, ElementOfSeq
<1>2. /\ p \in [1..n -> Part]
      /\ \A i \in 1..n : p[i].tag = v[i].tag /\ p[i].content = v[i].octets
  BY <1>1 DEF GeneralParts, General, Part
<1> HIDE DEF p
<1>3. p \in Seq(Part) /\ Len(p) = n /\ DOMAIN p = 1..n
  BY <1>1, <1>2, FunctionIsSeq
<1>4. NamesContent(v) = FlattenSeq(Codes(p))
  BY DEF NamesContent, p
<1>5. FlattenSeq(Codes(p)) \in Octets
  <2>1. Codes(p) \in Seq(Octets)
    BY <1>3, CodesType
  <2> QED
    BY <2>1, FlattenLength DEF Octets
<1>6. Codes(p) = [i \in DOMAIN v |-> Encoded(v[i].tag, v[i].octets)]
  BY <1>1, <1>2, <1>3 DEF Codes
<1> QED
  BY <1>2, <1>3, <1>4, <1>5, <1>6 DEF p

NamesRead(list) == [ok |-> TRUE, names |-> Known(list)]

\* Of alternative names, those of the kinds that are kept are read.
LEMMA NamesAreRead ==
    ASSUME NEW v \in Seq(General), Short(NamesContent(v))
    PROVE  general_names(Encoded(SEQUENCE, NamesContent(v))) = NamesRead(v)
<1> DEFINE n == Len(v)
           p == GeneralParts(v)
           s == NamesContent(v)
           e == Encoded(SEQUENCE, s)
           found == elements[s]
<1>1. /\ n \in Nat /\ DOMAIN v = 1..n
      /\ p \in Seq(Part) /\ Len(p) = n
      /\ \A i \in 1..n : p[i].tag = v[i].tag /\ p[i].content = v[i].octets
  BY GeneralPartsAre, LenProperties
<1>2. Spread(found, p)
  <2>1. s = FlattenSeq(Codes(p)) /\ Len(s) < LengthLimit
    BY DEF NamesContent, Short
  <2> HIDE DEF p, s
  <2> QED
    BY <1>1, <2>1, PartsAreRead
<1> HIDE DEF p, found
<1>3. /\ DOMAIN found = 1..n
      /\ \A i \in 1..n : found[i].ok = TRUE /\ found[i].tag = v[i].tag /\ found[i].content = v[i].octets
  BY <1>1, <1>2 DEF Spread
<1>4. AllRead(found)
  BY <1>3 DEF AllRead
<1>5. expect(e, SEQUENCE) = Found(SEQUENCE, s, <<>>)
  BY ElementWhole, TagsHave
<1>6. expect(e, SEQUENCE).ok /\ expect(e, SEQUENCE).content = s
  BY <1>5 DEF Found
<1> HIDE DEF e, s
<1>7. general_names(e) = Kinds(found)
  BY <1>4, <1>6 DEF general_names, found
<1>8. Kinds(found) =
          [ok |-> TRUE,
           names |-> FlattenSeq([i \in DOMAIN found |-> KnownOf(found[i].tag, found[i].content)])]
  BY DEF Kinds, KnownOf
<1>9. [i \in DOMAIN found |-> KnownOf(found[i].tag, found[i].content)]
      = [i \in DOMAIN v |-> KnownOf(v[i].tag, v[i].octets)]
  BY <1>1, <1>3
<1> QED
  BY <1>7, <1>8, <1>9 DEF NamesRead, Known, e, s

\* Optional fields.
LEMMA AfterPresent ==
    ASSUME NEW tag \in Tags, NEW content, Short(content), NEW rest \in Octets
    PROVE  After(Encoded(tag, content) \o rest, tag) = rest
<1> DEFINE e == Encoded(tag, content)
           s == e \o rest
<1>1. e \in Octets /\ Len(e) \in Nat /\ Len(e) > 0 /\ e[1] = tag
  <2>1. e \in Octets /\ Len(content) < Len(e) /\ e[1] = tag /\ content \in Octets
    BY EncodedType, TagsHave DEF Short
  <2> HIDE DEF e
  <2> QED
    BY <2>1, LenProperties DEF Octets
<1>2. element[s] = Found(tag, content, rest)
  BY EncodedReads DEF Short
<1> HIDE DEF e
<1>3. s # <<>> /\ s[1] = tag
  <2>1. s \in Octets /\ Cat(e, rest) /\ Len(rest) \in Nat
    BY <1>1, OctetsCat, LenProperties DEF Octets
  <2>2. Len(s) = Len(e) + Len(rest) /\ s[1] = e[1]
    BY <1>1, <2>1 DEF Cat
  <2>3. Len(s) # 0
    BY <1>1, <2>1, <2>2
  <2> QED
    BY <1>1, <2>2, <2>3
<1> HIDE DEF s
<1>4. After(s, tag) = rest
  BY <1>2, <1>3 DEF After, Found
<1> QED
  BY <1>4 DEF s, e

\* and nothing where another field is.
LEMMA AfterAbsent ==
    ASSUME NEW tag \in Tags, NEW content \in Octets, NEW rest \in Octets, NEW other, other # tag
    PROVE  After(Encoded(tag, content) \o rest, other) = Encoded(tag, content) \o rest
<1> DEFINE e == Encoded(tag, content)
           s == e \o rest
<1>1. e \in Octets /\ Len(e) \in Nat /\ Len(e) > 0 /\ e[1] = tag
  <2>1. e \in Octets /\ Len(content) < Len(e) /\ e[1] = tag
    BY EncodedType, TagsHave
  <2> HIDE DEF e
  <2> QED
    BY <2>1, LenProperties DEF Octets
<1> HIDE DEF e
<1>2. s[1] = tag
  <2>1. s \in Octets /\ Cat(e, rest) /\ Len(rest) \in Nat
    BY <1>1, OctetsCat, LenProperties DEF Octets
  <2> QED
    BY <1>1, <2>1 DEF Cat
<1> HIDE DEF s
<1>3. After(s, other) = s
  BY <1>2 DEF After
<1> QED
  BY <1>3 DEF s, e

-----------------------------------------------------------------------------
(* Extensions.                                                              *)

Ext == [type : Octets, critical : BOOLEAN, names : Seq(General)]

ValueOf(x) ==
    IF x.type = SUBJECT_ALT_NAME THEN Encoded(SEQUENCE, NamesContent(x.names)) ELSE <<0, 0>>

FlagOf(x) == IF x.critical THEN Encoded(BOOLEAN_TAG, <<255>>) ELSE <<>>

ExtensionContent(x) ==
    Encoded(OBJECT_IDENTIFIER, x.type) \o FlagOf(x) \o Encoded(OCTET_STRING, ValueOf(x))

ListOf(x) == IF x.type = SUBJECT_ALT_NAME THEN <<Known(x.names)>> ELSE <<>>

ListRead(x) == [ok |-> TRUE, lists |-> ListOf(x)]

LEMMA ExtensionContentType ==
    ASSUME NEW x \in Ext
    PROVE  /\ Encoded(OBJECT_IDENTIFIER, x.type) \in Octets
           /\ FlagOf(x) \in Octets
           /\ ValueOf(x) \in Octets
           /\ Encoded(OCTET_STRING, ValueOf(x)) \in Octets
           /\ ExtensionContent(x) \in Octets
           /\ ExtensionContent(x) = Encoded(OBJECT_IDENTIFIER, x.type)
                                    \o (FlagOf(x) \o Encoded(OCTET_STRING, ValueOf(x)))
<1> DEFINE a == Encoded(OBJECT_IDENTIFIER, x.type)
           b == FlagOf(x)
           c == Encoded(OCTET_STRING, ValueOf(x))
           s == (a \o b) \o c
<1>1. x.type \in Octets /\ x.names \in Seq(General)
  BY DEF Ext
<1>2. /\ OBJECT_IDENTIFIER \in 0..255 /\ BOOLEAN_TAG \in 0..255 /\ OCTET_STRING \in 0..255
      /\ SEQUENCE \in 0..255
  BY TagsHave
<1>3. <<255>> \in Octets /\ <<0, 0>> \in Octets /\ <<>> \in Octets
  BY DEF Octets
<1>4. a \in Octets
  BY <1>1, <1>2, EncodedType
<1>5. b \in Octets
  <2>1. Encoded(BOOLEAN_TAG, <<255>>) \in Octets
    BY <1>2, <1>3, EncodedType
  <2> QED
    BY <1>3, <2>1 DEF FlagOf
<1>6. ValueOf(x) \in Octets
  <2>1. NamesContent(x.names) \in Octets
    BY <1>1, GeneralPartsAre
  <2>2. Encoded(SEQUENCE, NamesContent(x.names)) \in Octets
    BY <1>2, <2>1, EncodedType
  <2> QED
    BY <1>3, <2>2 DEF ValueOf
<1>7. c \in Octets
  BY <1>2, <1>6, EncodedType
<1>8. ExtensionContent(x) = s
  BY DEF ExtensionContent
<1> HIDE DEF a, b, c
<1>9. a \o b \in Octets
  BY <1>4, <1>5, OctetsCat
<1>10. s \in Octets /\ Assoc(a, b, c)
  BY <1>4, <1>5, <1>7, <1>9, OctetsCat, OctetsAssociative
<1>11. s = a \o (b \o c)
  BY <1>10 DEF Assoc
<1> QED
  BY <1>4, <1>5, <1>6, <1>7, <1>8, <1>10, <1>11 DEF a, b, c

\* An extension is read as the list of alternative names it has, or none,
LEMMA ExtensionReads ==
    ASSUME NEW x \in Ext, Short(ExtensionContent(x))
    PROVE  Extension[ExtensionContent(x)] = ListRead(x)
<1> DEFINE a == Encoded(OBJECT_IDENTIFIER, x.type)
           b == FlagOf(x)
           v == ValueOf(x)
           c == Encoded(OCTET_STRING, v)
           t == b \o c
           s == ExtensionContent(x)
           identifier == expect(s, OBJECT_IDENTIFIER)
           value == expect(After(identifier.rest, BOOLEAN_TAG), OCTET_STRING)
<1>1. /\ a \in Octets /\ b \in Octets /\ v \in Octets /\ c \in Octets /\ s \in Octets
      /\ s = a \o t
  BY ExtensionContentType
<1>2. x.type \in Octets /\ x.names \in Seq(General) /\ x.critical \in BOOLEAN
  BY DEF Ext
<1>3. /\ OBJECT_IDENTIFIER \in Tags /\ BOOLEAN_TAG \in Tags /\ OCTET_STRING \in Tags
      /\ OBJECT_IDENTIFIER \in 0..255 /\ BOOLEAN_TAG \in 0..255 /\ OCTET_STRING \in 0..255
  BY TagsHave
<1>4. t \in Octets
  <2> HIDE DEF b, c
  <2> QED
    BY <1>1, OctetsCat
<1>5. Short(x.type) /\ Short(c) /\ Short(v)
  <2> HIDE DEF b, v, s
  <2>1. Short(a) /\ Short(t)
    <3> HIDE DEF a, t
    <3> QED
      BY <1>1, <1>4, ShortCat DEF s
  <2>2. Short(c)
    <3> HIDE DEF c
    <3> QED
      BY <1>1, <2>1, ShortCat
  <2> QED
    BY <1>1, <1>2, <1>3, <2>1, <2>2, ShortEncoded
<1>6. identifier = Found(OBJECT_IDENTIFIER, x.type, t)
  <2>1. OBJECT_IDENTIFIER \in Tags
    BY <1>3
  <2> HIDE DEF t, s
  <2> QED
    BY <1>1, <1>4, <1>5, <2>1, ExpectReads
<1> HIDE DEF s
<1>7. identifier.ok /\ identifier.content = x.type /\ identifier.rest = t
  BY <1>6 DEF Found
<1>8. After(t, BOOLEAN_TAG) = c
  <2>1. CASE x.critical
    <3> DEFINE o == <<255>>
    <3>1. o \in Octets /\ Len(o) = 1
      BY DEF Octets
    <3>2. Short(o)
      BY <3>1 DEF Short, LengthLimit
    <3>3. b = Encoded(BOOLEAN_TAG, o)
      BY <2>1 DEF FlagOf
    <3> HIDE DEF o, b, c
    <3> QED
      BY <1>1, <1>3, <3>2, <3>3, AfterPresent
  <2>2. CASE ~x.critical
    <3>1. b = <<>>
      BY <2>2 DEF FlagOf
    <3>2. t = c
      <4> HIDE DEF b, c
      <4> QED
        BY <1>1, <3>1, ConcatEmptySeq DEF Octets
    <3>3. BOOLEAN_TAG # OCTET_STRING
      BY DEF BOOLEAN_TAG, OCTET_STRING
    <3> DEFINE o == <<>>
    <3>4. o \in Octets /\ c \o o = c
      <4> HIDE DEF c
      <4> QED
        BY <1>1, ConcatEmptySeq DEF Octets
    <3>5. After(c \o o, BOOLEAN_TAG) = c \o o
      <4>1. OCTET_STRING \in Tags /\ BOOLEAN_TAG \in 0..255 /\ v \in Octets
        BY <1>1, <1>3
      <4> HIDE DEF o, t, v
      <4> QED
        BY <4>1, <3>3, <3>4, AfterAbsent
    <3> HIDE DEF o, t, v
    <3> QED
      BY <3>2, <3>4, <3>5
  <2> QED
    BY <1>2, <2>1, <2>2
<1> HIDE DEF t
<1>9. value = Found(OCTET_STRING, v, <<>>)
  <2>1. expect(c, OCTET_STRING) = Found(OCTET_STRING, v, <<>>)
    <3> HIDE DEF v
    <3> QED
      BY <1>3, <1>5, ElementWhole
  <2> QED
    BY <1>7, <1>8, <2>1
<1>10. value.ok /\ value.content = v
  BY <1>9 DEF Found
<1>11. Extension[s] = IF ~identifier.ok \/ ~value.ok THEN Broken
                      ELSE IF identifier.content # SUBJECT_ALT_NAME
                      THEN [ok |-> TRUE, lists |-> <<>>]
                      ELSE AltNames(general_names(value.content))
  BY <1>1 DEF Extension
<1> HIDE DEF identifier, value
<1>12. CASE x.type # SUBJECT_ALT_NAME
  BY <1>7, <1>10, <1>11, <1>12 DEF ListRead, ListOf, s
<1>13. CASE x.type = SUBJECT_ALT_NAME
  <2> DEFINE n == NamesContent(x.names)
  <2>1. v = Encoded(SEQUENCE, n)
    BY <1>13 DEF ValueOf
  <2>2. n \in Octets
    BY <1>2, GeneralPartsAre
  <2>3. Short(n)
    <3> HIDE DEF n, v
    <3> QED
      BY TagsHave, <1>5, <2>1, <2>2, ShortEncoded
  <2>4. general_names(v) = NamesRead(x.names)
    <3> HIDE DEF v
    <3> QED
      BY <1>2, <2>1, <2>3, NamesAreRead
  <2>5. AltNames(NamesRead(x.names)) = [ok |-> TRUE, lists |-> <<Known(x.names)>>]
    BY DEF AltNames, NamesRead
  <2> HIDE DEF n, v
  <2> QED
    BY <1>7, <1>10, <1>11, <1>13, <2>4, <2>5 DEF ListRead, ListOf, s
<1> QED
  BY <1>12, <1>13

\* The extensions, one after the other, and the lists of names they have.
ExtensionContents(exts) == [i \in DOMAIN exts |-> ExtensionContent(exts[i])]

ExtensionsContent(exts) == FlattenSeq(Codes(Parts(SEQUENCE, ExtensionContents(exts))))

ListsOf(exts) == [i \in DOMAIN exts |-> ListOf(exts[i])]

ListsRead(exts) == [ok |-> TRUE, lists |-> FlattenSeq(ListsOf(exts))]

\* and the extensions as their lists.
LEMMA ExtensionsAreRead ==
    ASSUME NEW exts \in Seq(Ext)
    PROVE  /\ ExtensionsContent(exts) \in Octets
           /\ Short(ExtensionsContent(exts)) =>
                  Lists(Each(ExtensionsContent(exts), SEQUENCE, Extension)) = ListsRead(exts)
<1> DEFINE n == Len(exts)
           c == ExtensionContents(exts)
           p == Parts(SEQUENCE, c)
           s == FlattenSeq(Codes(p))
           R == {ListRead(exts[i]) : i \in 1..n}
           r == [i \in 1..n |-> ListRead(exts[i])]
<1>1. n \in Nat /\ DOMAIN exts = 1..n /\ \A i \in 1..n : exts[i] \in Ext
  BY LenProperties, ElementOfSeq
<1>2. c \in Seq(Octets) /\ Len(c) = n /\ \A i \in 1..n : c[i] = ExtensionContent(exts[i])
  <2>1. c \in [1..n -> Octets] /\ \A i \in 1..n : c[i] = ExtensionContent(exts[i])
    BY <1>1, ExtensionContentType DEF ExtensionContents
  <2> HIDE DEF c
  <2> QED
    BY <1>1, <2>1, FunctionIsSeq
<1>3. r \in Seq(R) /\ Len(r) = n /\ \A i \in 1..n : r[i] = ListRead(exts[i])
  <2>1. r \in [1..n -> R] /\ \A i \in 1..n : r[i] = ListRead(exts[i])
    OBVIOUS
  <2> HIDE DEF r, R
  <2> QED
    BY <1>1, <2>1, FunctionIsSeq
<1> HIDE DEF c, r, R
<1>4. SEQUENCE \in Tags
  BY TagsHave
<1>5. p \in Seq(Part) /\ Len(p) = n /\ \A i \in 1..n : p[i].content = c[i]
  BY <1>2, <1>4, PartsOf
<1>6. s \in Octets
  <2>1. Codes(p) \in Seq(Octets)
    BY <1>5, CodesType
  <2> HIDE DEF p
  <2> QED
    BY <2>1, FlattenLength DEF Octets
<1>7. ASSUME Short(s) PROVE Lists(Each(s, SEQUENCE, Extension)) = ListsRead(exts)
  <2>1. ASSUME NEW i \in 1..n PROVE Extension[c[i]] = r[i] /\ r[i].ok
    <3>1. Short(c[i])
      <4>1. Short(p[i].content)
        BY <1>5, <1>7, ShortCodes
      <4> QED
        BY <1>5, <4>1
    <3>2. Extension[ExtensionContent(exts[i])] = ListRead(exts[i])
      BY <1>1, <1>2, <3>1, ExtensionReads
    <3>3. ListRead(exts[i]).ok
      BY DEF ListRead
    <3> QED
      BY <1>2, <1>3, <3>2, <3>3
  <2> HIDE DEF n
  <2>2. ReadsAs(Extension, c, r)
    BY <1>2, <1>3, <2>1 DEF ReadsAs
  <2>3. Encodes(s, SEQUENCE, c)
    BY <1>7 DEF Encodes
  <2> HIDE DEF s
  <2>4. Each(s, SEQUENCE, Extension) = [ok |-> TRUE, items |-> r]
    BY <1>2, <1>3, <1>4, <2>2, <2>3, EachReads
  <2>5. [i \in DOMAIN r |-> r[i].lists] = ListsOf(exts)
    <3>1. \A x : ListRead(x).lists = ListOf(x)
      BY DEF ListRead
    <3>2. DOMAIN r = 1..n
      BY <1>3, LenProperties
    <3>3. [i \in DOMAIN r |-> r[i].lists] = [i \in 1..n |-> ListOf(exts[i])]
      BY <1>3, <3>1, <3>2
    <3> QED
      BY <1>1, <3>3 DEF ListsOf, n
  <2>6. Lists([ok |-> TRUE, items |-> r])
        = [ok |-> TRUE, lists |-> FlattenSeq([i \in DOMAIN r |-> r[i].lists])]
    BY DEF Lists
  <2> QED
    BY <2>4, <2>5, <2>6 DEF ListsRead
<1>8. ExtensionsContent(exts) = s
  BY DEF ExtensionsContent, c
<1> HIDE DEF s
<1> QED
  BY <1>6, <1>7, <1>8

LEMMA EncodedExtensionIs ==
    ASSUME NEW x \in Ext
    PROVE  EncodedExtension(x) = Encoded(SEQUENCE, ExtensionContent(x))
<1> DEFINE g == InTurn(x.names, LAMBDA y : Encoded(y.tag, y.octets))
<1>1. x.names \in Seq(General)
  BY DEF Ext
<1>2. g = NamesContent(x.names)
  <2>1. g = FlattenSeq([i \in DOMAIN x.names |-> Encoded(x.names[i].tag, x.names[i].octets)])
    BY DEF InTurn
  <2> HIDE DEF g
  <2> QED
    BY <1>1, <2>1, GeneralPartsAre
<1>3. EncodedExtension(x)
      = Encoded(SEQUENCE,
            (Encoded(OBJECT_IDENTIFIER, x.type)
             \o (IF x.critical THEN Encoded(BOOLEAN_TAG, <<255>>) ELSE <<>>))
            \o Encoded(OCTET_STRING, IF x.type = SUBJECT_ALT_NAME
                                     THEN Encoded(SEQUENCE, g) ELSE <<0, 0>>))
  BY DEF EncodedExtension, InTurn
<1> HIDE DEF g
<1> QED
  BY <1>2, <1>3 DEF ExtensionContent, FlagOf, ValueOf

\* The issuer encodes extensions so.
LEMMA EncodedExtensionsAre ==
    ASSUME NEW exts \in Seq(Ext)
    PROVE  InTurn(exts, EncodedExtension) = ExtensionsContent(exts)
<1> DEFINE n == Len(exts)
           c == ExtensionContents(exts)
           e == [i \in DOMAIN exts |-> EncodedExtension(exts[i])]
<1>1. n \in Nat /\ DOMAIN exts = 1..n /\ \A i \in 1..n : exts[i] \in Ext
  BY LenProperties, ElementOfSeq
<1>2. c \in Seq(Octets) /\ DOMAIN c = 1..n /\ \A i \in 1..n : c[i] = ExtensionContent(exts[i])
  <2>1. c \in [1..n -> Octets] /\ \A i \in 1..n : c[i] = ExtensionContent(exts[i])
    BY <1>1, ExtensionContentType DEF ExtensionContents
  <2> HIDE DEF c
  <2> QED
    BY <1>1, <2>1, FunctionIsSeq
<1> HIDE DEF c
<1>3. Codes(Parts(SEQUENCE, c)) = [i \in 1..n |-> Encoded(SEQUENCE, c[i])]
  <2>1. SEQUENCE \in Tags
    BY TagsHave
  <2>2. Codes(Parts(SEQUENCE, c)) = [i \in DOMAIN c |-> Encoded(SEQUENCE, c[i])]
    BY <1>2, <2>1, PartsOf
  <2> QED
    BY <1>2, <2>2
<1>4. [i \in 1..n |-> Encoded(SEQUENCE, c[i])] = e
  BY <1>1, <1>2, EncodedExtensionIs
<1>5. ExtensionsContent(exts) = FlattenSeq(Codes(Parts(SEQUENCE, c)))
  BY DEF ExtensionsContent, c
<1>6. InTurn(exts, EncodedExtension) = FlattenSeq(e)
  BY DEF InTurn
<1> HIDE DEF e
<1> QED
  BY <1>3, <1>4, <1>5, <1>6

-----------------------------------------------------------------------------
(* The certificate.                                                         *)

\* row is what precedes the parts, followed by their encodings.
PartOf(tag, content) == [tag |-> tag, content |-> content]

Row(row, before, parts) ==
    /\ before \in Octets /\ parts \in Seq(Part) /\ row \in Octets
    /\ row = before \o FlattenSeq(Codes(parts))

LEMMA RowOfNone == ASSUME NEW v \in Octets PROVE Row(v, v, <<>>)
<1>1. <<>> \in Seq(Part)
  BY EmptySeq
<1>2. FlattenSeq(Codes(<<>>)) = <<>>
  BY CodesEmpty, FlattenEmpty
<1>3. v \o <<>> = v
  BY ConcatEmptySeq DEF Octets
<1> QED
  BY <1>1, <1>2, <1>3 DEF Row

\* One more encoding is one more part.
LEMMA RowGrows ==
    ASSUME NEW t, NEW v, NEW p, Row(t, v, p), NEW tag \in Tags, NEW content \in Octets
    PROVE  Row(t \o Encoded(tag, content), v, Append(p, PartOf(tag, content)))
<1> DEFINE x == PartOf(tag, content)
           e == Encoded(tag, content)
           s == FlattenSeq(Codes(p))
<1>1. v \in Octets /\ p \in Seq(Part) /\ t \in Octets /\ t = v \o s
  BY DEF Row
<1>2. x \in Part /\ x.tag = tag /\ x.content = content
  BY DEF PartOf, Part
<1>3. tag \in 0..255
  BY DEF Tags
<1>4. e \in Octets
  BY <1>3, EncodedType
<1> HIDE DEF x
<1>5. Codes(Append(p, x)) = Append(Codes(p), e) /\ Codes(p) \in Seq(Octets)
  BY <1>1, <1>2, CodesAppend, CodesType
<1> HIDE DEF e
<1>6. s \in Octets /\ FlattenSeq(Codes(Append(p, x))) = s \o e
  BY <1>4, <1>5, FlattenAppend DEF Octets
<1>7. Append(p, x) \in Seq(Part)
  BY <1>1, <1>2, AppendProperties
<1> HIDE DEF s
<1>8. t \o e \in Octets /\ Assoc(v, s, e)
  BY <1>1, <1>4, <1>6, OctetsCat, OctetsAssociative
<1>9. t \o e = v \o (s \o e)
  BY <1>1, <1>8 DEF Assoc
<1> QED
  BY <1>1, <1>6, <1>7, <1>8, <1>9 DEF Row, e, x

Cert == [v1 : BOOLEAN, issuer : Seq(Seq(Attr)), subject : Seq(Seq(Attr)), keyLength : Nat,
         uniqueID : BOOLEAN, extensions : Seq(Ext)]

VersionOf(c) == IF c.v1 THEN <<>> ELSE Encoded(VERSION, Encoded(INTEGER, <<2>>))

UniqueOf(c) == IF c.uniqueID THEN Encoded(129, <<0, 1>>) ELSE <<>>

ExtensionsOf(c) ==
    IF c.extensions = <<>> THEN <<>>
    ELSE Encoded(EXTENSIONS, Encoded(SEQUENCE, ExtensionsContent(c.extensions)))

\* The six fields every certificate has.
SixFields(c, p) ==
    /\ Len(p) = 6
    /\ p[1].tag = INTEGER /\ p[2].tag = SEQUENCE /\ p[3].tag = SEQUENCE
    /\ p[4].tag = SEQUENCE /\ p[5].tag = SEQUENCE /\ p[6].tag = SEQUENCE
    /\ p[3].content = NameContent(c.issuer) /\ p[5].content = NameContent(c.subject)

Adds(q, p, x, n, m) ==
    /\ p \in Seq(Part) /\ Len(p) = n /\ n \in Nat
    /\ x \in Part /\ q = Append(p, x) /\ m = n + 1

Added(q, p, x, n, m) ==
    /\ q \in Seq(Part) /\ Len(q) = m /\ q[m] = x
    /\ \A i \in 1..n : q[i] = p[i]

LEMMA PartAdded ==
    ASSUME NEW p, NEW x, NEW q, NEW n, NEW m, Adds(q, p, x, n, m)
    PROVE  Added(q, p, x, n, m)
BY AppendProperties DEF Adds, Added

LEMMA VersionType == ASSUME NEW c \in Cert PROVE VersionOf(c) \in Octets
<1>1. INTEGER \in 0..255 /\ VERSION \in 0..255
  BY TagsHave
<1>2. <<2>> \in Octets /\ <<>> \in Octets
  BY DEF Octets
<1>3. Encoded(INTEGER, <<2>>) \in Octets
  BY <1>1, <1>2, EncodedType
<1>4. Encoded(VERSION, Encoded(INTEGER, <<2>>)) \in Octets
  BY <1>1, <1>3, EncodedType
<1> QED
  BY <1>2, <1>4 DEF VersionOf

\* The issuer encodes the six fields first.
LEMMA FieldsEncoded ==
    ASSUME NEW c \in Cert
    PROVE  \E t, p : /\ Row(t, VersionOf(c), p) /\ SixFields(c, p)
                     /\ EncodedCertificate(c) =
                            Encoded(SEQUENCE, Encoded(SEQUENCE, (t \o UniqueOf(c)) \o ExtensionsOf(c)))
<1> DEFINE v == VersionOf(c)
           o1 == <<1>>
           o2 == <<>>
           n3 == NameContent(c.issuer)
           n5 == NameContent(c.subject)
           key == [i \in 1..c.keyLength |-> 0]
           t1 == v \o Encoded(INTEGER, o1)
           t2 == t1 \o Encoded(SEQUENCE, o2)
           t3 == t2 \o Encoded(SEQUENCE, n3)
           t4 == t3 \o Encoded(SEQUENCE, o2)
           t5 == t4 \o Encoded(SEQUENCE, n5)
           t6 == t5 \o Encoded(SEQUENCE, key)
           p0 == <<>>
           p1 == Append(p0, PartOf(INTEGER, o1))
           p2 == Append(p1, PartOf(SEQUENCE, o2))
           p3 == Append(p2, PartOf(SEQUENCE, n3))
           p4 == Append(p3, PartOf(SEQUENCE, o2))
           p5 == Append(p4, PartOf(SEQUENCE, n5))
           p6 == Append(p5, PartOf(SEQUENCE, key))
<1>1. INTEGER \in Tags /\ SEQUENCE \in Tags
  BY TagsHave
<1>2. c.issuer \in Seq(Seq(Attr)) /\ c.subject \in Seq(Seq(Attr)) /\ c.extensions \in Seq(Ext)
      /\ c.keyLength \in Nat
  BY DEF Cert
<1>3. o1 \in Octets /\ o2 \in Octets /\ n3 \in Octets /\ n5 \in Octets
  BY <1>2, NameReads DEF Octets
<1>4. key \in Octets
  <2>1. key \in [1..c.keyLength -> 0..255]
    OBVIOUS
  <2> HIDE DEF key
  <2> QED
    BY <1>2, <2>1, FunctionIsSeq DEF Octets
<1>5. EncodedCertificate(c)
      = Encoded(SEQUENCE, Encoded(SEQUENCE, (t6 \o UniqueOf(c)) \o ExtensionsOf(c)))
  <2>1. EncodedName(c.issuer) = Encoded(SEQUENCE, n3) /\ EncodedName(c.subject) = Encoded(SEQUENCE, n5)
    BY <1>2, EncodedNameIs
  <2>2. InTurn(c.extensions, EncodedExtension) = ExtensionsContent(c.extensions)
    BY <1>2, EncodedExtensionsAre
  <2> HIDE DEF n3, n5, key
  <2>3. EncodedCertificate(c)
        = Encoded(SEQUENCE, Encoded(SEQUENCE,
              (((((((v \o Encoded(INTEGER, o1)) \o Encoded(SEQUENCE, o2))
              \o EncodedName(c.issuer)) \o Encoded(SEQUENCE, o2)) \o EncodedName(c.subject))
              \o Encoded(SEQUENCE, key)) \o UniqueOf(c))
              \o (IF c.extensions = <<>> THEN <<>>
                  ELSE Encoded(EXTENSIONS, Encoded(SEQUENCE, InTurn(c.extensions, EncodedExtension))))))
    BY DEF EncodedCertificate, VersionOf, UniqueOf, key
  <2>4. ExtensionsOf(c)
        = IF c.extensions = <<>> THEN <<>>
          ELSE Encoded(EXTENSIONS, Encoded(SEQUENCE, InTurn(c.extensions, EncodedExtension)))
    BY <2>2 DEF ExtensionsOf
  <2> HIDE DEF o1, o2, v
  <2> QED
    BY <2>1, <2>3, <2>4
<1> HIDE DEF o1, o2, n3, n5, key
<1>6. Row(v, v, p0)
  BY VersionType, RowOfNone
<1> HIDE DEF p0, v
<1>7. Row(t1, v, p1)
  BY <1>1, <1>3, <1>6, RowGrows
<1> HIDE DEF t1, p1
<1>8. Row(t2, v, p2)
  BY <1>1, <1>3, <1>7, RowGrows
<1> HIDE DEF t2, p2
<1>9. Row(t3, v, p3)
  BY <1>1, <1>3, <1>8, RowGrows
<1> HIDE DEF t3, p3
<1>10. Row(t4, v, p4)
  BY <1>1, <1>3, <1>9, RowGrows
<1> HIDE DEF t4, p4
<1>11. Row(t5, v, p5)
  BY <1>1, <1>3, <1>10, RowGrows
<1> HIDE DEF t5, p5
<1>12. Row(t6, v, p6)
  BY <1>1, <1>3, <1>4, <1>11, RowGrows
<1> HIDE DEF t6, p6
<1>13. SixFields(c, p6)
  <2> DEFINE a == PartOf(INTEGER, o1)
             b == PartOf(SEQUENCE, o2)
             i3 == PartOf(SEQUENCE, n3)
             i5 == PartOf(SEQUENCE, n5)
             i6 == PartOf(SEQUENCE, key)
  <2>1. a \in Part /\ b \in Part /\ i3 \in Part /\ i5 \in Part /\ i6 \in Part
    BY <1>1, <1>3, <1>4 DEF PartOf, Part
  <2>2. /\ a.tag = INTEGER /\ b.tag = SEQUENCE /\ i3.tag = SEQUENCE /\ i5.tag = SEQUENCE
        /\ i6.tag = SEQUENCE /\ i3.content = n3 /\ i5.content = n5
    BY DEF PartOf
  <2> HIDE DEF a, b, i3, i5, i6
  <2>3. p0 \in Seq(Part) /\ Len(p0) = 0
    BY EmptySeq DEF p0
  <2>4. /\ p1 \in Seq(Part) /\ Len(p1) = 1
        /\ p1[1] = a
    <3>1. a \in Part /\ p0 \in Seq(Part) /\ Len(p0) = 0
      BY <2>1, <2>3
    <3>2. Adds(p1, p0, a, 0, 1)
      BY <3>1 DEF Adds, p1, a
    <3>3. Added(p1, p0, a, 0, 1)
      BY <3>2, PartAdded
    <3> QED
      BY <2>3, <3>3 DEF Added
  <2>5. /\ p2 \in Seq(Part) /\ Len(p2) = 2
        /\ p2[1] = a /\ p2[2] = b
    <3>1. b \in Part /\ p1 \in Seq(Part) /\ Len(p1) = 1
      BY <2>1, <2>4
    <3>2. Adds(p2, p1, b, 1, 2)
      BY <3>1 DEF Adds, p2, b
    <3>3. Added(p2, p1, b, 1, 2)
      BY <3>2, PartAdded
    <3> QED
      BY <2>4, <3>3 DEF Added
  <2>6. /\ p3 \in Seq(Part) /\ Len(p3) = 3
        /\ p3[1] = a /\ p3[2] = b /\ p3[3] = i3
    <3>1. i3 \in Part /\ p2 \in Seq(Part) /\ Len(p2) = 2
      BY <2>1, <2>5
    <3>2. Adds(p3, p2, i3, 2, 3)
      BY <3>1 DEF Adds, p3, i3
    <3>3. Added(p3, p2, i3, 2, 3)
      BY <3>2, PartAdded
    <3> QED
      BY <2>5, <3>3 DEF Added
  <2>7. /\ p4 \in Seq(Part) /\ Len(p4) = 4
        /\ p4[1] = a /\ p4[2] = b /\ p4[3] = i3 /\ p4[4] = b
    <3>1. b \in Part /\ p3 \in Seq(Part) /\ Len(p3) = 3
      BY <2>1, <2>6
    <3>2. Adds(p4, p3, b, 3, 4)
      BY <3>1 DEF Adds, p4, b
    <3>3. Added(p4, p3, b, 3, 4)
      BY <3>2, PartAdded
    <3> QED
      BY <2>6, <3>3 DEF Added
  <2>8. /\ p5 \in Seq(Part) /\ Len(p5) = 5
        /\ p5[1] = a /\ p5[2] = b /\ p5[3] = i3 /\ p5[4] = b /\ p5[5] = i5
    <3>1. i5 \in Part /\ p4 \in Seq(Part) /\ Len(p4) = 4
      BY <2>1, <2>7
    <3>2. Adds(p5, p4, i5, 4, 5)
      BY <3>1 DEF Adds, p5, i5
    <3>3. Added(p5, p4, i5, 4, 5)
      BY <3>2, PartAdded
    <3> QED
      BY <2>7, <3>3 DEF Added
  <2>9. /\ p6 \in Seq(Part) /\ Len(p6) = 6
        /\ p6[1] = a /\ p6[2] = b /\ p6[3] = i3 /\ p6[4] = b /\ p6[5] = i5 /\ p6[6] = i6
    <3>1. i6 \in Part /\ p5 \in Seq(Part) /\ Len(p5) = 5
      BY <2>1, <2>8
    <3>2. Adds(p6, p5, i6, 5, 6)
      BY <3>1 DEF Adds, p6, i6
    <3>3. Added(p6, p5, i6, 5, 6)
      BY <3>2, PartAdded
    <3> QED
      BY <2>8, <3>3 DEF Added
  <2> QED
    BY <2>2, <2>9 DEF SixFields, n3, n5
<1> QED
  BY <1>5, <1>12, <1>13 DEF v

\* The lists of names that what follows the six fields has.
TrailingLists(q) == [i \in 1..(Len(q) - 6) |-> Trailer(q[i + 6]).lists]

Trails(S, q, lists) ==
    /\ q \in Seq(Part) /\ Len(q) \in Nat /\ Len(q) >= 6
    /\ \A i \in 7..Len(q) : Trailer(q[i]).ok
    /\ TrailingLists(q) \in Seq(Seq(S))
    /\ FlattenSeq(TrailingLists(q)) = lists

LEMMA TrailsNone ==
    ASSUME NEW S, NEW q \in Seq(Part), Len(q) = 6
    PROVE  Trails(S, q, <<>>)
<1>1. TrailingLists(q) = <<>>
  BY DEF TrailingLists
<1>2. <<>> \in Seq(Seq(S))
  BY EmptySeq
<1> QED
  BY <1>1, <1>2, FlattenEmpty DEF Trails

LEMMA TrailsMore ==
    ASSUME NEW S, NEW q, NEW lists, Trails(S, q, lists), NEW x \in Part,
           NEW more \in Seq(S), Trailer(x).ok, Trailer(x).lists = more
    PROVE  Trails(S, Append(q, x), lists \o more)
<1> DEFINE n == Len(q)
           r == Append(q, x)
           a == TrailingLists(q)
           b == TrailingLists(r)
<1>1. /\ q \in Seq(Part) /\ n \in Nat /\ n >= 6 /\ a \in Seq(Seq(S)) /\ FlattenSeq(a) = lists
      /\ \A i \in 7..n : Trailer(q[i]).ok
  BY DEF Trails
<1>2. /\ r \in Seq(Part) /\ Len(r) = n + 1 /\ r[n + 1] = x
      /\ \A i \in 1..n : r[i] = q[i]
  BY <1>1, AppendProperties
<1> HIDE DEF r, n
<1>3. \A i \in 7..Len(r) : Trailer(r[i]).ok
  BY <1>1, <1>2
<1>4. b = Append(a, more)
  <2> DEFINE m == n - 6
             f == Append(a, more)
  <2>1. m \in Nat /\ n - 6 = m /\ Len(r) - 6 = m + 1 /\ n + 1 = (m + 1) + 6
    BY <1>1, <1>2
  <2>2. a = [i \in 1..m |-> Trailer(q[i + 6]).lists]
    BY DEF TrailingLists, n
  <2>3. b = [i \in 1..(m + 1) |-> Trailer(r[i + 6]).lists]
    BY <2>1 DEF TrailingLists
  <2> HIDE DEF m, a, b
  <2>4. Len(a) = m
    <3>1. DOMAIN a = 1..m
      BY <2>2
    <3> QED
      BY <1>1, <2>1, <3>1, LenProperties
  <2>5. /\ DOMAIN f = 1..(m + 1) /\ f[m + 1] = more
        /\ \A i \in 1..m : f[i] = a[i]
    BY <1>1, <2>1, <2>4, AppendProperties, LenProperties
  <2>6. f = [i \in 1..(m + 1) |-> f[i]]
    <3>1. f \in Seq(Seq(S))
      BY <1>1, AppendProperties
    <3> HIDE DEF f
    <3> QED
      BY <2>5, <3>1
  <2> HIDE DEF f
  <2>7. ASSUME NEW i \in 1..(m + 1) PROVE f[i] = Trailer(r[i + 6]).lists
    <3>1. CASE i = m + 1
      BY <1>2, <2>1, <2>5, <3>1
    <3>2. CASE i # m + 1
      <4>1. i \in 1..m
        BY <2>1, <3>2
      <4>2. i + 6 \in 1..n
        <5>1. n = m + 6
          BY <1>1, <2>1
        <5> QED
          BY <2>1, <4>1, <5>1
      <4> QED
        BY <1>2, <2>2, <2>5, <4>1, <4>2
    <3> QED
      BY <3>1, <3>2
  <2>8. b = f
    BY <2>3, <2>6, <2>7
  <2> QED
    BY <2>8 DEF f
<1> HIDE DEF a, b
<1>5. b \in Seq(Seq(S)) /\ FlattenSeq(b) = lists \o more
  BY <1>1, <1>4, AppendProperties, FlattenAppend
<1>6. Len(r) \in Nat /\ Len(r) >= 6
  BY <1>1, <1>2
<1> QED
  BY <1>2, <1>3, <1>5, <1>6 DEF Trails, r, b

KnownLists == {Known(x.names) : x \in Ext}

LEMMA ListOfType == ASSUME NEW x \in Ext PROVE ListOf(x) \in Seq(KnownLists)
<1> DEFINE k == Known(x.names)
<1>1. k \in KnownLists
  BY DEF KnownLists
<1> HIDE DEF k
<1>2. <<k>> \in Seq(KnownLists) /\ <<>> \in Seq(KnownLists)
  BY <1>1
<1> QED
  BY <1>2 DEF ListOf, k

LEMMA ListsOfType ==
    ASSUME NEW exts \in Seq(Ext)
    PROVE  /\ FlattenSeq(ListsOf(exts)) \in Seq(KnownLists)
           /\ exts = <<>> => FlattenSeq(ListsOf(exts)) = <<>>
<1> DEFINE n == Len(exts)
           s == ListsOf(exts)
<1>1. n \in Nat /\ DOMAIN exts = 1..n /\ \A i \in 1..n : exts[i] \in Ext
  BY LenProperties, ElementOfSeq
<1>2. s \in [1..n -> Seq(KnownLists)]
  BY <1>1, ListOfType DEF ListsOf
<1>3. ASSUME exts = <<>> PROVE s = <<>>
  BY <1>3 DEF ListsOf
<1> HIDE DEF s
<1>4. s \in Seq(Seq(KnownLists))
  BY <1>1, <1>2, FunctionIsSeq
<1>5. FlattenSeq(s) \in Seq(KnownLists)
  BY <1>4, FlattenLength
<1> QED
  BY <1>3, <1>5, FlattenEmpty DEF s

\* What follows the six fields is a unique identifier or not, and the
\* extensions or not.
LEMMA UniqueEncoded ==
    ASSUME NEW c \in Cert, NEW t, NEW v, NEW p, Row(t, v, p), Len(p) = 6
    PROVE  \E q : /\ Row(t \o UniqueOf(c), v, q) /\ Trails(KnownLists, q, <<>>)
                  /\ \A i \in 1..6 : q[i] = p[i]
<1>1. t \in Octets /\ p \in Seq(Part) /\ c.uniqueID \in BOOLEAN
  BY DEF Row, Cert
<1>2. Trails(KnownLists, p, <<>>)
  BY <1>1, TrailsNone
<1>3. CASE c.uniqueID
  <2> DEFINE o == <<0, 1>>
             x == PartOf(129, o)
             q == Append(p, x)
  <2>1. o \in Octets
    BY DEF Octets
  <2>2. UniqueOf(c) = Encoded(129, o)
    BY <1>3 DEF UniqueOf
  <2> HIDE DEF o
  <2>3. x \in Part /\ 129 \in Tags /\ x.tag # EXTENSIONS
    <3>1. 129 \in Tags
      BY DEF Tags
    <3>2. 129 # EXTENSIONS
      BY DEF EXTENSIONS
    <3> QED
      BY <2>1, <3>1, <3>2 DEF PartOf, Part
  <2>4. Row(t \o UniqueOf(c), v, q)
    <3>1. Row(t \o Encoded(129, o), v, q)
      BY <2>1, <2>3, RowGrows
    <3> QED
      BY <2>2, <3>1
  <2>5. Trails(KnownLists, q, <<>>)
    <3> DEFINE none == <<>>
    <3>1. Trailer(x).ok /\ Trailer(x).lists = none
      BY <2>3 DEF Trailer
    <3>2. none \in Seq(KnownLists) /\ none \o none = none
      BY EmptySeq, ConcatEmptySeq
    <3>3. Trails(KnownLists, p, none)
      BY <1>2
    <3> HIDE DEF none, x
    <3>4. Trails(KnownLists, Append(p, x), none \o none)
      BY <2>3, <3>1, <3>2, <3>3, TrailsMore
    <3>5. Trails(KnownLists, q, none)
      BY <3>2, <3>4
    <3> QED
      BY <3>5 DEF none
  <2>6. \A i \in 1..6 : q[i] = p[i]
    <3> HIDE DEF x
    <3>1. Adds(q, p, x, 6, 7)
      BY <1>1, <2>3 DEF Adds
    <3>2. Added(q, p, x, 6, 7)
      BY <3>1, PartAdded
    <3> QED
      BY <3>2 DEF Added
  <2> QED
    BY <2>4, <2>5, <2>6
<1>4. CASE ~c.uniqueID
  <2>1. UniqueOf(c) = <<>>
    BY <1>4 DEF UniqueOf
  <2>2. t \o UniqueOf(c) = t
    BY <1>1, <2>1, ConcatEmptySeq DEF Octets
  <2> QED
    BY <1>2, <2>2
<1> QED
  BY <1>1, <1>3, <1>4

LEMMA ExtensionsEncoded ==
    ASSUME NEW c \in Cert, NEW t, NEW v, NEW p, Row(t, v, p), Trails(KnownLists, p, <<>>),
           Short(t \o ExtensionsOf(c))
    PROVE  \E q : /\ Row(t \o ExtensionsOf(c), v, q)
                  /\ Trails(KnownLists, q, FlattenSeq(ListsOf(c.extensions)))
                  /\ \A i \in 1..6 : q[i] = p[i]
<1> DEFINE exts == c.extensions
           lists == FlattenSeq(ListsOf(exts))
           s == ExtensionsContent(exts)
           w == Encoded(SEQUENCE, s)
           e == Encoded(EXTENSIONS, w)
           x == PartOf(EXTENSIONS, w)
           q == Append(p, x)
<1>1. t \in Octets /\ p \in Seq(Part) /\ exts \in Seq(Ext) /\ Len(p) \in Nat /\ Len(p) >= 6
  BY DEF Row, Cert, Trails
<1>2. lists \in Seq(KnownLists) /\ (exts = <<>> => lists = <<>>)
  BY <1>1, ListsOfType
<1>3. s \in Octets /\ (Short(s) => Lists(Each(s, SEQUENCE, Extension)) = ListsRead(exts))
  BY <1>1, ExtensionsAreRead
<1>4. SEQUENCE \in Tags /\ EXTENSIONS \in Tags /\ SEQUENCE \in 0..255 /\ EXTENSIONS \in 0..255
  BY TagsHave
<1>5. CASE exts = <<>>
  <2>1. ExtensionsOf(c) = <<>>
    BY <1>5 DEF ExtensionsOf
  <2>2. t \o ExtensionsOf(c) = t
    BY <1>1, <2>1, ConcatEmptySeq DEF Octets
  <2>3. lists = <<>>
    BY <1>2, <1>5
  <2> HIDE DEF lists
  <2> QED
    BY <2>2, <2>3 DEF lists
<1>6. CASE exts # <<>>
  <2>1. ExtensionsOf(c) = e
    BY <1>6 DEF ExtensionsOf
  <2> HIDE DEF s
  <2>2. w \in Octets
    BY <1>3, <1>4, EncodedType
  <2> HIDE DEF w
  <2>3. e \in Octets
    BY <1>4, <2>2, EncodedType
  <2>4. Short(e)
    <3> HIDE DEF e
    <3> QED
      BY <1>1, <2>1, <2>3, ShortCat
  <2>5. Short(w)
    BY <1>4, <2>2, <2>4, ShortEncoded
  <2>6. Short(s)
    BY <1>3, <1>4, <2>5, ShortEncoded DEF w
  <2>7. Row(t \o e, v, q)
    BY <1>4, <2>2, RowGrows
  <2>8. x \in Part /\ x.tag = EXTENSIONS /\ x.content = w
    BY <1>4, <2>2 DEF PartOf, Part
  <2> HIDE DEF x, lists, e
  <2>9. Trailer(x).ok /\ Trailer(x).lists = lists
    <3>1. expect(w, SEQUENCE) = Found(SEQUENCE, s, <<>>)
      BY <1>4, <2>6, ElementWhole DEF w
    <3>2. Found(SEQUENCE, s, <<>>).ok /\ Found(SEQUENCE, s, <<>>).content = s
      BY DEF Found
    <3>3. Trailer(x) = Lists(Each(s, SEQUENCE, Extension))
      BY <2>8, <3>1, <3>2 DEF Trailer
    <3>4. Trailer(x) = ListsRead(exts)
      BY <1>3, <2>6, <3>3
    <3> QED
      BY <3>4 DEF ListsRead, lists
  <2>10. Trails(KnownLists, q, lists)
    <3> DEFINE none == <<>>
    <3>1. none \o lists = lists
      BY <1>2, ConcatEmptySeq
    <3>2. Trails(KnownLists, p, none)
      OBVIOUS
    <3> HIDE DEF none
    <3>3. Trails(KnownLists, Append(p, x), none \o lists)
      BY <1>2, <2>8, <2>9, <3>2, TrailsMore
    <3> QED
      BY <3>1, <3>3
  <2>11. \A i \in 1..6 : q[i] = p[i]
    BY <1>1, <2>8, AppendProperties
  <2> QED
    BY <2>1, <2>7, <2>10, <2>11 DEF lists
<1> QED
  BY <1>5, <1>6

LEMMA ExtensionsOfType == ASSUME NEW c \in Cert PROVE ExtensionsOf(c) \in Octets
<1> DEFINE s == ExtensionsContent(c.extensions)
           w == Encoded(SEQUENCE, s)
           e == Encoded(EXTENSIONS, w)
<1>1. c.extensions \in Seq(Ext)
  BY DEF Cert
<1>2. s \in Octets
  BY <1>1, ExtensionsAreRead
<1>3. SEQUENCE \in 0..255 /\ EXTENSIONS \in 0..255
  BY TagsHave
<1> HIDE DEF s
<1>4. w \in Octets
  BY <1>2, <1>3, EncodedType
<1> HIDE DEF w
<1>5. e \in Octets
  BY <1>3, <1>4, EncodedType
<1> HIDE DEF e
<1>6. <<>> \in Octets
  BY DEF Octets
<1> QED
  BY <1>5, <1>6 DEF ExtensionsOf, e, w, s

LEMMA AfterOther ==
    ASSUME NEW p \in Seq(Part), Len(p) > 0, NEW other, p[1].tag # other
    PROVE  After(FlattenSeq(Codes(p)), other) = FlattenSeq(Codes(p))
<1> DEFINE c == Codes(p)
           s == FlattenSeq(c)
<1>1. /\ c \in Seq(Octets) /\ Len(c) = Len(p) /\ Len(p) \in Nat
      /\ c[1] = Encoded(p[1].tag, p[1].content)
  BY CodesType, LenProperties
<1>2. p[1] \in Part
  BY <1>1, ElementOfSeq
<1>3. p[1].tag \in 0..255 /\ p[1].content \in Octets
  BY <1>2 DEF Part, Tags
<1>4. c[1] \in Octets /\ c[1][1] = p[1].tag /\ Len(c[1]) > 0
  <2> DEFINE e == Encoded(p[1].tag, p[1].content)
  <2>1. e \in Octets /\ Len(p[1].content) < Len(e) /\ e[1] = p[1].tag
    BY <1>3, EncodedType
  <2>2. Len(p[1].content) \in Nat
    BY <1>3, LenProperties DEF Octets
  <2> HIDE DEF e
  <2>3. Len(e) > 0
    BY <2>1, <2>2, LenProperties DEF Octets
  <2> QED
    BY <1>1, <2>1, <2>3 DEF e
<1> HIDE DEF c
<1>5. c # <<>> /\ c[1] # <<>>
  BY <1>1, <1>4
<1>6. s[1] = p[1].tag
  BY <1>1, <1>4, <1>5, FlattenFirst DEF Octets
<1> HIDE DEF s
<1>7. After(s, other) = s
  BY <1>6 DEF After
<1> QED
  BY <1>7 DEF s, c

\* What is read off a certificate.
CertificateRead(c) ==
    LET lists == FlattenSeq(ListsOf(c.extensions))
    IN  [ok |-> TRUE, issuer |-> NameText(Reverse(c.issuer)),
         subject |-> NameText(Reverse(c.subject)),
         subject_alt_names |-> IF lists = <<>> THEN <<>> ELSE Last(lists)]

\* The parts of a certificate, as they are in it.
CertificateParts(c, q) ==
    /\ Trails(KnownLists, q, FlattenSeq(ListsOf(c.extensions)))
    /\ q[1].tag = INTEGER /\ q[2].tag = SEQUENCE /\ q[3].tag = SEQUENCE
    /\ q[4].tag = SEQUENCE /\ q[5].tag = SEQUENCE /\ q[6].tag = SEQUENCE
    /\ q[3].content = NameContent(c.issuer) /\ q[5].content = NameContent(c.subject)

LEMMA EncodedCertificateType == ASSUME NEW c \in Cert PROVE EncodedCertificate(c) \in Octets
<1> DEFINE u == UniqueOf(c)
           x == ExtensionsOf(c)
<1>1. PICK t, p : /\ Row(t, VersionOf(c), p) /\ SixFields(c, p)
                  /\ EncodedCertificate(c) = Encoded(SEQUENCE, Encoded(SEQUENCE, (t \o u) \o x))
  BY FieldsEncoded
<1>2. PICK q : Row(t \o u, VersionOf(c), q)
  BY <1>1, UniqueEncoded DEF SixFields
<1> DEFINE T == (t \o u) \o x
           w == Encoded(SEQUENCE, T)
<1>3. SEQUENCE \in 0..255
  BY TagsHave
<1>4. x \in Octets /\ t \o u \in Octets
  BY <1>2, ExtensionsOfType DEF Row
<1> HIDE DEF x
<1>5. T \in Octets
  <2> DEFINE a == t \o u
  <2>1. a \in Octets
    BY <1>4
  <2> HIDE DEF a
  <2>2. a \o x \in Octets
    BY <1>4, <2>1, OctetsCat
  <2> QED
    BY <2>2 DEF a
<1> HIDE DEF T
<1>6. w \in Octets
  BY <1>3, <1>5, EncodedType
<1> HIDE DEF w
<1>7. Encoded(SEQUENCE, w) \in Octets
  BY <1>3, <1>6, EncodedType
<1> QED
  BY <1>1, <1>7 DEF w, T

\* A certificate short enough for TLS is its version and parts that are short.
LEMMA CertificateHasParts ==
    ASSUME NEW c \in Cert, Short(EncodedCertificate(c))
    PROVE  \E t, q : /\ EncodedCertificate(c) = Encoded(SEQUENCE, Encoded(SEQUENCE, t))
                     /\ Short(t) /\ Short(Encoded(SEQUENCE, t))
                     /\ Row(t, VersionOf(c), q) /\ CertificateParts(c, q)
<1> DEFINE u == UniqueOf(c)
           x == ExtensionsOf(c)
           v == VersionOf(c)
<1>1. PICK t, p : /\ Row(t, v, p) /\ SixFields(c, p)
                  /\ EncodedCertificate(c) = Encoded(SEQUENCE, Encoded(SEQUENCE, (t \o u) \o x))
  BY FieldsEncoded
<1> DEFINE T == (t \o u) \o x
           w == Encoded(SEQUENCE, T)
<1>2. Len(p) = 6
  BY <1>1 DEF SixFields
<1>3. PICK q1 : Row(t \o u, v, q1) /\ Trails(KnownLists, q1, <<>>) /\ \A i \in 1..6 : q1[i] = p[i]
  BY <1>1, <1>2, UniqueEncoded
<1>4. SEQUENCE \in 0..255
  BY TagsHave
<1>5. x \in Octets /\ t \o u \in Octets
  BY <1>3, ExtensionsOfType DEF Row
<1> HIDE DEF x
<1>6. T \in Octets
  <2> DEFINE a == t \o u
  <2>1. a \in Octets
    BY <1>5
  <2> HIDE DEF a
  <2>2. a \o x \in Octets
    BY <1>5, <2>1, OctetsCat
  <2> QED
    BY <2>2 DEF a
<1> HIDE DEF T
<1>7. w \in Octets
  BY <1>4, <1>6, EncodedType
<1>8. Short(w)
  <2>1. Short(Encoded(SEQUENCE, w))
    BY <1>1 DEF T
  <2> HIDE DEF w
  <2> QED
    BY <1>4, <1>7, <2>1, ShortEncoded
<1>9. Short(T)
  BY <1>4, <1>6, <1>8, ShortEncoded
<1>10. PICK q : /\ Row((t \o u) \o x, v, q)
                /\ Trails(KnownLists, q, FlattenSeq(ListsOf(c.extensions)))
                /\ \A i \in 1..6 : q[i] = q1[i]
  <2>1. Short((t \o u) \o x)
    BY <1>9 DEF T
  <2> QED
    BY <1>3, <2>1, ExtensionsEncoded DEF x
<1>11. CertificateParts(c, q)
  <2>1. /\ q[1] = p[1] /\ q[2] = p[2] /\ q[3] = p[3] /\ q[4] = p[4] /\ q[5] = p[5] /\ q[6] = p[6]
    BY <1>3, <1>10
  <2> QED
    BY <1>1, <1>10, <2>1 DEF CertificateParts, SixFields
<1>12. EncodedCertificate(c) = Encoded(SEQUENCE, Encoded(SEQUENCE, T)) /\ Row(T, v, q)
  BY <1>1, <1>10 DEF T
<1> QED
  BY <1>8, <1>9, <1>11, <1>12

\* From the parts FieldNames has the names.
LEMMA FieldsAreRead ==
    ASSUME NEW c \in Cert, NEW q, CertificateParts(c, q), NEW s, s = FlattenSeq(Codes(q)), Short(s)
    PROVE  FieldNames(elements[s]) = CertificateRead(c)
<1> DEFINE found == elements[s]
           n == Len(q)
           issuer == NameContent(c.issuer)
           subject == NameContent(c.subject)
           lists == FlattenSeq(ListsOf(c.extensions))
           trailers == [i \in 1..(n - 6) |-> Trailer(found[i + 6])]
<1>1. /\ q \in Seq(Part) /\ n \in Nat /\ n >= 6
      /\ \A i \in 7..n : Trailer(q[i]).ok
      /\ FlattenSeq(TrailingLists(q)) = lists
  BY DEF CertificateParts, Trails
<1>2. c.issuer \in Seq(Seq(Attr)) /\ c.subject \in Seq(Seq(Attr))
  BY DEF Cert
<1>3. Spread(found, q)
  BY <1>1, PartsAreRead DEF Short
<1>4. Len(found) = n
  <2>1. found \in Seq(ElementOrBroken)
    BY ElementsAre DEF Short
  <2> HIDE DEF found
  <2>2. DOMAIN found = 1..n
    BY <1>3 DEF Spread
  <2> QED
    BY <1>1, <2>1, <2>2, LenProperties
<1> HIDE DEF found
<1>5. /\ DOMAIN found = 1..n
      /\ \A i \in 1..n : found[i].ok /\ found[i].tag = q[i].tag /\ found[i].content = q[i].content
  BY <1>3 DEF Spread
<1>6. Short(issuer) /\ Short(subject)
  <2>1. \A i \in 1..n : Short(q[i].content)
    BY <1>1, ShortCodes
  <2>2. 3 \in 1..n /\ 5 \in 1..n
    BY <1>1
  <2> QED
    BY <2>1, <2>2 DEF CertificateParts
<1>7. /\ distinguished_name[issuer] = NameRead(c.issuer)
      /\ distinguished_name[subject] = NameRead(c.subject)
  BY <1>2, <1>6, NameReads
<1> HIDE DEF issuer, subject, lists, n
<1>8. found[3].content = issuer /\ found[5].content = subject
  BY <1>1, <1>5 DEF CertificateParts, issuer, subject
<1>9. \A i \in 1..6 : found[i].tag = Fields[i]
  <2>1. /\ found[1].tag = INTEGER /\ found[2].tag = SEQUENCE /\ found[3].tag = SEQUENCE
        /\ found[4].tag = SEQUENCE /\ found[5].tag = SEQUENCE /\ found[6].tag = SEQUENCE
    BY <1>1, <1>5 DEF CertificateParts
  <2>2. /\ Fields[1] = INTEGER /\ Fields[2] = SEQUENCE /\ Fields[3] = SEQUENCE
        /\ Fields[4] = SEQUENCE /\ Fields[5] = SEQUENCE /\ Fields[6] = SEQUENCE
    BY DEF Fields
  <2>3. \A i \in 1..6 : i = 1 \/ i = 2 \/ i = 3 \/ i = 4 \/ i = 5 \/ i = 6
    OBVIOUS
  <2> QED
    BY <2>1, <2>2, <2>3
<1>10. FieldNames(found) = Names(NameRead(c.issuer), NameRead(c.subject), trailers)
  <2>1. AllRead(found)
    BY <1>5 DEF AllRead
  <2>2. FieldNames(found)
        = Names(distinguished_name[found[3].content], distinguished_name[found[5].content],
                [i \in 1..(Len(found) - 6) |-> Trailer(found[i + 6])])
    BY <1>1, <1>4, <1>9, <2>1 DEF FieldNames
  <2> QED
    BY <1>4, <1>7, <1>8, <2>2
<1>11. \A i \in 1..(n - 6) : Trailer(found[i + 6]) = Trailer(q[i + 6]) /\ Trailer(q[i + 6]).ok
  <2>1. ASSUME NEW i \in 1..(n - 6) PROVE Trailer(found[i + 6]) = Trailer(q[i + 6])
                                          /\ Trailer(q[i + 6]).ok
    <3>1. i + 6 \in 1..n /\ i + 6 \in 7..n
      BY <1>1
    <3>2. found[i + 6].tag = q[i + 6].tag /\ found[i + 6].content = q[i + 6].content
      BY <1>5, <3>1
    <3>3. Trailer(found[i + 6]) = Trailer(q[i + 6])
      BY <3>2 DEF Trailer
    <3> QED
      BY <1>1, <3>1, <3>3
  <2> QED
    BY <2>1
<1>12. AllRead(trailers)
  BY <1>11 DEF AllRead
<1>13. [i \in DOMAIN trailers |-> trailers[i].lists] = TrailingLists(q)
  BY <1>11 DEF TrailingLists, n
<1> HIDE DEF trailers
<1>14. /\ NameRead(c.issuer).ok /\ NameRead(c.issuer).text = NameText(Reverse(c.issuer))
       /\ NameRead(c.subject).ok /\ NameRead(c.subject).text = NameText(Reverse(c.subject))
  BY DEF NameRead
<1>15. FlattenSeq([i \in DOMAIN trailers |-> trailers[i].lists]) = lists
  BY <1>1, <1>13
<1> QED
  BY <1>10, <1>12, <1>14, <1>15 DEF Names, CertificateRead, lists, found

\* The names read off any certificate are those it has.
LEMMA CertificateReads ==
    ASSUME NEW c \in Cert, Short(EncodedCertificate(c))
    PROVE  names[EncodedCertificate(c)] = CertificateRead(c)
<1> DEFINE e == EncodedCertificate(c)
           v == VersionOf(c)
<1>1. PICK t, q : /\ e = Encoded(SEQUENCE, Encoded(SEQUENCE, t))
                  /\ Short(t) /\ Short(Encoded(SEQUENCE, t))
                  /\ Row(t, v, q) /\ CertificateParts(c, q)
  BY CertificateHasParts
<1> DEFINE w == Encoded(SEQUENCE, t)
           s == FlattenSeq(Codes(q))
<1>2. SEQUENCE \in Tags /\ VERSION \in Tags /\ INTEGER \in 0..255 /\ VERSION \in 0..255
  BY TagsHave
<1>3. expect(e, SEQUENCE) = Found(SEQUENCE, w, <<>>)
  <2>1. Short(w) /\ e = Encoded(SEQUENCE, w)
    BY <1>1
  <2> HIDE DEF w, e
  <2> QED
    BY <1>2, <2>1, ElementWhole
<1>4. expect(w, SEQUENCE) = Found(SEQUENCE, t, <<>>)
  BY <1>1, <1>2, ElementWhole
<1>5. /\ v \in Octets /\ q \in Seq(Part) /\ t = v \o s
      /\ Len(q) \in Nat /\ Len(q) >= 6 /\ q[1].tag = INTEGER
  BY <1>1 DEF Row, CertificateParts, Trails
<1>6. s \in Octets
  <2>1. Codes(q) \in Seq(Octets)
    BY <1>5, CodesType
  <2> QED
    BY <2>1, FlattenLength DEF Octets
<1> HIDE DEF s
<1>7. Short(v) /\ Short(s)
  <2> HIDE DEF v
  <2> QED
    BY <1>1, <1>5, <1>6, ShortCat
<1>8. After(t, VERSION) = s
  <2>1. CASE c.v1
    <3>1. v = <<>>
      BY <2>1 DEF VersionOf
    <3>2. t = s
      <4> HIDE DEF v
      <4> QED
        BY <1>5, <1>6, <3>1, ConcatEmptySeq DEF Octets
    <3>3. INTEGER # VERSION
      BY DEF INTEGER, VERSION
    <3>4. After(s, VERSION) = s
      BY <1>5, <3>3, AfterOther DEF s
    <3> QED
      BY <3>2, <3>4
  <2>2. CASE ~c.v1
    <3> DEFINE y == Encoded(INTEGER, <<2>>)
    <3>1. v = Encoded(VERSION, y)
      BY <2>2 DEF VersionOf
    <3>2. y \in Octets
      <4> DEFINE o == <<2>>
      <4>1. o \in Octets
        BY DEF Octets
      <4> HIDE DEF o
      <4>2. Encoded(INTEGER, o) \in Octets
        BY <1>2, <4>1, EncodedType
      <4> QED
        BY <4>2 DEF o
    <3> HIDE DEF y, v
    <3>3. Short(y)
      BY <1>2, <1>7, <3>1, <3>2, ShortEncoded
    <3>4. After(Encoded(VERSION, y) \o s, VERSION) = s
      BY <1>2, <1>6, <3>3, AfterPresent
    <3> QED
      BY <1>5, <3>1, <3>4
  <2> QED
    BY <2>1, <2>2
<1>9. FieldNames(elements[s]) = CertificateRead(c)
  <2>1. s = FlattenSeq(Codes(q))
    BY DEF s
  <2> QED
    BY <1>1, <1>7, <2>1, FieldsAreRead
<1>10. e \in Octets
  BY DEF Short
<1>11. /\ Found(SEQUENCE, w, <<>>).ok /\ Found(SEQUENCE, w, <<>>).content = w
       /\ Found(SEQUENCE, t, <<>>).ok /\ Found(SEQUENCE, t, <<>>).content = t
  BY DEF Found
<1> HIDE DEF e, w
<1>12. names[e] = FieldNames(elements[After(t, VERSION)])
  BY <1>3, <1>4, <1>10, <1>11 DEF names
<1> QED
  BY <1>8, <1>9, <1>12 DEF e

-----------------------------------------------------------------------------
(* Texts that can be taken apart.                                           *)

LEMMA FlattenConcat ==
    ASSUME NEW S, NEW a \in Seq(Seq(S))
    PROVE  \A b \in Seq(Seq(S)) : FlattenSeq(a \o b) = FlattenSeq(a) \o FlattenSeq(b)
<1> DEFINE T == Seq(S)
           G == {b \in Seq(T) : FlattenSeq(a \o b) = FlattenSeq(a) \o FlattenSeq(b)}
<1>1. <<>> \in G
  <2>1. FlattenSeq(a) \in Seq(S) /\ a \o <<>> = a
    BY FlattenAppend, EmptySeq, ConcatEmptySeq
  <2> QED
    BY <2>1, FlattenEmpty, ConcatEmptySeq
<1>2. ASSUME NEW b \in Seq(T), NEW x \in T, b \in G PROVE Append(b, x) \in G
  <2>1. /\ FlattenSeq(b) \in Seq(S) /\ FlattenSeq(a) \in Seq(S)
        /\ FlattenSeq(Append(b, x)) = FlattenSeq(b) \o x
    BY FlattenAppend
  <2>2. a \o Append(b, x) = Append(a \o b, x) /\ a \o b \in Seq(T)
    OBVIOUS
  <2>3. FlattenSeq(Append(a \o b, x)) = FlattenSeq(a \o b) \o x
    BY <2>2, FlattenAppend
  <2>4. Assoc(FlattenSeq(a), FlattenSeq(b), x)
    BY <2>1, Associative
  <2>5. Append(b, x) \in Seq(T)
    OBVIOUS
  <2> QED
    BY <1>2, <2>1, <2>2, <2>3, <2>4, <2>5 DEF Assoc
<1>3. \A b \in Seq(T) : b \in G
  <2> HIDE DEF G, T
  <2> QED
    BY <1>1, <1>2, Growing
<1> QED
  BY <1>3

LEMMA FlattenCons ==
    ASSUME NEW S, NEW x \in Seq(S), NEW s \in Seq(Seq(S))
    PROVE  FlattenSeq(Cons(x, s)) = x \o FlattenSeq(s) /\ FlattenSeq(s) \in Seq(S)
<1> DEFINE o == <<x>>
<1>1. o \in Seq(Seq(S)) /\ o = Append(<<>>, x) /\ <<>> \in Seq(Seq(S))
  OBVIOUS
<1>2. FlattenSeq(o) = x
  <2>1. FlattenSeq(Append(<<>>, x)) = <<>> \o x
    BY <1>1, FlattenAppend, FlattenEmpty
  <2> QED
    BY <1>1, <2>1, ConcatEmptySeq
<1>3. Cons(x, s) = o \o s
  BY DEF Cons
<1> HIDE DEF o
<1>4. FlattenSeq(o \o s) = FlattenSeq(o) \o FlattenSeq(s)
  BY <1>1, FlattenConcat
<1>5. FlattenSeq(s) \in Seq(S)
  BY FlattenAppend
<1> QED
  BY <1>2, <1>3, <1>4, <1>5

LEMMA ConsOf ==
    ASSUME NEW T, NEW s \in Seq(T), s # <<>>
    PROVE  \E x \in T, r \in Seq(T) : s = Cons(x, r) /\ Len(s) = Len(r) + 1
<1> DEFINE x == Head(s)
           r == Tail(s)
           o == <<x>>
<1>1. x \in T /\ r \in Seq(T) /\ Len(s) = Len(r) + 1 /\ Len(r) \in Nat
  BY HeadTailProperties, EmptySeq
<1>2. /\ x = s[1] /\ \A i \in 1..Len(r) : r[i] = s[i + 1]
  BY HeadTailProperties
<1>3. o \in Seq(T) /\ Len(o) = 1 /\ o[1] = x
  BY <1>1
<1> HIDE DEF o, x, r
<1>4. o \o r \in Seq(T) /\ Cat(o, r)
  BY <1>1, <1>3, CatHolds
<1>5. Len(o \o r) = Len(s) /\ \A i \in 1..Len(s) : (o \o r)[i] = s[i]
  <2>1. Len(o \o r) = Len(s)
    BY <1>1, <1>3, <1>4 DEF Cat
  <2>2. ASSUME NEW i \in 1..Len(s) PROVE (o \o r)[i] = s[i]
    <3>1. (o \o r)[i] = IF i <= 1 THEN o[i] ELSE r[i - 1]
      BY <1>1, <1>3, <1>4 DEF Cat
    <3>2. i = 1 \/ (~(i <= 1) /\ i - 1 \in 1..Len(r) /\ (i - 1) + 1 = i)
      BY <1>1
    <3> QED
      BY <1>2, <1>3, <3>1, <3>2
  <2> QED
    BY <2>1, <2>2
<1>6. o \o r = s
  BY <1>4, <1>5, SeqEqual
<1>7. Cons(x, r) = s
  BY <1>6 DEF Cons, o
<1> QED
  BY <1>1, <1>7

\* What follows a word of C, one of D, does not change which word it is.
Apart(p, u, q, v) == p \o u = q \o v => p = q /\ u = v

Told(C, D) == \A p, q \in C : \A u, v \in D : Apart(p, u, q, v)

\* A word of C may stand before one of D and that is no end.
Leads(C, D, X) == \A p \in C : \A u \in D : p \o u \in D \ X

\* Words of C over S, followed by words of D; those of X end a text.
Coded(S, C, D, X) ==
    C \subseteq Seq(S) /\ D \subseteq Seq(S) /\ X \subseteq D /\ Leads(C, D, X)

LEMMA LeadsOn ==
    ASSUME NEW S, NEW C, NEW D, NEW X, Coded(S, C, D, X)
    PROVE  \A w \in Seq(C) : \A u \in D : w \in Seq(Seq(S)) /\ FlattenSeq(w) \o u \in D
<1> USE DEF Coded
<1> DEFINE G == {w \in Seq(C) : \A v \in D : FlattenSeq(w) \o v \in D}
<1>0. \A w \in Seq(C) : w \in Seq(Seq(S))
  <2> DEFINE T == Seq(S)
  <2>1. C \subseteq T
    OBVIOUS
  <2> HIDE DEF T
  <2>2. \A w \in Seq(C) : w \in Seq(T)
    BY <2>1, SeqMonotonic
  <2> QED
    BY <2>2 DEF T
<1>1. <<>> \in G
  <2>1. \A v \in D : <<>> \o v = v
    BY ConcatEmptySeq
  <2> QED
    BY <2>1, FlattenEmpty, EmptySeq
<1>2. ASSUME NEW w \in Seq(C), NEW x \in C, w \in G PROVE Append(w, x) \in G
  <2> SUFFICES ASSUME NEW v \in D PROVE FlattenSeq(Append(w, x)) \o v \in D
    BY AppendProperties
  <2>1. w \in Seq(Seq(S)) /\ x \in Seq(S) /\ v \in Seq(S)
    BY <1>0
  <2>2. FlattenSeq(w) \in Seq(S) /\ FlattenSeq(Append(w, x)) = FlattenSeq(w) \o x
    BY <2>1, FlattenAppend
  <2>3. Assoc(FlattenSeq(w), x, v)
    BY <2>1, <2>2, Associative
  <2>4. x \o v \in D
    BY DEF Leads
  <2>5. FlattenSeq(w) \o (x \o v) \in D
    BY <1>2, <2>4
  <2> QED
    BY <2>2, <2>3, <2>5 DEF Assoc
<1>3. \A w \in Seq(C) : w \in G
  <2> HIDE DEF G
  <2> QED
    BY <1>1, <1>2, Growing
<1> QED
  BY <1>0, <1>3

\* A word of w in front of the others.
Fronted(w, q, r, u, D) ==
    FlattenSeq(r) \o u \in D /\ FlattenSeq(w) \o u = q \o (FlattenSeq(r) \o u)

LEMMA ConsLeads ==
    ASSUME NEW S, NEW C, NEW D, NEW X, Coded(S, C, D, X)
    PROVE  \A q \in C, r \in Seq(C) : \A u \in D : Fronted(Cons(q, r), q, r, u, D)
<1> SUFFICES ASSUME NEW q \in C, NEW r \in Seq(C), NEW u \in D
             PROVE  Fronted(Cons(q, r), q, r, u, D)
  OBVIOUS
<1>1. r \in Seq(Seq(S)) /\ FlattenSeq(r) \o u \in D
  BY LeadsOn
<1>2. q \in Seq(S) /\ u \in Seq(S)
  BY DEF Coded
<1>3. FlattenSeq(Cons(q, r)) = q \o FlattenSeq(r) /\ FlattenSeq(r) \in Seq(S)
  BY <1>1, <1>2, FlattenCons
<1>4. Assoc(q, FlattenSeq(r), u)
  BY <1>2, <1>3, Associative
<1> QED
  BY <1>1, <1>3, <1>4 DEF Assoc, Fronted

\* That a text and its end are told from another and its end.
Alone(w, z, X) == \A x, y \in X : FlattenSeq(w) \o x = FlattenSeq(z) \o y => w = z /\ x = y

\* Words one after the other, and an end, are told apart.
LEMMA WordsTold ==
    ASSUME NEW S, NEW C, NEW D, NEW X, Coded(S, C, D, X), Told(C, D)
    PROVE  \A w, z \in Seq(C) : Alone(w, z, X)
<1> DEFINE G == {n \in Nat : \A w, z \in Seq(C) : Len(w) = n => Alone(w, z, X)}
<1>0. \A x \in X : FlattenSeq(<<>>) \o x = x /\ x \in D
  BY FlattenEmpty, ConcatEmptySeq DEF Coded
<1>00. \A w \in Seq(C) : w # <<>> => \E q \in C, r \in Seq(C) :
           Len(w) = Len(r) + 1 /\ \A u \in D : Fronted(w, q, r, u, D)
  <2> SUFFICES ASSUME NEW w \in Seq(C), w # <<>>
               PROVE  \E q \in C, r \in Seq(C) :
                          Len(w) = Len(r) + 1 /\ \A u \in D : Fronted(w, q, r, u, D)
    OBVIOUS
  <2>1. PICK q \in C, r \in Seq(C) : w = Cons(q, r) /\ Len(w) = Len(r) + 1
    BY ConsOf
  <2>2. \A u \in D : Fronted(Cons(q, r), q, r, u, D)
    BY ConsLeads
  <2> QED
    BY <2>1, <2>2
<1>1. \A w \in Seq(C), x \in X : w # <<>> => FlattenSeq(w) \o x \notin X
  <2> SUFFICES ASSUME NEW w \in Seq(C), NEW x \in X, w # <<>>
               PROVE  FlattenSeq(w) \o x \notin X
    OBVIOUS
  <2>1. PICK q \in C, r \in Seq(C) : \A u \in D : Fronted(w, q, r, u, D)
    BY <1>00
  <2>2. Fronted(w, q, r, x, D)
    BY <1>0, <2>1
  <2>3. q \o (FlattenSeq(r) \o x) \notin X
    BY <2>2 DEF Fronted, Coded, Leads
  <2> QED
    BY <2>2, <2>3 DEF Fronted
<1>2. 0 \in G
  <2> SUFFICES ASSUME NEW w \in Seq(C), NEW z \in Seq(C), Len(w) = 0, NEW x \in X, NEW y \in X,
                      FlattenSeq(w) \o x = FlattenSeq(z) \o y
               PROVE  w = z /\ x = y
    BY DEF Alone
  <2>1. w = <<>> /\ FlattenSeq(w) \o x = x
    BY <1>0, EmptySeq
  <2>2. z = <<>>
    BY <1>1, <2>1
  <2> QED
    BY <1>0, <2>1, <2>2
<1>3. ASSUME NEW n \in Nat, n \in G PROVE n + 1 \in G
  <2>0. n + 1 \in Nat /\ \A w, z \in Seq(C) : Len(w) = n => Alone(w, z, X)
    BY <1>3
  <2> SUFFICES ASSUME NEW w \in Seq(C), NEW z \in Seq(C), Len(w) = n + 1, NEW x \in X, NEW y \in X,
                      FlattenSeq(w) \o x = FlattenSeq(z) \o y
               PROVE  w = z /\ x = y
    BY <2>0 DEF Alone
  <2> HIDE DEF G
  <2>1. w # <<>>
    BY EmptySeq
  <2>2. z # <<>>
    <3>1. FlattenSeq(w) \o x \notin X
      BY <1>1, <2>1
    <3>2. z = <<>> => FlattenSeq(z) \o y = y
      BY <1>0
    <3> QED
      BY <3>1, <3>2
  <2>3. PICK p \in C, v \in Seq(C) : w = Cons(p, v) /\ Len(w) = Len(v) + 1
    BY <2>1, ConsOf
  <2>4. PICK q \in C, r \in Seq(C) : z = Cons(q, r)
    BY <2>2, ConsOf
  <2>5. Fronted(w, p, v, x, D) /\ Fronted(z, q, r, y, D)
    BY <1>0, <2>3, <2>4, ConsLeads
  <2>6. p = q /\ FlattenSeq(v) \o x = FlattenSeq(r) \o y
    <3> DEFINE f == FlattenSeq(v) \o x
               g == FlattenSeq(r) \o y
    <3>1. f \in D /\ g \in D /\ p \o f = q \o g
      BY <2>5 DEF Fronted
    <3> HIDE DEF f, g
    <3>2. Apart(p, f, q, g)
      BY <3>1 DEF Told
    <3>3. p = q /\ f = g
      BY <3>1, <3>2 DEF Apart
    <3> QED
      BY <3>3 DEF f, g
  <2>7. Len(v) = n
    BY <2>3, LenProperties
  <2>8. v = r /\ x = y
    <3>1. Alone(v, r, X)
      BY <2>0, <2>7
    <3> QED
      BY <2>6, <3>1 DEF Alone
  <2> QED
    BY <2>3, <2>4, <2>6, <2>8
<1>4. \A n \in Nat : n \in G
  <2> HIDE DEF G
  <2> QED
    BY <1>2, <1>3, Induction
<1> QED
  BY <1>4, LenProperties

\* a is s with c in front of it.
Conses(a, c, s) ==
    /\ Len(s) \in Nat /\ Len(a) = Len(s) + 1 /\ a # <<>>
    /\ a[1] = c
    /\ \A i \in 1..Len(s) : a[i + 1] = s[i]

LEMMA ConsIs ==
    ASSUME NEW S, NEW c \in S, NEW s \in Seq(S)
    PROVE  Cons(c, s) \in Seq(S) /\ Conses(Cons(c, s), c, s)
<1> DEFINE o == <<c>>
<1>1. o \in Seq(S) /\ Len(o) = 1 /\ o[1] = c /\ Len(s) \in Nat
  OBVIOUS
<1>2. Cons(c, s) = o \o s
  BY DEF Cons
<1> HIDE DEF o
<1>3. o \o s \in Seq(S) /\ Cat(o, s)
  BY <1>1, CatHolds
<1>4. Len(o \o s) = Len(s) + 1 /\ o \o s # <<>>
  BY <1>1, <1>3, EmptySeq DEF Cat
<1>5. (o \o s)[1] = c
  <2>1. 1 \in 1..(Len(o) + Len(s)) /\ 1 <= Len(o)
    BY <1>1
  <2> QED
    BY <1>1, <1>3, <2>1 DEF Cat
<1>6. ASSUME NEW i \in 1..Len(s) PROVE (o \o s)[i + 1] = s[i]
  <2>1. i + 1 \in 1..(Len(o) + Len(s)) /\ ~(i + 1 <= Len(o)) /\ (i + 1) - Len(o) = i
    BY <1>1
  <2>2. (o \o s)[i + 1] = s[(i + 1) - Len(o)]
    BY <1>3, <2>1 DEF Cat
  <2> QED
    BY <2>1, <2>2
<1> QED
  BY <1>1, <1>2, <1>3, <1>4, <1>5, <1>6 DEF Conses

LEMMA ConsInjective ==
    ASSUME NEW S, NEW c \in S, NEW d \in S, NEW s \in Seq(S), NEW t \in Seq(S),
           Cons(c, s) = Cons(d, t)
    PROVE  c = d /\ s = t
<1> DEFINE a == Cons(c, s)
           b == Cons(d, t)
<1>1. Conses(a, c, s) /\ Conses(b, d, t) /\ a = b
  BY ConsIs
<1> HIDE DEF a, b
<1>2. Len(s) = Len(t) /\ c = d /\ \A i \in 1..Len(s) : s[i] = t[i]
  BY <1>1 DEF Conses
<1> QED
  BY <1>2, SeqEqual

Moves(c, p, u) == Cons(c, p) \o u = Cons(c, p \o u)

LEMMA ConsMoves ==
    ASSUME NEW S, NEW c \in S, NEW p \in Seq(S), NEW u \in Seq(S)
    PROVE  Moves(c, p, u)
<1> DEFINE o == <<c>>
<1>1. o \in Seq(S) /\ Cons(c, p) = o \o p /\ Cons(c, p \o u) = o \o (p \o u)
  BY DEF Cons
<1> HIDE DEF o
<1>2. Assoc(o, p, u)
  BY <1>1, Associative
<1> QED
  BY <1>1, <1>2 DEF Assoc, Moves

\* The pieces after the first, each behind its delimiter.
Led(w, c) == [i \in DOMAIN w |-> Cons(c, w[i])]

LEMMA JoinCons ==
    ASSUME NEW S, NEW c \in S, NEW a \in Seq(S), NEW w \in Seq(Seq(S))
    PROVE  /\ Join(Cons(a, w), c) = a \o FlattenSeq(Led(w, c))
           /\ Led(w, c) \in Seq(Seq(S)) /\ FlattenSeq(Led(w, c)) \in Seq(S)
<1> DEFINE T == Seq(S)
           v == Cons(a, w)
           l == Led(w, c)
           m == [i \in DOMAIN v |-> (IF i = 1 THEN <<>> ELSE <<c>>) \o v[i]]
<1>1. Len(w) \in Nat /\ DOMAIN w = 1..Len(w) /\ \A i \in 1..Len(w) : w[i] \in T
  OBVIOUS
<1>2. v \in Seq(T) /\ Conses(v, a, w)
  <2> HIDE DEF T
  <2> QED
    BY ConsIs DEF T
<1>3. l \in Seq(T) /\ Len(l) = Len(w) /\ \A i \in 1..Len(w) : l[i] = Cons(c, w[i])
  <2>1. l \in [1..Len(w) -> T] /\ \A i \in 1..Len(w) : l[i] = Cons(c, w[i])
    BY <1>1, ConsIs DEF Led
  <2> QED
    BY <1>1, <2>1, FunctionIsSeq
<1>4. Cons(a, l) \in Seq(T) /\ Conses(Cons(a, l), a, l)
  <2>1. a \in T
    OBVIOUS
  <2> HIDE DEF T, l
  <2> QED
    BY <1>3, <2>1, ConsIs
<1>5. DOMAIN v = 1..(Len(w) + 1)
  <2> HIDE DEF v, T
  <2> QED
    BY <1>2, LenProperties DEF Conses
<1>6. ASSUME NEW i \in 1..(Len(w) + 1) PROVE m[i] = Cons(a, l)[i]
  <2>1. m[i] = (IF i = 1 THEN <<>> ELSE <<c>>) \o v[i]
    BY <1>5
  <2>2. \A s : <<c>> \o s = Cons(c, s)
    BY DEF Cons
  <2> HIDE DEF m, v, l
  <2>3. CASE i = 1
    <3>1. v[i] = a /\ Cons(a, l)[i] = a
      BY <1>2, <1>4, <2>3 DEF Conses
    <3>2. m[i] = <<>> \o a
      BY <2>1, <2>3, <3>1
    <3> QED
      BY <3>1, <3>2, ConcatEmptySeq
  <2>4. CASE i # 1
    <3> DEFINE j == i - 1
    <3>1. j \in 1..Len(w) /\ i = j + 1
      BY <1>1, <2>4
    <3> HIDE DEF j
    <3>2. v[i] = w[j]
      BY <1>2, <3>1 DEF Conses
    <3>3. Cons(a, l)[i] = l[j] /\ l[j] = Cons(c, w[j])
      BY <1>3, <1>4, <3>1 DEF Conses
    <3>4. m[i] = <<c>> \o w[j]
      BY <2>1, <2>4, <3>2
    <3> QED
      BY <2>2, <3>3, <3>4
  <2> QED
    BY <2>3, <2>4
<1>7. m = Cons(a, l)
  <2>1. DOMAIN Cons(a, l) = 1..(Len(w) + 1)
    <3> HIDE DEF l, T
    <3> QED
      BY <1>3, <1>4, LenProperties DEF Conses
  <2>2. m = [i \in 1..(Len(w) + 1) |-> m[i]]
    BY <1>5
  <2>3. Cons(a, l) = [i \in 1..(Len(w) + 1) |-> Cons(a, l)[i]]
    <3> HIDE DEF l, T
    <3>1. Cons(a, l) \in [1..(Len(w) + 1) -> T]
      BY <1>3, <1>4, LenProperties DEF Conses
    <3> QED
      BY <3>1
  <2> HIDE DEF m, l
  <2> QED
    BY <1>6, <2>2, <2>3
<1>8. Join(v, c) = FlattenSeq(m)
  BY DEF Join
<1> HIDE DEF m, v, l
<1>9. FlattenSeq(Cons(a, l)) = a \o FlattenSeq(l) /\ FlattenSeq(l) \in Seq(S)
  BY <1>3, FlattenCons
<1> QED
  BY <1>3, <1>7, <1>8, <1>9 DEF v, l

\* What begins with c, and the pieces behind it.
Behind(c, C) == {Cons(c, p) : p \in C}

\* Pieces that are told from what follows, if that is an end or a delimiter,
\* are told when they are joined.
JoinApart(c, w, x, z, y) == Join(w, c) \o x = Join(z, c) \o y => w = z /\ x = y

JoinsTold(C, c, X) ==
    \A w, z \in Seq(C) \ {<<>>} : \A x, y \in X : JoinApart(c, w, x, z, y)

LEMMA JoinTold ==
    ASSUME NEW C, NEW c \in Nat, NEW X, C \subseteq Text, X \subseteq Text,
           X \cap Behind(c, Text) = {}, Told(C, X \cup Behind(c, Text))
    PROVE  JoinsTold(C, c, X)
<1> USE DEF JoinsTold, JoinApart
<1> DEFINE D == X \cup Behind(c, Text)
           P == Behind(c, C)
<1>0. /\ \A s \in Text : s \in Seq(Nat) /\ Cons(c, s) \in Text
      /\ \A p, u \in Text : p \o u \in Text /\ Cons(c, p) \o u = Cons(c, p \o u)
  <2>1. \A s \in Text : s \in Seq(Nat) /\ Cons(c, s) \in Text
    BY ConsIs DEF Text
  <2>2. \A p, u \in Text : p \o u \in Text
    BY ConcatText
  <2>3. \A p, u \in Text : Moves(c, p, u)
    BY ConsMoves DEF Text
  <2> QED
    BY <2>1, <2>2, <2>3 DEF Moves
<1>00. \A s, t \in Text : Cons(c, s) = Cons(c, t) => s = t
  BY ConsInjective DEF Text
<1>1. Coded(Nat, P, D, X)
  <2>1. P \subseteq Text /\ D \subseteq Text
    BY <1>0 DEF Behind
  <2>2. Leads(P, D, X)
    <3> SUFFICES ASSUME NEW p \in C, NEW u \in D PROVE Cons(c, p) \o u \in D \ X
      BY DEF Leads, Behind
    <3>1. p \in Text /\ u \in Text
      BY <2>1
    <3>2. Cons(c, p) \o u = Cons(c, p \o u) /\ p \o u \in Text
      BY <1>0, <3>1
    <3>3. Cons(c, p) \o u \in Behind(c, Text)
      BY <3>2 DEF Behind
    <3> QED
      BY <3>3
  <2> QED
    BY <2>1, <2>2 DEF Coded, Text
<1>2. Told(P, D)
  <2>0. ASSUME NEW p \in C, NEW q \in C, NEW u \in D, NEW v \in D
        PROVE  Apart(Cons(c, p), u, Cons(c, q), v)
    <3> SUFFICES ASSUME Cons(c, p) \o u = Cons(c, q) \o v PROVE p = q /\ u = v
      BY DEF Apart
    <3>1. p \in Text /\ q \in Text /\ u \in Text /\ v \in Text
      BY <1>1 DEF Coded, Text
    <3>2. /\ p \o u \in Text /\ q \o v \in Text
          /\ Cons(c, p) \o u = Cons(c, p \o u) /\ Cons(c, q) \o v = Cons(c, q \o v)
      BY <1>0, <3>1
    <3>3. p \o u = q \o v
      BY <1>00, <3>2
    <3>4. Apart(p, u, q, v)
      BY DEF Told
    <3> QED
      BY <3>3, <3>4 DEF Apart
  <2> SUFFICES ASSUME NEW e \in P, NEW f \in P, NEW u \in D, NEW v \in D PROVE Apart(e, u, f, v)
    BY DEF Told
  <2>1. PICK p \in C : e = Cons(c, p)
    BY DEF Behind
  <2>2. PICK q \in C : f = Cons(c, q)
    BY DEF Behind
  <2> QED
    BY <2>0, <2>1, <2>2
<1> SUFFICES ASSUME NEW w \in Seq(C), w # <<>>, NEW z \in Seq(C), z # <<>>, NEW x \in X, NEW y \in X,
                    Join(w, c) \o x = Join(z, c) \o y
             PROVE  w = z /\ x = y
  OBVIOUS
<1>3. PICK a \in C, r \in Seq(C) : w = Cons(a, r)
  BY ConsOf
<1>4. PICK b \in C, s \in Seq(C) : z = Cons(b, s)
  BY ConsOf
<1>5. ASSUME NEW e \in C, NEW t \in Seq(C), NEW k \in X
      PROVE  /\ Led(t, c) \in Seq(P)
             /\ FlattenSeq(Led(t, c)) \o k \in D
             /\ Join(Cons(e, t), c) \o k = e \o (FlattenSeq(Led(t, c)) \o k)
  <2>1. e \in Seq(Nat) /\ t \in Seq(Seq(Nat)) /\ k \in Seq(Nat)
    <3>1. C \subseteq Seq(Nat)
      BY DEF Text
    <3>2. t \in Seq(Seq(Nat))
      BY <3>1, SeqMonotonic
    <3> QED
      BY <3>1, <3>2 DEF Text
  <2>2. Led(t, c) \in Seq(P)
    <3>1. Len(t) \in Nat /\ DOMAIN t = 1..Len(t) /\ \A i \in 1..Len(t) : t[i] \in C
      BY LenProperties, ElementOfSeq
    <3>2. Led(t, c) \in [1..Len(t) -> P]
      BY <3>1 DEF Led, Behind
    <3> HIDE DEF P
    <3> QED
      BY <3>1, <3>2, FunctionIsSeq
  <2>3. /\ Join(Cons(e, t), c) = e \o FlattenSeq(Led(t, c))
        /\ FlattenSeq(Led(t, c)) \in Seq(Nat)
    BY <2>1, JoinCons
  <2>4. Assoc(e, FlattenSeq(Led(t, c)), k)
    BY <2>1, <2>3, Associative
  <2>5. FlattenSeq(Led(t, c)) \o k \in D
    <3>1. k \in D
      OBVIOUS
    <3> HIDE DEF D, P
    <3> QED
      BY <1>1, <2>2, <3>1, LeadsOn
  <2> QED
    BY <2>2, <2>3, <2>4, <2>5 DEF Assoc
<1> HIDE DEF D, P
<1>6. /\ Led(r, c) \in Seq(P) /\ Led(s, c) \in Seq(P)
      /\ FlattenSeq(Led(r, c)) \o x \in D /\ FlattenSeq(Led(s, c)) \o y \in D
      /\ a \o (FlattenSeq(Led(r, c)) \o x) = b \o (FlattenSeq(Led(s, c)) \o y)
  BY <1>3, <1>4, <1>5
<1>7. a = b /\ FlattenSeq(Led(r, c)) \o x = FlattenSeq(Led(s, c)) \o y
  <2> DEFINE f == FlattenSeq(Led(r, c)) \o x
             g == FlattenSeq(Led(s, c)) \o y
  <2>1. f \in D /\ g \in D /\ a \o f = b \o g
    BY <1>6
  <2> HIDE DEF f, g
  <2>2. Apart(a, f, b, g)
    BY <2>1 DEF Told, D
  <2>3. a = b /\ f = g
    BY <2>1, <2>2 DEF Apart
  <2> QED
    BY <2>3 DEF f, g
<1>8. Led(r, c) = Led(s, c) /\ x = y
  <2>1. Alone(Led(r, c), Led(s, c), X)
    BY <1>1, <1>2, <1>6, WordsTold
  <2> QED
    BY <1>7, <2>1 DEF Alone
<1>9. r = s
  <2>1. /\ Len(r) \in Nat /\ DOMAIN r = 1..Len(r) /\ \A i \in 1..Len(r) : r[i] \in C
        /\ Len(s) \in Nat /\ DOMAIN s = 1..Len(s) /\ \A i \in 1..Len(s) : s[i] \in C
    BY LenProperties, ElementOfSeq
  <2>2. /\ Len(Led(r, c)) = Len(r) /\ Len(Led(s, c)) = Len(s)
        /\ \A i \in 1..Len(r) : Led(r, c)[i] = Cons(c, r[i])
        /\ \A i \in 1..Len(s) : Led(s, c)[i] = Cons(c, s[i])
    <3>1. /\ Led(r, c) \in [1..Len(r) -> {Cons(c, r[i]) : i \in 1..Len(r)}]
          /\ Led(s, c) \in [1..Len(s) -> {Cons(c, s[i]) : i \in 1..Len(s)}]
      BY <2>1 DEF Led
    <3>2. Len(Led(r, c)) = Len(r) /\ Len(Led(s, c)) = Len(s)
      BY <2>1, <3>1, FunctionIsSeq
    <3> QED
      BY <2>1, <3>2 DEF Led
  <2>3. Len(r) = Len(s)
    BY <1>8, <2>1, <2>2
  <2>4. ASSUME NEW i \in 1..Len(r) PROVE r[i] = s[i]
    <3>1. Cons(c, r[i]) = Cons(c, s[i]) /\ r[i] \in Text /\ s[i] \in Text
      BY <1>8, <2>1, <2>2, <2>3
    <3> QED
      BY <1>00, <3>1
  <2> QED
    BY <2>3, <2>4, SeqEqual
<1> QED
  BY <1>3, <1>4, <1>7, <1>8, <1>9

\* Of two texts the beginnings are the same if they are of one length.
LEMMA SameLength ==
    ASSUME NEW p \in Text, NEW u \in Text, NEW q \in Text, NEW v \in Text, Len(p) = Len(q)
    PROVE  Apart(p, u, q, v)
<1> SUFFICES ASSUME p \o u = q \o v PROVE p = q /\ u = v
  BY DEF Apart
<1>1. Cat(p, u) /\ Cat(q, v) /\ p \in Seq(Nat) /\ q \in Seq(Nat) /\ u \in Seq(Nat) /\ v \in Seq(Nat)
  BY CatHolds DEF Text
<1>2. ASSUME NEW i \in 1..Len(p) PROVE p[i] = q[i]
  <2>1. i \in 1..(Len(p) + Len(u)) /\ i \in 1..(Len(q) + Len(v)) /\ i <= Len(p)
    BY <1>1, LenProperties
  <2>2. (p \o u)[i] = p[i]
    BY <1>1, <2>1 DEF Cat
  <2>3. (q \o v)[i] = q[i]
    BY <1>1, <2>1 DEF Cat
  <2> QED
    BY <2>2, <2>3
<1>3. p = q
  BY <1>1, <1>2, SeqEqual
<1>4. u = v
  BY <1>1, <1>3, ConcatSimplifications
<1> QED
  BY <1>3, <1>4

\* What begins with one of the stops, or is nothing.
Stopped(u, stops) == u = <<>> \/ u[1] \in stops

LEMMA NotBefore ==
    ASSUME NEW stops, NEW p \in Text, NEW u \in Text, NEW q \in Seq(Nat \ stops), q \in Text,
           NEW v \in Text, Stopped(u, stops), p \o u = q \o v
    PROVE  Len(p) >= Len(q)
<1>1. /\ Cat(p, u) /\ Cat(q, v)
      /\ Len(p) \in Nat /\ Len(q) \in Nat /\ Len(u) \in Nat /\ Len(v) \in Nat
  BY CatHolds, LenProperties DEF Text
<1>2. \A i \in 1..Len(q) : q[i] \notin stops
  BY ElementOfSeq
<1> SUFFICES ASSUME Len(p) < Len(q) PROVE FALSE
  BY <1>1
<1> DEFINE i == Len(p) + 1
<1>3. i \in 1..Len(q) /\ i \in 1..(Len(q) + Len(v)) /\ i <= Len(q)
  BY <1>1
<1>4. Len(p) + Len(u) = Len(q) + Len(v)
  BY <1>1 DEF Cat
<1>5. Len(u) > 0 /\ i \in 1..(Len(p) + Len(u)) /\ ~(i <= Len(p)) /\ i - Len(p) = 1
  BY <1>1, <1>4
<1> HIDE DEF i
<1>6. (q \o v)[i] = q[i]
  BY <1>1, <1>3 DEF Cat
<1>7. (p \o u)[i] = u[1]
  BY <1>1, <1>5 DEF Cat
<1>8. u # <<>>
  BY <1>5, EmptySeq
<1> QED
  BY <1>2, <1>3, <1>6, <1>7, <1>8 DEF Stopped

LEMMA StopTold ==
    ASSUME NEW stops, NEW p \in Seq(Nat \ stops), NEW u \in Text, NEW q \in Seq(Nat \ stops),
           NEW v \in Text, Stopped(u, stops), Stopped(v, stops)
    PROVE  Apart(p, u, q, v)
<1>1. p \in Text /\ q \in Text
  BY SeqMonotonic, Nat \ stops \subseteq Nat DEF Text
<1> SUFFICES ASSUME p \o u = q \o v PROVE Apart(p, u, q, v)
  BY DEF Apart
<1>2. Len(p) >= Len(q) /\ Len(q) >= Len(p)
  BY <1>1, NotBefore
<1>3. Len(p) = Len(q)
  BY <1>1, <1>2, LenProperties DEF Text
<1> QED
  BY <1>1, <1>3, SameLength

-----------------------------------------------------------------------------
(* Values.                                                                  *)

\* What may follow an attribute: nothing, another of its part, another part.
Ends == {<<>>} \cup Behind(Comma, Text) \cup Behind(Plus, Text)

LEMMA EndsText == Ends \subseteq Text
<1>1. \A c \in {Comma, Plus} : Behind(c, Text) \subseteq Text
  BY ConsIs DEF Behind, Text, Comma, Plus
<1>2. <<>> \in Text
  BY DEF Text
<1> QED
  BY <1>1, <1>2 DEF Ends

LEMMA EndsAre ==
    ASSUME NEW u \in Text
    PROVE  u \in Ends <=> u = <<>> \/ u[1] \in {Comma, Plus}
<1>0. Comma \in Nat /\ Plus \in Nat /\ u \in Seq(Nat)
  BY DEF Comma, Plus, Text
<1>1. ASSUME NEW c \in {Comma, Plus}, u \in Behind(c, Text) PROVE u[1] = c
  <2>1. PICK s \in Text : u = Cons(c, s)
    BY <1>1 DEF Behind
  <2>2. Conses(u, c, s)
    BY <1>0, <2>1, ConsIs DEF Text
  <2> QED
    BY <2>2 DEF Conses
<1>2. ASSUME u # <<>>, u[1] \in {Comma, Plus} PROVE u \in Behind(u[1], Text)
  <2>1. PICK c \in Nat, s \in Seq(Nat) : u = Cons(c, s)
    BY <1>0, <1>2, ConsOf
  <2>2. Conses(u, c, s)
    BY <2>1, ConsIs
  <2>3. u = Cons(u[1], s) /\ s \in Text
    BY <2>1, <2>2 DEF Conses, Text
  <2> QED
    BY <2>3 DEF Behind
<1> QED
  BY <1>1, <1>2 DEF Ends

\* The ways a character of a value is written: as it is, behind the escape
\* character, or as an escape of two digits.
Tokens ==
    {t \in Text : /\ Len(t) = IF t[1] # Backslash THEN 1 ELSE IF t[2] # Zero THEN 2 ELSE 3
                  /\ t[1] \notin {Comma, Plus}}

LEMMA TokensTold == Told(Tokens, Text)
<1> SUFFICES ASSUME NEW p \in Tokens, NEW q \in Tokens, NEW u \in Text, NEW v \in Text,
                    p \o u = q \o v
             PROVE  p = q /\ u = v
  BY DEF Told, Apart
<1>1. p \in Text /\ q \in Text /\ Cat(p, u) /\ Cat(q, v)
      /\ Len(p) \in 1..3 /\ Len(q) \in 1..3 /\ Len(u) \in Nat /\ Len(v) \in Nat
  BY CatHolds, LenProperties DEF Text, Tokens
<1>2. p[1] = q[1]
  <2>0. \A a \in 1..3, b \in Nat : 1 \in 1..(a + b) /\ 1 <= a
    OBVIOUS
  <2>1. 1 \in 1..(Len(p) + Len(u)) /\ 1 \in 1..(Len(q) + Len(v)) /\ 1 <= Len(p) /\ 1 <= Len(q)
    BY <1>1, <2>0
  <2>2. (p \o u)[1] = p[1]
    BY <1>1, <2>1 DEF Cat
  <2>3. (q \o v)[1] = q[1]
    BY <1>1, <2>1 DEF Cat
  <2> QED
    BY <2>2, <2>3
<1>3. p[1] = Backslash => p[2] = q[2]
  <2> SUFFICES ASSUME p[1] = Backslash PROVE p[2] = q[2]
    OBVIOUS
  <2>0. Len(p) >= 2 /\ Len(q) >= 2
    BY <1>2 DEF Tokens
  <2>1. 2 \in 1..(Len(p) + Len(u)) /\ 2 \in 1..(Len(q) + Len(v)) /\ 2 <= Len(p) /\ 2 <= Len(q)
    BY <1>1, <2>0
  <2>2. (p \o u)[2] = p[2]
    BY <1>1, <2>1 DEF Cat
  <2>3. (q \o v)[2] = q[2]
    BY <1>1, <2>1 DEF Cat
  <2> QED
    BY <2>2, <2>3
<1>4. Len(p) = Len(q)
  BY <1>2, <1>3 DEF Tokens
<1> QED
  BY <1>1, <1>4, SameLength DEF Apart

\* The character that a token stands for.
Meant1(t) == IF Len(t) = 1 THEN t[1] ELSE IF Len(t) = 2 THEN t[2] ELSE 0

\* How the character at i is written.
TokenAt(text, i) ==
    CASE text[i] \in Special -> <<Backslash, text[i]>>
      [] text[i] \in {Hash, Space} /\ i = 1 -> <<Backslash, text[i]>>
      [] text[i] = Space /\ i = Len(text) -> <<Backslash, Space>>
      [] text[i] = 0 -> <<Backslash, Zero, Zero>>
      [] OTHER -> <<text[i]>>

LEMMA EscapedIs ==
    ASSUME NEW text
    PROVE  escaped(text) = FlattenSeq([i \in DOMAIN text |-> TokenAt(text, i)])
BY DEF escaped, TokenAt

LEMMA MarkedIs ==
    ASSUME NEW c \in Nat, c # Zero
    PROVE  <<Backslash, c>> \in Tokens /\ Meant1(<<Backslash, c>>) = c
BY DEF Tokens, Meant1, Text, Backslash, Comma, Plus

LEMMA NulIs ==
    <<Backslash, Zero, Zero>> \in Tokens /\ Meant1(<<Backslash, Zero, Zero>>) = 0
BY DEF Tokens, Meant1, Text, Backslash, Comma, Plus, Zero

LEMMA PlainIs ==
    ASSUME NEW c \in Nat, c \notin Special
    PROVE  <<c>> \in Tokens /\ Meant1(<<c>>) = c
BY DEF Tokens, Meant1, Text, Special, Backslash, Comma, Plus

\* A character has a token, which stands for it; no text has a hash in front.
LEMMA TokenIs ==
    ASSUME NEW text \in Text, NEW i \in 1..Len(text)
    PROVE  /\ TokenAt(text, i) \in Tokens /\ Meant1(TokenAt(text, i)) = text[i]
           /\ i = 1 => TokenAt(text, i)[1] # Hash
<1> DEFINE c == text[i]
<1>1. c \in Nat
  BY ElementOfSeq DEF Text
<1>2. CASE c \in Special
  <2>1. c # Zero /\ TokenAt(text, i) = <<Backslash, c>>
    BY <1>2 DEF Special, Zero, Plus, Comma, Backslash, TokenAt
  <2>2. <<Backslash, c>>[1] = Backslash /\ Backslash # Hash
    BY DEF Backslash, Hash
  <2> QED
    BY <1>1, <2>1, <2>2, MarkedIs
<1>3. CASE c \notin Special /\ c \in {Hash, Space} /\ i = 1
  <2>1. c # Zero /\ TokenAt(text, i) = <<Backslash, c>>
    BY <1>3 DEF Hash, Zero, Space, TokenAt
  <2>2. <<Backslash, c>>[1] = Backslash /\ Backslash # Hash
    BY DEF Backslash, Hash
  <2> QED
    BY <1>1, <2>1, <2>2, MarkedIs
<1>4. CASE c \notin Special /\ ~(c \in {Hash, Space} /\ i = 1) /\ c = Space /\ i = Len(text)
  <2>1. c # Zero /\ i # 1 /\ TokenAt(text, i) = <<Backslash, c>>
    BY <1>4 DEF Zero, Space, TokenAt
  <2> QED
    BY <1>1, <2>1, MarkedIs
<1>5. CASE c \notin Special /\ c # Hash /\ c # Space /\ c = 0
  <2>1. TokenAt(text, i) = <<Backslash, Zero, Zero>>
    BY <1>5 DEF TokenAt
  <2>2. <<Backslash, Zero, Zero>>[1] = Backslash /\ Backslash # Hash
    BY DEF Backslash, Hash
  <2> QED
    BY <1>5, <2>1, <2>2, NulIs
<1>6. CASE c \notin Special /\ ~(c \in {Hash, Space} /\ i = 1) /\ ~(c = Space /\ i = Len(text)) /\ c # 0
  <2>1. TokenAt(text, i) = <<c>>
    BY <1>6 DEF TokenAt
  <2>2. <<c>>[1] = c /\ (i = 1 => c # Hash)
    BY <1>6
  <2> QED
    BY <1>1, <1>6, <2>1, <2>2, PlainIs
<1> QED
  BY <1>2, <1>3, <1>4, <1>5, <1>6 DEF Hash, Space

\* The characters of a text in turn, as they are written.
TokensOf(text) == [i \in DOMAIN text |-> TokenAt(text, i)]

LEMMA TokensAre ==
    ASSUME NEW text \in Text
    PROVE  /\ TokensOf(text) \in Seq(Tokens) /\ Len(TokensOf(text)) = Len(text)
           /\ escaped(text) = FlattenSeq(TokensOf(text)) /\ escaped(text) \in Text
           /\ escaped(text) = <<>> \/ escaped(text)[1] # Hash
<1> DEFINE w == TokensOf(text)
<1>1. Len(text) \in Nat /\ DOMAIN text = 1..Len(text)
  BY LenProperties DEF Text
<1>2. w \in [1..Len(text) -> Tokens] /\ \A i \in 1..Len(text) : w[i] = TokenAt(text, i)
  BY <1>1, TokenIs DEF TokensOf
<1>3. w \in Seq(Tokens) /\ Len(w) = Len(text)
  BY <1>1, <1>2, FunctionIsSeq
<1>4. escaped(text) = FlattenSeq(w)
  BY EscapedIs DEF TokensOf
<1> HIDE DEF w
<1>5. w \in Seq(Seq(Nat))
  <2> DEFINE T == Seq(Nat)
  <2>1. Tokens \subseteq T
    BY DEF Tokens, Text
  <2> HIDE DEF T
  <2> w \in Seq(T)
    BY <1>3, <2>1, SeqMonotonic
  <2> QED
    BY DEF T
<1>6. FlattenSeq(w) \in Text
  BY <1>5, FlattenAppend DEF Text
<1>7. FlattenSeq(w) = <<>> \/ FlattenSeq(w)[1] # Hash
  <2>1. CASE w = <<>>
    BY <2>1, FlattenEmpty
  <2>2. CASE w # <<>>
    <3>1. 1 \in 1..Len(text)
      BY <1>1, <1>3, <2>2, EmptySeq
    <3>2. w[1] \in Tokens /\ w[1][1] # Hash
      BY <1>2, <3>1, TokenIs
    <3>3. w[1] # <<>>
      <4>1. Len(w[1]) # 0
        BY <3>2 DEF Tokens
      <4> QED
        BY <4>1, EmptySeq
    <3>4. FlattenSeq(w)[1] = w[1][1]
      BY <1>5, <2>2, <3>3, FlattenFirst
    <3> QED
      BY <3>2, <3>4
  <2> QED
    BY <2>1, <2>2
<1> QED
  BY <1>3, <1>4, <1>6, <1>7 DEF w

\* Words that do not begin as an end does.
LEMMA TextCode ==
    ASSUME NEW C, C \subseteq Text, \A p \in C : p # <<>> /\ p[1] \notin {Comma, Plus}
    PROVE  Coded(Nat, C, Text, Ends)
<1>1. Ends \subseteq Text /\ \A p, u \in Text : p \o u \in Text
  BY EndsText, ConcatText
<1>2. ASSUME NEW p \in C, NEW u \in Text PROVE p \o u \notin Ends
  <2>1. /\ p \in Text /\ Cat(p, u) /\ Len(u) \in Nat /\ p \o u \in Text
        /\ p[1] \notin {Comma, Plus}
    BY CatHolds, LenProperties DEF Text
  <2>2. Len(p) \in Nat \ {0}
    BY EmptySeq DEF Text
  <2>3. \A a \in Nat \ {0}, b \in Nat : 1 \in 1..(a + b) /\ 1 <= a /\ a + b # 0
    OBVIOUS
  <2>4. 1 \in 1..(Len(p) + Len(u)) /\ 1 <= Len(p) /\ Len(p) + Len(u) # 0
    BY <2>1, <2>2, <2>3
  <2>5. (p \o u)[1] = p[1] /\ Len(p \o u) # 0
    BY <2>1, <2>4 DEF Cat
  <2>6. p \o u # <<>>
    BY <2>5, EmptySeq
  <2> QED
    BY <2>1, <2>5, <2>6, EndsAre
<1>3. Leads(C, Text, Ends)
  BY <1>1, <1>2 DEF Leads
<1> QED
  BY <1>1, <1>3 DEF Coded, Text

LEMMA TokensCode == Coded(Nat, Tokens, Text, Ends)
<1>1. Tokens \subseteq Text /\ \A p \in Tokens : Len(p) # 0 /\ p[1] \notin {Comma, Plus}
  BY DEF Tokens
<1>2. \A p \in Tokens : p # <<>>
  BY <1>1, EmptySeq
<1> QED
  BY <1>1, <1>2, TextCode

\* A text is told from how it is written, whatever follows it.
EscapedApart(s, x, t, y) == escaped(s) \o x = escaped(t) \o y => s = t /\ x = y

LEMMA EscapedTold ==
    ASSUME NEW s \in Text, NEW t \in Text, NEW x \in Ends, NEW y \in Ends
    PROVE  EscapedApart(s, x, t, y)
<1> SUFFICES ASSUME escaped(s) \o x = escaped(t) \o y PROVE s = t /\ x = y
  BY DEF EscapedApart
<1>1. /\ TokensOf(s) \in Seq(Tokens) /\ Len(TokensOf(s)) = Len(s)
      /\ TokensOf(t) \in Seq(Tokens) /\ Len(TokensOf(t)) = Len(t)
      /\ FlattenSeq(TokensOf(s)) \o x = FlattenSeq(TokensOf(t)) \o y
  BY TokensAre
<1>2. Alone(TokensOf(s), TokensOf(t), Ends)
  BY <1>1, TokensCode, TokensTold, WordsTold
<1>3. TokensOf(s) = TokensOf(t) /\ x = y
  BY <1>1, <1>2 DEF Alone
<1>4. Len(s) = Len(t) /\ s \in Seq(Nat) /\ t \in Seq(Nat)
  BY <1>1, <1>3 DEF Text
<1>5. ASSUME NEW i \in 1..Len(s) PROVE s[i] = t[i]
  <2>1. TokenAt(s, i) = TokenAt(t, i)
    <3>1. i \in DOMAIN s /\ i \in DOMAIN t
      BY <1>4, LenProperties
    <3>2. TokensOf(s)[i] = TokenAt(s, i) /\ TokensOf(t)[i] = TokenAt(t, i)
      BY <3>1 DEF TokensOf
    <3> QED
      BY <1>3, <3>2
  <2>2. Meant1(TokenAt(s, i)) = s[i] /\ Meant1(TokenAt(t, i)) = t[i]
    BY <1>4, TokenIs
  <2> QED
    BY <2>1, <2>2
<1> QED
  BY <1>3, <1>4, <1>5, SeqEqual

Digit(d) == IF d < 10 THEN Zero + d ELSE 87 + d

PairOf(o) == <<Digit(o \div 16), Digit(o % 16)>>

HexPairs == {PairOf(o) : o \in 0..255}

LEMMA PairIs ==
    ASSUME NEW o \in 0..255
    PROVE  /\ PairOf(o) \in Text /\ Len(PairOf(o)) = 2
           /\ PairOf(o)[1] = Digit(o \div 16) /\ PairOf(o)[2] = Digit(o % 16)
           /\ PairOf(o)[1] \notin {Comma, Plus}
<1>1. o \div 16 \in 0..15 /\ o % 16 \in 0..15
  OBVIOUS
<1>2. \A d \in 0..15 : Digit(d) \in Nat /\ Digit(d) \notin {Comma, Plus}
  BY DEF Digit, Zero, Comma, Plus
<1> DEFINE a == Digit(o \div 16)
           b == Digit(o % 16)
<1>3. a \in Nat /\ b \in Nat /\ a \notin {Comma, Plus}
  BY <1>1, <1>2
<1> HIDE DEF a, b
<1>4. <<a, b>> \in Seq(Nat) /\ Len(<<a, b>>) = 2 /\ <<a, b>>[1] = a /\ <<a, b>>[2] = b
  BY <1>3
<1> QED
  BY <1>3, <1>4 DEF PairOf, a, b, Text

LEMMA PairsDiffer ==
    ASSUME NEW o \in 0..255, NEW e \in 0..255, PairOf(o) = PairOf(e)
    PROVE  o = e
<1>1. \A c, d \in 0..15 : Digit(c) = Digit(d) => c = d
  BY DEF Digit, Zero
<1>2. /\ o \div 16 \in 0..15 /\ o % 16 \in 0..15 /\ o = 16 * (o \div 16) + (o % 16)
      /\ e \div 16 \in 0..15 /\ e % 16 \in 0..15 /\ e = 16 * (e \div 16) + (e % 16)
  OBVIOUS
<1>3. Digit(o \div 16) = Digit(e \div 16) /\ Digit(o % 16) = Digit(e % 16)
  BY PairIs
<1>4. o \div 16 = e \div 16 /\ o % 16 = e % 16
  BY <1>1, <1>2, <1>3
<1> QED
  BY <1>2, <1>4

PairsOf(octets) == [i \in DOMAIN octets |-> PairOf(octets[i])]

LEMMA PairsAre ==
    ASSUME NEW s \in Octets
    PROVE  /\ PairsOf(s) \in Seq(HexPairs) /\ Len(PairsOf(s)) = Len(s)
           /\ Hex(s) = FlattenSeq(PairsOf(s)) /\ Hex(s) \in Text
<1> DEFINE w == PairsOf(s)
<1>1. Len(s) \in Nat /\ DOMAIN s = 1..Len(s) /\ \A i \in 1..Len(s) : s[i] \in 0..255
  BY LenProperties, ElementOfSeq DEF Octets
<1>2. w \in [1..Len(s) -> HexPairs]
  BY <1>1 DEF PairsOf, HexPairs
<1>3. Hex(s) = FlattenSeq(w)
  BY DEF Hex, PairsOf, PairOf, Digit
<1> HIDE DEF w
<1>4. w \in Seq(HexPairs) /\ Len(w) = Len(s)
  BY <1>1, <1>2, FunctionIsSeq
<1>5. w \in Seq(Seq(Nat))
  <2> DEFINE T == Seq(Nat)
  <2>1. HexPairs \subseteq T
    BY PairIs DEF HexPairs, Text
  <2> HIDE DEF T
  <2> w \in Seq(T)
    BY <1>4, <2>1, SeqMonotonic
  <2> QED
    BY DEF T
<1>6. FlattenSeq(w) \in Text
  BY <1>5, FlattenAppend DEF Text
<1> QED
  BY <1>3, <1>4, <1>6 DEF w

HexApart(s, x, t, y) == Hex(s) \o x = Hex(t) \o y => s = t /\ x = y

LEMMA HexTold ==
    ASSUME NEW s \in Octets, NEW t \in Octets, NEW x \in Ends, NEW y \in Ends
    PROVE  HexApart(s, x, t, y)
<1> SUFFICES ASSUME Hex(s) \o x = Hex(t) \o y PROVE s = t /\ x = y
  BY DEF HexApart
<1>1. Coded(Nat, HexPairs, Text, Ends)
  <2>1. \A p \in HexPairs : p \in Text /\ Len(p) = 2 /\ p[1] \notin {Comma, Plus}
    BY PairIs DEF HexPairs
  <2>2. \A p \in HexPairs : p # <<>>
    BY <2>1, EmptySeq
  <2>3. HexPairs \subseteq Text
    BY <2>1
  <2> QED
    BY <2>1, <2>2, <2>3, TextCode
<1>2. Told(HexPairs, Text)
  <2>1. \A p \in HexPairs : p \in Text /\ Len(p) = 2
    BY PairIs DEF HexPairs
  <2> QED
    BY <2>1, SameLength DEF Told
<1>3. /\ PairsOf(s) \in Seq(HexPairs) /\ Len(PairsOf(s)) = Len(s)
      /\ PairsOf(t) \in Seq(HexPairs) /\ Len(PairsOf(t)) = Len(t)
      /\ FlattenSeq(PairsOf(s)) \o x = FlattenSeq(PairsOf(t)) \o y
  BY PairsAre
<1>4. Alone(PairsOf(s), PairsOf(t), Ends)
  BY <1>1, <1>2, <1>3, WordsTold
<1>5. PairsOf(s) = PairsOf(t) /\ x = y
  BY <1>3, <1>4 DEF Alone
<1>6. Len(s) = Len(t) /\ s \in Seq(0..255) /\ t \in Seq(0..255)
  BY <1>3, <1>5 DEF Octets
<1>7. ASSUME NEW i \in 1..Len(s) PROVE s[i] = t[i]
  <2>1. i \in DOMAIN s /\ i \in DOMAIN t /\ s[i] \in 0..255 /\ t[i] \in 0..255
    BY <1>6, LenProperties, ElementOfSeq
  <2>2. PairsOf(s)[i] = PairOf(s[i]) /\ PairsOf(t)[i] = PairOf(t[i])
    BY <2>1 DEF PairsOf
  <2> QED
    BY <1>5, <2>1, <2>2, PairsDiffer
<1> QED
  BY <1>5, <1>6, <1>7, SeqEqual

-----------------------------------------------------------------------------
\* The text of a string is a text.
LEMMA Utf8Type == ASSUME NEW c \in Nat PROVE Utf8(c) \in Text
<1>1. c \div 64 \in Nat /\ c \div 4096 \in Nat /\ c % 64 \in Nat /\ (c \div 64) % 64 \in Nat
  OBVIOUS
<1> QED
  BY <1>1 DEF Utf8, Text

LEMMA CharactersType ==
    ASSUME NEW tag, NEW value \in Octets
    PROVE  Characters(tag, value) \in Text
<1>1. value \in Text
  BY 0..255 \subseteq Nat, SeqMonotonic DEF Octets, Text
<1> DEFINE n == Len(value) \div 2
           w == [i \in 1..n |-> Utf8(256 * value[2 * i - 1] + value[2 * i])]
<1>2. Len(value) \in Nat /\ \A i \in 1..Len(value) : value[i] \in Nat
  BY <1>1, LenProperties, ElementOfSeq DEF Text
<1>3. n \in Nat /\ \A i \in 1..n : 2 * i - 1 \in 1..Len(value) /\ 2 * i \in 1..Len(value)
  BY <1>2
<1>4. w \in [1..n -> Text]
  <2>1. \A i \in 1..n : 256 * value[2 * i - 1] + value[2 * i] \in Nat
    BY <1>2, <1>3
  <2> QED
    BY <2>1, Utf8Type
<1>5. Characters(tag, value) \in {value, FlattenSeq(w)}
  BY DEF Characters
<1> HIDE DEF w, n
<1>6. w \in Seq(Text)
  BY <1>3, <1>4, FunctionIsSeq
<1>7. FlattenSeq(w) \in Text
  BY <1>6, FlattenAppend DEF Text
<1> QED
  BY <1>1, <1>5, <1>7

-----------------------------------------------------------------------------
(* Numbers.                                                                 *)

Digits10 == 48..57

\* What decimal has for n, given what f has for smaller numbers.
DecimalOf(f, n) == IF n < 10 THEN <<Zero + n>> ELSE Append(f[n \div 10], Zero + (n % 10))

\* f is right for numbers below n.
WritesTo(f, n) == \A m \in Nat : m < n => f[m] = DecimalOf(f, m)

LEMMA TenthIs ==
    ASSUME NEW n \in Nat
    PROVE  /\ n \div 10 \in Nat /\ n % 10 \in 0..9 /\ n = 10 * (n \div 10) + (n % 10)
           /\ n >= 10 => n \div 10 < n /\ n \div 10 # 0
OBVIOUS

LEMMA DecimalOfType ==
    ASSUME NEW f \in [Nat -> Seq(Digits10)], NEW n \in Nat
    PROVE  DecimalOf(f, n) \in Seq(Digits10)
<1>1. n \div 10 \in Nat /\ n % 10 \in 0..9
  BY TenthIs
<1>2. \A d \in 0..9 : Zero + d \in Digits10
  BY DEF Zero, Digits10
<1>3. CASE n < 10
  <2>1. Zero + n \in Digits10
    <3>1. n \in 0..9
      BY <1>3
    <3> QED
      BY <1>2, <3>1
  <2> DEFINE z == Zero + n
  <2> HIDE DEF z
  <2>2. <<z>> \in Seq(Digits10)
    BY <2>1 DEF z
  <2> QED
    BY <1>3, <2>2 DEF DecimalOf, z
<1>4. CASE ~(n < 10)
  <2>1. f[n \div 10] \in Seq(Digits10) /\ Zero + (n % 10) \in Digits10
    BY <1>1, <1>2
  <2>2. Append(f[n \div 10], Zero + (n % 10)) \in Seq(Digits10)
    BY <2>1, AppendProperties
  <2> QED
    BY <1>4, <2>2 DEF DecimalOf
<1> QED
  BY <1>3, <1>4

LEMMA DecimalOfSmaller ==
    ASSUME NEW n \in Nat, NEW f, NEW g, \A m \in Nat : m < n => f[m] = g[m]
    PROVE  DecimalOf(f, n) = DecimalOf(g, n)
<1>1. n < 10 \/ f[n \div 10] = g[n \div 10]
  BY TenthIs
<1> QED
  BY <1>1 DEF DecimalOf

LEMMA WritesAgree ==
    ASSUME NEW n \in Nat, NEW f, NEW g, WritesTo(f, n), WritesTo(g, n)
    PROVE  \A m \in Nat : m < n => f[m] = g[m]
<1> DEFINE G == {k \in Nat : k <= n => \A m \in Nat : m < k => f[m] = g[m]}
<1>1. 0 \in G
  OBVIOUS
<1>2. ASSUME NEW k \in Nat, k \in G PROVE k + 1 \in G
  <2> SUFFICES ASSUME k + 1 <= n, NEW m \in Nat, m < k + 1 PROVE f[m] = g[m]
    OBVIOUS
  <2>1. \A i \in Nat : i < m => f[i] = g[i]
    BY <1>2
  <2>2. DecimalOf(f, m) = DecimalOf(g, m)
    BY <2>1, DecimalOfSmaller
  <2>3. m < n
    OBVIOUS
  <2> QED
    BY <2>2, <2>3 DEF WritesTo
<1>3. n \in G
  <2> HIDE DEF G
  <2> QED
    BY <1>1, <1>2, Induction
<1> QED
  BY <1>3

LEMMA WritesExists ==
    ASSUME NEW n \in Nat
    PROVE  \E f \in [Nat -> Seq(Digits10)] : WritesTo(f, n)
<1> DEFINE X == [Nat -> Seq(Digits10)]
           G == {k \in Nat : \E f \in X : WritesTo(f, k)}
<1>1. 0 \in G
  <2>1. [m \in Nat |-> <<>>] \in X
    OBVIOUS
  <2>2. \A f : WritesTo(f, 0)
    BY DEF WritesTo
  <2> HIDE DEF X
  <2> QED
    BY <2>1, <2>2
<1>2. ASSUME NEW k \in Nat, k \in G PROVE k + 1 \in G
  <2>1. PICK f \in X : WritesTo(f, k)
    BY <1>2
  <2> DEFINE g == [m \in Nat |-> DecimalOf(f, m)]
  <2>2. g \in X
    BY DecimalOfType
  <2>3. \A m \in Nat : g[m] = DecimalOf(f, m)
    OBVIOUS
  <2> HIDE DEF g
  <2>4. ASSUME NEW m \in Nat, m < k + 1 PROVE g[m] = DecimalOf(g, m)
    <3>1. ASSUME NEW i \in Nat, i < m PROVE f[i] = g[i]
      <4>1. i < k
        BY <2>4, <3>1
      <4> QED
        BY <2>1, <2>3, <4>1 DEF WritesTo
    <3>2. DecimalOf(f, m) = DecimalOf(g, m)
      BY <3>1, DecimalOfSmaller
    <3> QED
      BY <2>3, <3>2
  <2>5. WritesTo(g, k + 1)
    BY <2>4 DEF WritesTo
  <2> HIDE DEF X
  <2> QED
    BY <2>2, <2>5
<1>3. n \in G
  <2> HIDE DEF G
  <2> QED
    BY <1>1, <1>2, Induction
<1> QED
  BY <1>3

\* decimal is what its definition says: there is one function like that.
LEMMA DecimalIs ==
    /\ \A n \in Nat : decimal[n] = DecimalOf(decimal, n)
    /\ \A n \in Nat : decimal[n] \in Seq(Digits10)
<1> DEFINE X == [Nat -> Seq(Digits10)]
           Body(f) == [n \in Nat |-> DecimalOf(f, n)]
           at[n \in Nat] == CHOOSE f \in X : WritesTo(f, n)
           L == [n \in Nat |-> at[n + 1][n]]
           F == CHOOSE f : f = Body(f)
<1>1. \A n \in Nat : at[n] \in X /\ WritesTo(at[n], n)
  <2> TAKE n \in Nat
  <2>1. at[n] = CHOOSE f \in X : WritesTo(f, n)
    OBVIOUS
  <2> QED
    BY <2>1, WritesExists
<1> HIDE DEF at
<1>2. L \in X
  <2>1. ASSUME NEW n \in Nat PROVE at[n + 1][n] \in Seq(Digits10)
    <3>1. at[n + 1] \in X
      BY <1>1
    <3> QED
      BY <3>1
  <2> QED
    BY <2>1
<1>3. \A n \in Nat : L[n] = at[n + 1][n]
  OBVIOUS
<1> HIDE DEF L
<1>4. ASSUME NEW n \in Nat PROVE L[n] = DecimalOf(L, n)
  <2> DEFINE f == at[n + 1]
  <2>1. WritesTo(f, n + 1)
    BY <1>1
  <2>2. ASSUME NEW m \in Nat, m < n PROVE f[m] = L[m]
    <3> DEFINE g == at[m + 1]
    <3>1. WritesTo(g, m + 1) /\ WritesTo(f, m + 1)
      BY <1>1, <2>1, <2>2 DEF WritesTo
    <3> HIDE DEF f, g
    <3>2. f[m] = g[m]
      BY <3>1, WritesAgree
    <3> QED
      BY <1>3, <3>2 DEF g
  <2>3. DecimalOf(f, n) = DecimalOf(L, n)
    BY <2>2, DecimalOfSmaller
  <2>4. f[n] = DecimalOf(f, n)
    BY <2>1 DEF WritesTo
  <2> QED
    BY <1>3, <2>3, <2>4
<1>5. L = Body(L)
  BY <1>2, <1>4
<1>6. F = Body(F)
  <2> HIDE DEF Body
  <2> QED
    BY <1>5
<1>7. decimal = F
  BY DEF decimal, DecimalOf
<1> HIDE DEF F
<1>8. \A n \in Nat : F[n] = DecimalOf(F, n)
  BY <1>6
<1>9. ASSUME NEW n \in Nat PROVE F[n] \in Seq(Digits10)
  <2>1. WritesTo(F, n + 1) /\ WritesTo(L, n + 1)
    BY <1>4, <1>8 DEF WritesTo
  <2>2. F[n] = L[n]
    BY <2>1, WritesAgree
  <2> QED
    BY <1>2, <2>2
<1> QED
  BY <1>7, <1>8, <1>9

LEMMA DecimalCases ==
    ASSUME NEW n \in Nat
    PROVE  /\ n < 10 => decimal[n] = Append(<<>>, Zero + n)
           /\ n >= 10 => decimal[n] = Append(decimal[n \div 10], Zero + (n % 10))
           /\ decimal[n] # <<>>
<1>1. decimal[n] = DecimalOf(decimal, n) /\ n \div 10 \in Nat /\ n % 10 \in 0..9
  BY DecimalIs, TenthIs
<1>2. decimal[n \div 10] \in Seq(Digits10)
  BY <1>1, DecimalIs
<1>3. \A d \in 0..9 : Zero + d \in Digits10
  BY DEF Zero, Digits10
<1>4. CASE n < 10
  <2> DEFINE z == Zero + n
  <2>1. decimal[n] = <<z>>
    BY <1>1, <1>4 DEF DecimalOf
  <2> HIDE DEF z
  <2>2. <<z>> = Append(<<>>, z) /\ <<z>> # <<>>
    OBVIOUS
  <2> QED
    BY <1>4, <2>1, <2>2 DEF z
<1>5. CASE n >= 10
  <2>1. decimal[n] = Append(decimal[n \div 10], Zero + (n % 10))
    BY <1>1, <1>5 DEF DecimalOf
  <2>2. Zero + (n % 10) \in Digits10
    BY <1>1, <1>3
  <2> QED
    BY <1>2, <1>5, <2>1, <2>2, AppendProperties
<1> QED
  BY <1>4, <1>5

\* Different numbers are written differently.
LEMMA DecimalTold ==
    \A n, m \in Nat : decimal[n] = decimal[m] => n = m
<1> DEFINE G == {k \in Nat : \A n, m \in Nat : n < k /\ decimal[n] = decimal[m] => n = m}
<1>1. 0 \in G
  OBVIOUS
<1>2. ASSUME NEW k \in Nat, k \in G PROVE k + 1 \in G
  <2> SUFFICES ASSUME NEW n \in Nat, NEW m \in Nat, n < k + 1, decimal[n] = decimal[m] PROVE n = m
    OBVIOUS
  <2>0. ASSUME NEW i \in Nat, NEW j \in Nat, i < n, decimal[i] = decimal[j] PROVE i = j
    BY <1>2, <2>0
  <2> HIDE DEF G
  <2> DEFINE init(i) == IF i < 10 THEN <<>> ELSE decimal[i \div 10]
             last(i) == Zero + (IF i < 10 THEN i ELSE i % 10)
  <2>1. ASSUME NEW i \in Nat
        PROVE  /\ decimal[i] = Append(init(i), last(i))
               /\ init(i) \in Seq(Digits10) /\ last(i) \in Digits10
               /\ init(i) = <<>> <=> i < 10
    <3>1. i \div 10 \in Nat /\ i % 10 \in 0..9 /\ <<>> \in Seq(Digits10)
      BY TenthIs, EmptySeq
    <3>2. decimal[i \div 10] \in Seq(Digits10) /\ decimal[i \div 10] # <<>>
      BY <3>1, DecimalIs, DecimalCases
    <3>3. \A d \in 0..9 : Zero + d \in Digits10
      BY DEF Zero, Digits10
    <3>4. last(i) \in Digits10
      BY <3>1, <3>3
    <3>5. decimal[i] = Append(init(i), last(i))
      <4>1. CASE i < 10
        BY <4>1, DecimalCases
      <4>2. CASE ~(i < 10)
        <5>1. i >= 10
          BY <4>2
        <5>2. decimal[i] = Append(decimal[i \div 10], Zero + (i % 10))
          BY <5>1, DecimalCases
        <5> QED
          BY <4>2, <5>2
      <4> QED
        BY <4>1, <4>2
    <3> QED
      BY <3>1, <3>2, <3>4, <3>5
  <2>2. init(n) = init(m) /\ last(n) = last(m)
    <3> DEFINE a == init(n)
               b == init(m)
               c == last(n)
               d == last(m)
    <3>1. /\ Append(a, c) = Append(b, d)
          /\ a \in Seq(Digits10) /\ b \in Seq(Digits10) /\ c \in Digits10 /\ d \in Digits10
      <4> HIDE DEF init, last
      <4> QED
        BY <2>1
    <3> HIDE DEF a, b, c, d
    <3>2. a = b /\ c = d
      BY <3>1, AppendInjective
    <3> QED
      BY <3>2 DEF a, b, c, d
  <2>3. n < 10 <=> m < 10
    BY <2>1, <2>2
  <2>4. CASE n < 10
    BY <2>2, <2>3, <2>4 DEF Zero
  <2>5. CASE ~(n < 10)
    <3>1. decimal[n \div 10] = decimal[m \div 10] /\ n % 10 = m % 10
      <4>1. n % 10 \in 0..9 /\ m % 10 \in 0..9
        BY TenthIs
      <4> QED
        BY <2>2, <2>3, <2>5, <4>1 DEF Zero
    <3>2. n \div 10 \in Nat /\ m \div 10 \in Nat /\ n \div 10 < n
      BY <2>5, TenthIs
    <3>3. n \div 10 = m \div 10
      BY <2>0, <3>1, <3>2
    <3> QED
      BY <3>1, <3>3, TenthIs
  <2> QED
    BY <2>4, <2>5
<1>3. \A k \in Nat : k \in G
  <2> HIDE DEF G
  <2> QED
    BY <1>1, <1>2, Induction
<1>4. \A n, m \in Nat : n + 1 \in G /\ n < n + 1
  <2> HIDE DEF G
  <2> QED
    BY <1>3
<1> QED
  BY <1>4

-----------------------------------------------------------------------------
(* Identifiers.                                                             *)

\* A number and the seven bits of an octet behind it.
Shift(i, x) == i * 128 + x

Low(o) == o % 128

ArcState == [arcs : Seq(Nat), arc : Nat]

Unread == [arcs |-> <<>>, arc |-> 0]

\* What one octet more does to the numbers read.
ArcStep(r, o) ==
    LET arc == Shift(r.arc, Low(o))
    IN  IF o >= 128 THEN [arcs |-> r.arcs, arc |-> arc]
        ELSE [arcs |-> Append(r.arcs, arc), arc |-> 0]

\* f has what is read after each octet of t.
ArcReads(f, t) ==
    /\ f \in [0..Len(t) -> ArcState]
    /\ f[0] = Unread
    /\ \A i \in 1..Len(t) : f[i] = ArcStep(f[i - 1], t[i])
    /\ Arcs(t) = f[Len(t)].arcs

LEMMA SeptetIs ==
    ASSUME NEW o \in 0..255
    PROVE  /\ Low(o) \in 0..127
           /\ o >= 128 => o = 128 + Low(o)
           /\ o < 128 => o = Low(o)
           /\ o >= 128 /\ o # 128 => Low(o) # 0
           /\ o >= 128 \/ o < 128
           /\ ~(o >= 128 /\ o < 128)
BY DEF Low

LEMMA ShiftType ==
    ASSUME NEW i \in Nat, NEW x \in 0..127
    PROVE  Shift(i, x) \in Nat /\ (x # 0 \/ i # 0 => Shift(i, x) # 0)
BY DEF Shift

LEMMA ArcStepType ==
    ASSUME NEW r \in ArcState, NEW o \in 0..255
    PROVE  ArcStep(r, o) \in ArcState
<1> DEFINE arc == Shift(r.arc, Low(o))
<1>1. arc \in Nat /\ r.arcs \in Seq(Nat)
  BY SeptetIs, ShiftType DEF ArcState
<1> HIDE DEF arc
<1>2. Append(r.arcs, arc) \in Seq(Nat)
  BY <1>1, AppendProperties
<1> QED
  BY <1>1, <1>2 DEF ArcStep, ArcState, arc

LEMMA ArcsBy ==
    ASSUME NEW t \in Octets
    PROVE  \E f : ArcReads(f, t)
<1> DEFINE n == Len(t)
           Body(f) == [i \in 0..n |-> IF i = 0 THEN Unread ELSE ArcStep(f[i - 1], t[i])]
           F == CHOOSE f : f = Body(f)
           Step == [i \in 1..n |-> [x \in ArcState |-> ArcStep(x, t[i])]]
<1>1. n \in Nat /\ \A i \in 1..n : t[i] \in 0..255
  <2>1. n \in Nat
    BY LenProperties DEF Octets
  <2>2. \A i \in 1..n : t[i] \in 0..255
    BY ElementOfSeq DEF Octets
  <2> HIDE DEF n
  <2> QED
    BY <2>1, <2>2
<1>2. /\ Step \in [1..n -> [ArcState -> ArcState]]
      /\ \A i \in 1..n, x \in ArcState : Step[i][x] = ArcStep(x, t[i])
  BY <1>1, ArcStepType
<1> HIDE DEF Step
<1>0. Unread \in ArcState
  BY EmptySeq DEF Unread, ArcState
<1>3. PICK f : Solves(f, ArcState, Unread, n, Step)
  BY <1>0, <1>1, <1>2, Recursion
<1>4. f \in [0..n -> ArcState] /\ f[0] = Unread /\ \A i \in 1..n : f[i] = Step[i][f[i - 1]]
  BY <1>3 DEF Solves
<1>5. \A i \in 1..n : f[i] = ArcStep(f[i - 1], t[i])
  <2> TAKE i \in 1..n
  <2>1. i - 1 \in 0..n
    BY <1>1
  <2>2. f[i - 1] \in ArcState
    BY <1>4, <2>1
  <2> QED
    BY <1>2, <1>4, <2>2
<1>6. f = Body(f)
  <2>1. ASSUME NEW i \in 0..n PROVE f[i] = IF i = 0 THEN Unread ELSE ArcStep(f[i - 1], t[i])
    <3>1. i = 0 \/ i \in 1..n
      BY <1>1
    <3> QED
      BY <1>4, <1>5, <3>1
  <2> HIDE DEF n
  <2> QED
    BY <1>4, <2>1
<1>7. F = Body(F)
  <2> HIDE DEF Body
  <2> QED
    BY <1>6
<1>8. Arcs(t) = F[n].arcs
  BY DEF Arcs, ArcStep, Unread, Shift, Low
<1> HIDE DEF F
<1>9. F[0] = Unread /\ \A i \in 1..n : F[i] = ArcStep(F[i - 1], t[i])
  <2>1. \A i \in 0..n : F[i] = IF i = 0 THEN Unread ELSE ArcStep(F[i - 1], t[i])
    BY <1>7
  <2> HIDE DEF n
  <2> QED
    BY <1>1, <2>1
<1> HIDE DEF n
<1>10. Alike(f, F, n)
  BY <1>4, <1>5, <1>9 DEF Alike
<1>11. \A i \in 0..n : f[i] = F[i]
  BY <1>1, <1>10, Agreement
<1>12. Arcs(t) = f[n].arcs
  <2>1. n \in 0..n
    BY <1>1
  <2> QED
    BY <1>8, <1>11, <2>1
<1> QED
  BY <1>4, <1>5, <1>12 DEF n, ArcReads

\* A step tells what was read before it and the octet.
Steps(r, a, q, b) ==
    (a >= 128 <=> b >= 128) /\ ArcStep(r, a) = ArcStep(q, b) => r = q /\ a = b

LEMMA ArcStepTold ==
    ASSUME NEW r \in ArcState, NEW q \in ArcState, NEW a \in 0..255, NEW b \in 0..255
    PROVE  Steps(r, a, q, b)
<1> SUFFICES ASSUME a >= 128 <=> b >= 128, ArcStep(r, a) = ArcStep(q, b)
             PROVE  r = q /\ a = b
  BY DEF Steps
<1> DEFINE i == r.arc
           j == q.arc
           v == r.arcs
           w == q.arcs
           c == Shift(i, Low(a))
           d == Shift(j, Low(b))
<1>1. /\ i \in Nat /\ j \in Nat /\ v \in Seq(Nat) /\ w \in Seq(Nat)
      /\ r = [arcs |-> v, arc |-> i] /\ q = [arcs |-> w, arc |-> j]
  BY DEF ArcState
<1>0. Low(a) \in 0..127 /\ Low(b) \in 0..127
  BY SeptetIs
<1>2. v = w /\ c = d
  <2>1. CASE a >= 128
    <3>1. [arcs |-> v, arc |-> c] = [arcs |-> w, arc |-> d]
      BY <2>1 DEF ArcStep
    <3> QED
      BY <3>1
  <2>2. CASE ~(a >= 128)
    <3>1. [arcs |-> Append(v, c), arc |-> 0] = [arcs |-> Append(w, d), arc |-> 0]
      BY <2>2 DEF ArcStep
    <3>2. c \in Nat /\ d \in Nat
      BY <1>0, <1>1, ShiftType
    <3> HIDE DEF c, d, v, w
    <3>3. Append(v, c) = Append(w, d)
      BY <3>1
    <3>4. v \in Seq(Nat) /\ w \in Seq(Nat)
      BY <1>1
    <3> QED
      BY <3>2, <3>3, <3>4, AppendInjective
  <2> QED
    BY <2>1, <2>2
<1>3. i = j /\ Low(a) = Low(b)
  <2> DEFINE x == Low(a)
             y == Low(b)
  <2>1. Shift(i, x) = Shift(j, y)
    BY <1>2
  <2>2. i \in Nat /\ j \in Nat /\ x \in 0..127 /\ y \in 0..127
    BY <1>0, <1>1
  <2> HIDE DEF i, j, x, y
  <2>3. i = j /\ x = y
    BY <2>1, <2>2 DEF Shift
  <2> QED
    BY <2>3 DEF x, y
<1>4. a = b
  BY <1>3, SeptetIs
<1> HIDE DEF i, j, v, w
<1> QED
  BY <1>1, <1>2, <1>3, <1>4

\* Something is pending behind an octet that is not the last of a number.
LEMMA Pending ==
    ASSUME NEW t \in Identifiers, NEW f, ArcReads(f, t)
    PROVE  \A i \in 1..Len(t) :
               /\ t[i] \in 0..255 /\ f[i] \in ArcState /\ f[i - 1] \in ArcState
               /\ f[i] = ArcStep(f[i - 1], t[i])
               /\ t[i] >= 128 <=> f[i].arc # 0
               /\ t[i] < 128 => f[i].arcs # <<>>
<1> DEFINE n == Len(t)
<1>1. n \in Nat /\ \A i \in 1..n : t[i] \in 0..255 /\ i \in DOMAIN t
  <2>1. t \in Seq(0..255)
    BY DEF Identifiers, Octets
  <2> QED
    BY <2>1, LenProperties, ElementOfSeq
<1>2. \A i \in 1..n : t[i] = 128 => i > 1 /\ t[i - 1] >= 128
  <2>1. \A i \in DOMAIN t : t[i] = 128 => i > 1 /\ t[i - 1] >= 128
    BY DEF Identifiers
  <2> QED
    BY <1>1, <2>1
<1>3. \A i \in 0..n : f[i] \in ArcState
  BY DEF ArcReads
<1>4. \A i \in 1..n : i - 1 \in 0..n /\ i \in 0..n
  BY <1>1
<1>5. ASSUME NEW i \in 1..n
      PROVE  /\ f[i] = ArcStep(f[i - 1], t[i]) /\ f[i] \in ArcState /\ f[i - 1] \in ArcState
             /\ t[i] < 128 => f[i].arc = 0 /\ f[i].arcs # <<>>
             /\ t[i] >= 128 => f[i].arc = Shift(f[i - 1].arc, Low(t[i]))
  <2>1. f[i] = ArcStep(f[i - 1], t[i])
    BY DEF ArcReads
  <2>2. f[i - 1] \in ArcState /\ f[i] \in ArcState /\ t[i] \in 0..255
    BY <1>1, <1>3, <1>4
  <2> DEFINE arc == Shift(f[i - 1].arc, Low(t[i]))
             arcs == f[i - 1].arcs
  <2>3. arc \in Nat /\ arcs \in Seq(Nat)
    <3>1. f[i - 1].arc \in Nat /\ Low(t[i]) \in 0..127 /\ arcs \in Seq(Nat)
      BY <2>2, SeptetIs DEF ArcState
    <3> QED
      BY <3>1, ShiftType
  <2>4. CASE t[i] < 128
    <3>1. ~(t[i] >= 128)
      BY <2>2, <2>4, SeptetIs
    <3>2. f[i] = [arcs |-> Append(arcs, arc), arc |-> 0]
      BY <2>1, <3>1 DEF ArcStep
    <3> HIDE DEF arc, arcs
    <3>3. Append(arcs, arc) # <<>>
      <4>1. \A s \in Seq(Nat), x \in Nat : Append(s, x) # <<>>
        BY AppendProperties
      <4> QED
        BY <2>3, <4>1
    <3> QED
      BY <2>1, <2>2, <3>1, <3>2, <3>3
  <2>5. CASE t[i] >= 128
    <3>1. f[i] = [arcs |-> arcs, arc |-> arc]
      BY <2>1, <2>5 DEF ArcStep
    <3> HIDE DEF arc, arcs
    <3>2. f[i].arc = arc
      BY <3>1
    <3>3. ~(t[i] < 128)
      BY <2>2, <2>5, SeptetIs
    <3> QED
      BY <2>1, <2>2, <3>2, <3>3 DEF arc
  <2> QED
    BY <2>1, <2>2, <2>4, <2>5
<1> DEFINE G == {k \in Nat : k \in 1..n /\ t[k] >= 128 => f[k].arc # 0}
<1>6. 0 \in G
  OBVIOUS
<1>7. ASSUME NEW k \in Nat, k \in G PROVE k + 1 \in G
  <2> SUFFICES ASSUME k + 1 \in 1..n, t[k + 1] >= 128 PROVE f[k + 1].arc # 0
    OBVIOUS
  <2>1. (k + 1) - 1 = k
    OBVIOUS
  <2>2. /\ f[k + 1].arc = Shift(f[k].arc, Low(t[k + 1])) /\ f[k] \in ArcState
        /\ t[k + 1] \in 0..255
    BY <1>1, <1>5, <2>1
  <2>0. f[k].arc \in Nat /\ Low(t[k + 1]) \in 0..127
    BY <2>2, SeptetIs DEF ArcState
  <2>3. CASE t[k + 1] # 128
    <3>1. Low(t[k + 1]) # 0
      BY <2>2, <2>3, SeptetIs
    <3> QED
      BY <2>0, <2>2, <3>1, ShiftType
  <2>4. CASE t[k + 1] = 128
    <3>1. k \in 1..n /\ t[k] >= 128
      BY <1>1, <1>2, <2>1, <2>4
    <3>2. f[k].arc # 0
      BY <1>7, <3>1
    <3> QED
      BY <2>0, <2>2, <3>2, ShiftType
  <2> QED
    BY <2>3, <2>4
<1>8. \A k \in Nat : k \in G
  <2> HIDE DEF G
  <2> QED
    BY <1>6, <1>7, Induction
<1>9. \A i \in 1..n : t[i] >= 128 => f[i].arc # 0
  BY <1>1, <1>8
<1> QED
  BY <1>1, <1>5, <1>9, SeptetIs

\* What is read tells the octets read.
LEMMA ReadTold ==
    ASSUME NEW t \in Identifiers, NEW f, ArcReads(f, t),
           NEW u \in Identifiers, NEW g, ArcReads(g, u)
    PROVE  \A n \in 0..Len(t), m \in 0..Len(u) :
               f[n] = g[m] => n = m /\ \A i \in 1..n : t[i] = u[i]
<1> DEFINE G == {n \in Nat : n <= Len(t) => \A m \in 0..Len(u) :
                     f[n] = g[m] => n = m /\ \A i \in 1..n : t[i] = u[i]}
<1>0. Len(t) \in Nat /\ Len(u) \in Nat /\ f[0] = Unread /\ g[0] = Unread
  <2>1. t \in Seq(0..255) /\ u \in Seq(0..255)
    BY DEF Identifiers, Octets
  <2> QED
    BY <2>1, LenProperties DEF ArcReads
<1>1. /\ \A i \in 1..Len(t) : f[i] # Unread
      /\ \A i \in 1..Len(u) : g[i] # Unread
  <2>1. Unread.arc = 0 /\ Unread.arcs = <<>>
    BY DEF Unread
  <2>2. ASSUME NEW i \in 1..Len(t) PROVE f[i] # Unread
    <3>1. t[i] >= 128 => f[i].arc # 0
      BY Pending
    <3>2. t[i] < 128 => f[i].arcs # <<>>
      BY Pending
    <3>3. t[i] \in 0..255
      BY Pending
    <3>4. t[i] >= 128 \/ t[i] < 128
      BY <3>3, SeptetIs
    <3> QED
      BY <2>1, <3>1, <3>2, <3>4
  <2>3. ASSUME NEW i \in 1..Len(u) PROVE g[i] # Unread
    <3>1. u[i] >= 128 => g[i].arc # 0
      BY Pending
    <3>2. u[i] < 128 => g[i].arcs # <<>>
      BY Pending
    <3>3. u[i] \in 0..255
      BY Pending
    <3>4. u[i] >= 128 \/ u[i] < 128
      BY <3>3, SeptetIs
    <3> QED
      BY <2>1, <3>1, <3>2, <3>4
  <2> QED
    BY <2>2, <2>3
<1>2. 0 \in G
  <2>1. \A m \in 0..Len(u) : f[0] = g[m] => 0 = m
    <3>1. \A m \in 0..Len(u) : m = 0 \/ m \in 1..Len(u)
      BY <1>0
    <3> QED
      BY <1>0, <1>1, <3>1
  <2> QED
    BY <2>1
<1>3. ASSUME NEW n \in Nat, n \in G PROVE n + 1 \in G
  <2> SUFFICES ASSUME n + 1 <= Len(t), NEW m \in 0..Len(u), f[n + 1] = g[m]
               PROVE  n + 1 = m /\ \A i \in 1..(n + 1) : t[i] = u[i]
    OBVIOUS
  <2>1. n + 1 \in 1..Len(t) /\ (n + 1) - 1 = n
    BY <1>0
  <2>2. m \in 1..Len(u)
    <3>1. m = 0 \/ m \in 1..Len(u)
      BY <1>0
    <3> QED
      BY <1>0, <1>1, <2>1, <3>1
  <2> DEFINE a == t[n + 1]
             b == u[m]
             r == f[n]
             q == g[m - 1]
  <2>3. /\ a \in 0..255 /\ r \in ArcState /\ f[n + 1] = ArcStep(r, a)
        /\ a >= 128 <=> f[n + 1].arc # 0
    BY <2>1, Pending
  <2>4. /\ b \in 0..255 /\ q \in ArcState /\ g[m] = ArcStep(q, b)
        /\ b >= 128 <=> g[m].arc # 0
    <3>1. \A i \in 1..Len(u) :
             /\ u[i] \in 0..255 /\ g[i - 1] \in ArcState /\ g[i] = ArcStep(g[i - 1], u[i])
             /\ u[i] >= 128 <=> g[i].arc # 0
      BY Pending
    <3> QED
      BY <2>2, <3>1
  <2>5. r = q /\ a = b
    <3>1. (a >= 128 <=> b >= 128) /\ ArcStep(r, a) = ArcStep(q, b)
      BY <2>3, <2>4
    <3>2. a \in 0..255 /\ b \in 0..255 /\ r \in ArcState /\ q \in ArcState
      BY <2>3, <2>4
    <3> HIDE DEF a, b, r, q
    <3>3. Steps(r, a, q, b)
      BY <3>2, ArcStepTold
    <3> QED
      BY <3>1, <3>3 DEF Steps
  <2>6. n = m - 1 /\ \A i \in 1..n : t[i] = u[i]
    <3>1. m - 1 \in 0..Len(u) /\ n <= Len(t)
      BY <1>0, <2>1, <2>2
    <3> QED
      BY <1>3, <2>5, <3>1
  <2>7. n + 1 = m
    BY <2>2, <2>6
  <2>8. ASSUME NEW i \in 1..(n + 1) PROVE t[i] = u[i]
    <3>1. i \in 1..n \/ i = n + 1
      OBVIOUS
    <3> QED
      BY <2>5, <2>6, <2>7, <3>1
  <2> QED
    BY <2>7, <2>8
<1>4. \A n \in Nat : n \in G
  <2> HIDE DEF G
  <2> QED
    BY <1>2, <1>3, Induction
<1>5. \A n \in 0..Len(t) : n \in Nat /\ n <= Len(t)
  BY <1>0
<1> QED
  BY <1>4, <1>5

\* An identifier ends with the end of a number.
LEMMA LastRead ==
    ASSUME NEW t \in Identifiers, NEW f, ArcReads(f, t)
    PROVE  /\ Len(t) \in 1..Len(t)
           /\ f[Len(t)] = [arcs |-> Arcs(t), arc |-> 0]
           /\ Arcs(t) \in Seq(Nat) /\ Arcs(t) # <<>>
<1> DEFINE n == Len(t)
<1>1. n \in 1..n /\ n \in DOMAIN t /\ DOMAIN t = 1..n /\ n \in Nat
  <2>1. t \in Seq(0..255) /\ t # <<>>
    BY DEF Identifiers, Octets
  <2>2. n \in Nat /\ n # 0 /\ DOMAIN t = 1..n
    BY <2>1, LenProperties, EmptySeq
  <2> HIDE DEF n
  <2> QED
    BY <2>2
<1>2. t[n] < 128
  <2>1. \A i \in DOMAIN t : \E j \in i..(i + 8) : j \in DOMAIN t /\ t[j] < 128
    BY DEF Identifiers
  <2>2. PICK j \in n..(n + 8) : j \in DOMAIN t /\ t[j] < 128
    BY <1>1, <2>1
  <2> HIDE DEF n
  <2>3. j = n
    BY <1>1, <2>2
  <2> QED
    BY <2>2, <2>3 DEF n
<1>3. /\ t[n] \in 0..255 /\ f[n] \in ArcState
      /\ t[n] >= 128 <=> f[n].arc # 0
      /\ t[n] < 128 => f[n].arcs # <<>>
  BY <1>1, Pending
<1>4. f[n].arc = 0 /\ f[n].arcs # <<>>
  BY <1>2, <1>3, SeptetIs
<1>5. Arcs(t) = f[n].arcs
  BY DEF ArcReads
<1> HIDE DEF n
<1> QED
  BY <1>1, <1>3, <1>4, <1>5 DEF ArcState, n

\* Different identifiers have different numbers.
LEMMA ArcsTold ==
    ASSUME NEW t \in Identifiers, NEW u \in Identifiers, Arcs(t) = Arcs(u)
    PROVE  t = u
<1>0. t \in Octets /\ u \in Octets
  BY DEF Identifiers
<1>1. PICK f : ArcReads(f, t)
  BY <1>0, ArcsBy
<1>2. PICK g : ArcReads(g, u)
  BY <1>0, ArcsBy
<1>3. f[Len(t)] = g[Len(u)]
  BY <1>1, <1>2, LastRead
<1>4. Len(t) \in 0..Len(t) /\ Len(u) \in 0..Len(u)
  <2>1. \A n \in Nat : n \in 0..n
    OBVIOUS
  <2> QED
    BY <1>0, <2>1, LenProperties DEF Octets
<1>5. Len(t) = Len(u) /\ \A i \in 1..Len(t) : t[i] = u[i]
  BY <1>1, <1>2, <1>3, <1>4, ReadTold
<1> QED
  BY <1>0, <1>5, SeqEqual DEF Octets

LEMMA ArcsAre ==
    ASSUME NEW t \in Identifiers
    PROVE  Arcs(t) \in Seq(Nat) /\ Arcs(t) # <<>>
<1>0. t \in Octets
  BY DEF Identifiers
<1>1. PICK f : ArcReads(f, t)
  BY <1>0, ArcsBy
<1> QED
  BY <1>1, LastRead

\* What is first stays first.
LEMMA FirstStays ==
    ASSUME NEW S, NEW a \in Seq(S), NEW b \in Seq(S), a # <<>>
    PROVE  a \o b # <<>> /\ (a \o b)[1] = a[1] /\ a[1] \in S
<1>1. Cat(a, b) /\ a \o b \in Seq(S) /\ Len(b) \in Nat
  BY CatHolds, LenProperties
<1>2. Len(a) \in Nat \ {0}
  BY EmptySeq
<1>3. \A i \in Nat \ {0}, j \in Nat : 1 \in 1..(i + j) /\ 1 <= i /\ i + j # 0 /\ 1 \in 1..i
  OBVIOUS
<1>4. 1 \in 1..(Len(a) + Len(b)) /\ 1 <= Len(a) /\ Len(a) + Len(b) # 0 /\ 1 \in 1..Len(a)
  BY <1>1, <1>2, <1>3
<1>5. (a \o b)[1] = a[1] /\ Len(a \o b) # 0
  BY <1>1, <1>4 DEF Cat
<1>6. a[1] \in S
  BY <1>4, ElementOfSeq
<1> QED
  BY <1>1, <1>5, <1>6, EmptySeq

\* The first number read stands for two.
FirstArc(n) == IF n < 80 THEN n \div 40 ELSE 2

TwoArcs(n) == <<FirstArc(n), n - FirstArc(n) * 40>>

AllArcs(arcs) == TwoArcs(arcs[1]) \o Tail(arcs)

Decimals == {decimal[n] : n \in Nat}

DecimalsOf(v) == [i \in DOMAIN v |-> decimal[v[i]]]

LEMMA TwoArcsAre ==
    ASSUME NEW n \in Nat
    PROVE  /\ TwoArcs(n) \in Seq(Nat) /\ Len(TwoArcs(n)) = 2 /\ TwoArcs(n) # <<>>
           /\ TwoArcs(n)[1] * 40 + TwoArcs(n)[2] = n
<1> DEFINE a == FirstArc(n)
           b == n - a * 40
<1>1. a \in Nat /\ b \in Nat /\ a * 40 + b = n
  BY DEF FirstArc
<1> HIDE DEF a, b
<1>2. <<a, b>> \in Seq(Nat) /\ Len(<<a, b>>) = 2 /\ <<a, b>>[1] = a /\ <<a, b>>[2] = b
  BY <1>1
<1>3. TwoArcs(n) = <<a, b>>
  BY DEF TwoArcs, a, b
<1> QED
  BY <1>1, <1>2, <1>3

LEMMA AllArcsTold ==
    ASSUME NEW v \in Seq(Nat), NEW w \in Seq(Nat), v # <<>>, w # <<>>
    PROVE  /\ AllArcs(v) \in Seq(Nat) /\ AllArcs(v) # <<>>
           /\ AllArcs(v) = AllArcs(w) => v = w
<1>1. /\ Head(v) = v[1] /\ Head(w) = w[1] /\ Head(v) \in Nat /\ Head(w) \in Nat
      /\ Tail(v) \in Text /\ Tail(w) \in Text
  BY HeadTailProperties DEF Text
<1> DEFINE p == TwoArcs(v[1])
           q == TwoArcs(w[1])
<1>2. /\ p \in Text /\ q \in Text /\ Len(p) = Len(q) /\ p # <<>>
      /\ p = q => v[1] = w[1]
  BY <1>1, TwoArcsAre DEF Text
<1>3. AllArcs(v) = p \o Tail(v) /\ AllArcs(w) = q \o Tail(w)
  BY DEF AllArcs
<1> HIDE DEF p, q
<1>4. p \o Tail(v) \in Seq(Nat) /\ p \o Tail(v) # <<>>
  BY <1>1, <1>2, FirstStays, CatHolds DEF Text
<1>5. ASSUME AllArcs(v) = AllArcs(w) PROVE v = w
  <2>1. Apart(p, Tail(v), q, Tail(w))
    BY <1>1, <1>2, SameLength
  <2>2. p = q /\ Tail(v) = Tail(w)
    BY <1>3, <1>5, <2>1 DEF Apart
  <2>3. Head(v) = Head(w)
    BY <1>1, <1>2, <2>2
  <2>4. /\ Len(Tail(v)) = Len(v) - 1 /\ Len(Tail(w)) = Len(w) - 1
        /\ \A i \in 1..Len(Tail(v)) : Tail(v)[i] = v[i + 1]
        /\ \A i \in 1..Len(Tail(w)) : Tail(w)[i] = w[i + 1]
    BY HeadTailProperties
  <2>5. Len(v) = Len(w) /\ Len(v) \in Nat
    <3>1. Len(v) \in Nat /\ Len(w) \in Nat
      BY LenProperties
    <3>2. Len(v) - 1 = Len(w) - 1
      BY <2>2, <2>4
    <3> QED
      BY <3>1, <3>2
  <2>6. ASSUME NEW i \in 1..Len(v) PROVE v[i] = w[i]
    <3>1. CASE i = 1
      BY <1>1, <2>3, <3>1
    <3>2. CASE i # 1
      <4>1. i - 1 \in 1..Len(Tail(v)) /\ i - 1 \in 1..Len(Tail(w)) /\ (i - 1) + 1 = i
        BY <2>4, <2>5, <3>2
      <4> QED
        BY <2>2, <2>4, <4>1
    <3> QED
      BY <3>1, <3>2
  <2> QED
    BY <2>5, <2>6, SeqEqual
<1> QED
  BY <1>3, <1>4, <1>5

Digits10AndDot == Digits10 \cup {Dot}

\* The text of an identifier that has no name of its own.
LEMMA DottedIs ==
    ASSUME NEW t \in Identifiers
    PROVE  /\ DecimalsOf(AllArcs(Arcs(t))) \in Seq(Decimals) \ {<<>>}
           /\ Len(DecimalsOf(AllArcs(Arcs(t)))) = Len(AllArcs(Arcs(t)))
           /\ DecimalsOf(AllArcs(Arcs(t)))[1] = decimal[AllArcs(Arcs(t))[1]]
           /\ AllArcs(Arcs(t)) \in Seq(Nat) /\ AllArcs(Arcs(t))[1] \in Nat
           /\ dotted(t) = Join(DecimalsOf(AllArcs(Arcs(t))), Dot)
<1> DEFINE v == AllArcs(Arcs(t))
           w == DecimalsOf(v)
<1>1. v \in Seq(Nat) /\ v # <<>> /\ Arcs(t) # <<>>
  BY ArcsAre, AllArcsTold
<1>2. dotted(t) = Join(w, Dot)
  BY <1>1 DEF dotted, AllArcs, TwoArcs, FirstArc, DecimalsOf
<1> HIDE DEF v
<1>3. Len(v) \in Nat \ {0} /\ DOMAIN v = 1..Len(v) /\ \A i \in 1..Len(v) : v[i] \in Nat
  BY <1>1, EmptySeq, LenProperties, ElementOfSeq
<1>4. w \in [1..Len(v) -> Decimals]
  BY <1>3 DEF DecimalsOf, Decimals
<1>5. w[1] = decimal[v[1]] /\ v[1] \in Nat
  BY <1>3 DEF DecimalsOf
<1> HIDE DEF w
<1>6. w \in Seq(Decimals) /\ Len(w) = Len(v)
  BY <1>3, <1>4, FunctionIsSeq
<1>7. w # <<>>
  BY <1>3, <1>6, EmptySeq
<1> QED
  BY <1>1, <1>2, <1>5, <1>6, <1>7 DEF w, v

LEMMA DecimalsAre ==
    /\ Decimals \subseteq Text
    /\ Decimals \subseteq Seq(Digits10) \ {<<>>}
    /\ Decimals \subseteq Seq(Nat \ {Dot})
<1>1. Decimals \subseteq Seq(Digits10) \ {<<>>}
  BY DecimalIs, DecimalCases DEF Decimals
<1>2. Digits10 \subseteq Nat /\ Digits10 \subseteq Nat \ {Dot}
  BY DEF Digits10, Dot
<1>3. \A p \in Seq(Digits10) : p \in Seq(Nat)
  BY <1>2, SeqMonotonic
<1>4. \A p \in Seq(Digits10) : p \in Seq(Nat \ {Dot})
  <2> DEFINE N == Nat \ {Dot}
  <2>1. Digits10 \subseteq N
    BY <1>2
  <2> HIDE DEF N
  <2>2. \A p \in Seq(Digits10) : p \in Seq(N)
    BY <2>1, SeqMonotonic
  <2> QED
    BY <2>2 DEF N
<1> QED
  BY <1>1, <1>3, <1>4 DEF Text

\* Identifiers are told apart by their text.
LEMMA DottedTold ==
    ASSUME NEW t \in Identifiers, NEW u \in Identifiers, dotted(t) = dotted(u)
    PROVE  t = u
<1> DEFINE v == AllArcs(Arcs(t))
           z == AllArcs(Arcs(u))
           X == {<<>>}
<1>1. Dot \in Nat /\ X \subseteq Text
  BY EmptySeq DEF Dot, Text
<1>2. \A s \in Behind(Dot, Text) : s \in Text /\ s # <<>> /\ s[1] = Dot
  <2> TAKE s \in Behind(Dot, Text)
  <2>1. PICK r \in Text : s = Cons(Dot, r)
    BY DEF Behind
  <2>2. s \in Text /\ Conses(s, Dot, r)
    BY <1>1, <2>1, ConsIs DEF Text
  <2> QED
    BY <2>2 DEF Conses
<1>3. X \cap Behind(Dot, Text) = {}
  BY <1>2
<1>4. Told(Decimals, X \cup Behind(Dot, Text))
  <2> DEFINE stops == {Dot}
  <2> SUFFICES ASSUME NEW p \in Decimals, NEW q \in Decimals,
                      NEW x \in X \cup Behind(Dot, Text), NEW y \in X \cup Behind(Dot, Text)
               PROVE  Apart(p, x, q, y)
    BY DEF Told
  <2>1. x \in Text /\ y \in Text /\ Stopped(x, stops) /\ Stopped(y, stops)
    BY <1>1, <1>2 DEF Stopped
  <2>2. p \in Seq(Nat \ stops) /\ q \in Seq(Nat \ stops)
    BY DecimalsAre
  <2> HIDE DEF stops
  <2> QED
    BY <2>1, <2>2, StopTold
<1>5. /\ DecimalsOf(v) \in Seq(Decimals) \ {<<>>} /\ DecimalsOf(z) \in Seq(Decimals) \ {<<>>}
      /\ Join(DecimalsOf(v), Dot) = Join(DecimalsOf(z), Dot)
      /\ v \in Seq(Nat) /\ z \in Seq(Nat)
      /\ Len(DecimalsOf(v)) = Len(v) /\ Len(DecimalsOf(z)) = Len(z)
  BY DottedIs
<1>6. JoinsTold(Decimals, Dot, X)
  <2>1. Decimals \subseteq Text
    BY DecimalsAre
  <2> HIDE DEF X
  <2> QED
    BY <1>1, <1>3, <1>4, <2>1, JoinTold
<1>7. DecimalsOf(v) = DecimalsOf(z)
  <2> DEFINE a == DecimalsOf(v)
             b == DecimalsOf(z)
             e == <<>>
  <2>1. /\ a \in Seq(Decimals) \ {e} /\ b \in Seq(Decimals) \ {e} /\ e \in X
        /\ Join(a, Dot) \o e = Join(b, Dot) \o e
    BY <1>5
  <2> HIDE DEF a, b, X
  <2>2. a = b
    BY <1>6, <2>1 DEF JoinsTold, JoinApart
  <2> QED
    BY <2>2 DEF a, b
<1> HIDE DEF v, z
<1>8. Len(v) = Len(z) /\ \A i \in 1..Len(v) : v[i] = z[i]
  <2>1. Len(v) = Len(z) /\ DOMAIN v = 1..Len(v) /\ DOMAIN z = 1..Len(z)
    BY <1>5, <1>7, LenProperties
  <2>2. ASSUME NEW i \in 1..Len(v) PROVE v[i] = z[i]
    <3>1. DecimalsOf(v)[i] = decimal[v[i]] /\ DecimalsOf(z)[i] = decimal[z[i]]
      BY <2>1 DEF DecimalsOf
    <3>2. v[i] \in Nat /\ z[i] \in Nat
      BY <1>5, <2>1, ElementOfSeq
    <3> QED
      BY <1>7, <3>1, <3>2, DecimalTold
  <2> QED
    BY <2>1, <2>2
<1>9. v = z
  BY <1>5, <1>8, SeqEqual
<1>10. Arcs(t) = Arcs(u)
  BY <1>9, ArcsAre, AllArcsTold DEF v, z
<1> QED
  BY <1>10, ArcsTold

\* It begins with a digit, and has digits and dots.
LEMMA DottedType ==
    ASSUME NEW t \in Identifiers
    PROVE  /\ dotted(t) \in Seq(Digits10AndDot) /\ dotted(t) # <<>>
           /\ dotted(t)[1] \in Digits10
<1> DEFINE v == AllArcs(Arcs(t))
           w == DecimalsOf(v)
           S == Digits10AndDot
<1>1. /\ w \in Seq(Decimals) /\ w # <<>> /\ dotted(t) = Join(w, Dot)
      /\ w[1] = decimal[v[1]] /\ v[1] \in Nat
  BY DottedIs
<1>2. w[1] \in Seq(Digits10) /\ w[1] # <<>>
  BY <1>1, DecimalIs, DecimalCases
<1>3. Dot \in S /\ Digits10 \subseteq S
  BY DEF Digits10AndDot
<1>4. w \in Seq(Seq(S))
  <2> DEFINE T == Seq(S)
  <2>1. \A p \in Seq(Digits10) : p \in T
    BY <1>3, SeqMonotonic
  <2>2. Decimals \subseteq T
    BY <2>1, DecimalsAre
  <2> HIDE DEF T, w
  <2>3. w \in Seq(T)
    BY <1>1, <2>2, SeqMonotonic
  <2> QED
    BY <2>3 DEF T
<1> HIDE DEF w, S
<1>5. Join(w, Dot) \in Seq(S)
  BY <1>3, <1>4, JoinAppend, EmptySeq
<1>6. Join(w, Dot) # <<>> /\ Join(w, Dot)[1] = w[1][1]
  BY <1>1, <1>2, <1>3, <1>4, JoinFirst
<1>7. w[1][1] \in Digits10
  <2> DEFINE x == w[1]
  <2>1. x \in Seq(Digits10) /\ x # <<>>
    BY <1>2
  <2> HIDE DEF x
  <2>2. x[1] \in Digits10
    BY <2>1, HeadTailProperties
  <2> QED
    BY <2>2 DEF x
<1> QED
  BY <1>1, <1>5, <1>6, <1>7 DEF S

Letters == 65..122

\* What tells the short names apart.
Sign(s) == Len(s) * 1000 + s[1]

BySign(n) ==
    CASE n = 2067 -> <<85, 4, 3>>
      [] n = 12115 -> <<85, 4, 5>>
      [] n = 1067 -> <<85, 4, 6>>
      [] n = 1076 -> <<85, 4, 7>>
      [] n = 2083 -> <<85, 4, 8>>
      [] n = 6083 -> <<85, 4, 9>>
      [] n = 1079 -> <<85, 4, 10>>
      [] n = 2079 -> <<85, 4, 11>>
      [] n = 2068 -> <<9, 146, 38, 137, 147, 242, 44, 100, 1, 25>>
      [] n = 3085 -> <<9, 146, 38, 137, 147, 242, 44, 100, 1, 1>>
      [] n = 12101 -> <<42, 134, 72, 134, 247, 13, 1, 9, 1>>

\* k has the short name s.
Brief(k, s) == s \in Seq(Letters) /\ s # <<>> /\ k = BySign(Sign(s))

LEMMA TypeCases ==
    ASSUME NEW t
    PROVE  Brief(t, attribute_type(t)) \/ attribute_type(t) = dotted(t)
<1>1. Brief(<<85, 4, 3>>,
           <<67, 78>>)
  <2> DEFINE s == <<67, 78>>
  <2>1. s \in Seq(Letters) /\ Len(s) = 2 /\ s[1] = 67 /\ s # <<>>
    BY DEF Letters
  <2> HIDE DEF s
  <2>2. Sign(s) = 2067
    BY <2>1 DEF Sign
  <2>3. BySign(2067) = <<85, 4, 3>>
    BY DEF BySign
  <2> QED
    BY <2>1, <2>2, <2>3 DEF Brief, s
<1>2. Brief(<<85, 4, 5>>,
           <<115, 101, 114, 105, 97, 108, 78, 117, 109, 98, 101, 114>>)
  <2> DEFINE s == <<115, 101, 114, 105, 97, 108, 78, 117, 109, 98, 101, 114>>
  <2>1. s \in Seq(Letters) /\ Len(s) = 12 /\ s[1] = 115 /\ s # <<>>
    BY DEF Letters
  <2> HIDE DEF s
  <2>2. Sign(s) = 12115
    BY <2>1 DEF Sign
  <2>3. BySign(12115) = <<85, 4, 5>>
    BY DEF BySign
  <2> QED
    BY <2>1, <2>2, <2>3 DEF Brief, s
<1>3. Brief(<<85, 4, 6>>,
           <<67>>)
  <2> DEFINE s == <<67>>
  <2>1. s \in Seq(Letters) /\ Len(s) = 1 /\ s[1] = 67 /\ s # <<>>
    BY DEF Letters
  <2> HIDE DEF s
  <2>2. Sign(s) = 1067
    BY <2>1 DEF Sign
  <2>3. BySign(1067) = <<85, 4, 6>>
    BY DEF BySign
  <2> QED
    BY <2>1, <2>2, <2>3 DEF Brief, s
<1>4. Brief(<<85, 4, 7>>,
           <<76>>)
  <2> DEFINE s == <<76>>
  <2>1. s \in Seq(Letters) /\ Len(s) = 1 /\ s[1] = 76 /\ s # <<>>
    BY DEF Letters
  <2> HIDE DEF s
  <2>2. Sign(s) = 1076
    BY <2>1 DEF Sign
  <2>3. BySign(1076) = <<85, 4, 7>>
    BY DEF BySign
  <2> QED
    BY <2>1, <2>2, <2>3 DEF Brief, s
<1>5. Brief(<<85, 4, 8>>,
           <<83, 84>>)
  <2> DEFINE s == <<83, 84>>
  <2>1. s \in Seq(Letters) /\ Len(s) = 2 /\ s[1] = 83 /\ s # <<>>
    BY DEF Letters
  <2> HIDE DEF s
  <2>2. Sign(s) = 2083
    BY <2>1 DEF Sign
  <2>3. BySign(2083) = <<85, 4, 8>>
    BY DEF BySign
  <2> QED
    BY <2>1, <2>2, <2>3 DEF Brief, s
<1>6. Brief(<<85, 4, 9>>,
           <<83, 84, 82, 69, 69, 84>>)
  <2> DEFINE s == <<83, 84, 82, 69, 69, 84>>
  <2>1. s \in Seq(Letters) /\ Len(s) = 6 /\ s[1] = 83 /\ s # <<>>
    BY DEF Letters
  <2> HIDE DEF s
  <2>2. Sign(s) = 6083
    BY <2>1 DEF Sign
  <2>3. BySign(6083) = <<85, 4, 9>>
    BY DEF BySign
  <2> QED
    BY <2>1, <2>2, <2>3 DEF Brief, s
<1>7. Brief(<<85, 4, 10>>,
           <<79>>)
  <2> DEFINE s == <<79>>
  <2>1. s \in Seq(Letters) /\ Len(s) = 1 /\ s[1] = 79 /\ s # <<>>
    BY DEF Letters
  <2> HIDE DEF s
  <2>2. Sign(s) = 1079
    BY <2>1 DEF Sign
  <2>3. BySign(1079) = <<85, 4, 10>>
    BY DEF BySign
  <2> QED
    BY <2>1, <2>2, <2>3 DEF Brief, s
<1>8. Brief(<<85, 4, 11>>,
           <<79, 85>>)
  <2> DEFINE s == <<79, 85>>
  <2>1. s \in Seq(Letters) /\ Len(s) = 2 /\ s[1] = 79 /\ s # <<>>
    BY DEF Letters
  <2> HIDE DEF s
  <2>2. Sign(s) = 2079
    BY <2>1 DEF Sign
  <2>3. BySign(2079) = <<85, 4, 11>>
    BY DEF BySign
  <2> QED
    BY <2>1, <2>2, <2>3 DEF Brief, s
<1>9. Brief(<<9, 146, 38, 137, 147, 242, 44, 100, 1, 25>>,
           <<68, 67>>)
  <2> DEFINE s == <<68, 67>>
  <2>1. s \in Seq(Letters) /\ Len(s) = 2 /\ s[1] = 68 /\ s # <<>>
    BY DEF Letters
  <2> HIDE DEF s
  <2>2. Sign(s) = 2068
    BY <2>1 DEF Sign
  <2>3. BySign(2068) = <<9, 146, 38, 137, 147, 242, 44, 100, 1, 25>>
    BY DEF BySign
  <2> QED
    BY <2>1, <2>2, <2>3 DEF Brief, s
<1>10. Brief(<<9, 146, 38, 137, 147, 242, 44, 100, 1, 1>>,
           <<85, 73, 68>>)
  <2> DEFINE s == <<85, 73, 68>>
  <2>1. s \in Seq(Letters) /\ Len(s) = 3 /\ s[1] = 85 /\ s # <<>>
    BY DEF Letters
  <2> HIDE DEF s
  <2>2. Sign(s) = 3085
    BY <2>1 DEF Sign
  <2>3. BySign(3085) = <<9, 146, 38, 137, 147, 242, 44, 100, 1, 1>>
    BY DEF BySign
  <2> QED
    BY <2>1, <2>2, <2>3 DEF Brief, s
<1>11. Brief(<<42, 134, 72, 134, 247, 13, 1, 9, 1>>,
           <<101, 109, 97, 105, 108, 65, 100, 100, 114, 101, 115, 115>>)
  <2> DEFINE s == <<101, 109, 97, 105, 108, 65, 100, 100, 114, 101, 115, 115>>
  <2>1. s \in Seq(Letters) /\ Len(s) = 12 /\ s[1] = 101 /\ s # <<>>
    BY DEF Letters
  <2> HIDE DEF s
  <2>2. Sign(s) = 12101
    BY <2>1 DEF Sign
  <2>3. BySign(12101) = <<42, 134, 72, 134, 247, 13, 1, 9, 1>>
    BY DEF BySign
  <2> QED
    BY <2>1, <2>2, <2>3 DEF Brief, s
<1> DEFINE k1 == <<85, 4, 3>>
           s1 == <<67, 78>>
           k2 == <<85, 4, 5>>
           s2 == <<115, 101, 114, 105, 97, 108, 78, 117, 109, 98, 101, 114>>
           k3 == <<85, 4, 6>>
           s3 == <<67>>
           k4 == <<85, 4, 7>>
           s4 == <<76>>
           k5 == <<85, 4, 8>>
           s5 == <<83, 84>>
           k6 == <<85, 4, 9>>
           s6 == <<83, 84, 82, 69, 69, 84>>
           k7 == <<85, 4, 10>>
           s7 == <<79>>
           k8 == <<85, 4, 11>>
           s8 == <<79, 85>>
           k9 == <<9, 146, 38, 137, 147, 242, 44, 100, 1, 25>>
           s9 == <<68, 67>>
           k10 == <<9, 146, 38, 137, 147, 242, 44, 100, 1, 1>>
           s10 == <<85, 73, 68>>
           k11 == <<42, 134, 72, 134, 247, 13, 1, 9, 1>>
           s11 == <<101, 109, 97, 105, 108, 65, 100, 100, 114, 101, 115, 115>>
<1>12. attribute_type(t) =
          CASE t = k1 -> s1
            [] t = k2 -> s2
            [] t = k3 -> s3
            [] t = k4 -> s4
            [] t = k5 -> s5
            [] t = k6 -> s6
            [] t = k7 -> s7
            [] t = k8 -> s8
            [] t = k9 -> s9
            [] t = k10 -> s10
            [] t = k11 -> s11
            [] OTHER -> dotted(t)
  BY DEF attribute_type
<1> HIDE DEF k1, s1, k2, s2, k3, s3, k4, s4, k5, s5, k6, s6, k7, s7, k8, s8, k9, s9, k10, s10, k11, s11
<1>13. \/ t = k1 /\ attribute_type(t) = s1
       \/ t = k2 /\ attribute_type(t) = s2
       \/ t = k3 /\ attribute_type(t) = s3
       \/ t = k4 /\ attribute_type(t) = s4
       \/ t = k5 /\ attribute_type(t) = s5
       \/ t = k6 /\ attribute_type(t) = s6
       \/ t = k7 /\ attribute_type(t) = s7
       \/ t = k8 /\ attribute_type(t) = s8
       \/ t = k9 /\ attribute_type(t) = s9
       \/ t = k10 /\ attribute_type(t) = s10
       \/ t = k11 /\ attribute_type(t) = s11
       \/ attribute_type(t) = dotted(t)
  BY <1>12
<1>14. Brief(k1, s1) /\ Brief(k2, s2) /\ Brief(k3, s3) /\ Brief(k4, s4) /\ Brief(k5, s5) /\ Brief(k6, s6)
  BY <1>1, <1>2, <1>3, <1>4, <1>5, <1>6 DEF k1, s1, k2, s2, k3, s3, k4, s4, k5, s5, k6, s6
<1>15. Brief(k7, s7) /\ Brief(k8, s8) /\ Brief(k9, s9) /\ Brief(k10, s10) /\ Brief(k11, s11)
  BY <1>7, <1>8, <1>9, <1>10, <1>11 DEF k7, s7, k8, s8, k9, s9, k10, s10, k11, s11
<1> QED
  BY <1>13, <1>14, <1>15

\* Types are told apart by their text, which begins with a letter or a digit
\* and has no equals sign.
LEMMA TypeTold ==
    ASSUME NEW t \in Identifiers, NEW u \in Identifiers, attribute_type(t) = attribute_type(u)
    PROVE  t = u
<1>1. \A k, s : Brief(k, s) => s[1] \in Letters /\ k = BySign(Sign(s))
  <2>1. \A s \in Seq(Letters) : s # <<>> => s[1] \in Letters
    BY HeadTailProperties
  <2> QED
    BY <2>1 DEF Brief
<1>2. dotted(t)[1] \in Digits10 /\ dotted(u)[1] \in Digits10
  BY DottedType
<1>3. Letters \cap Digits10 = {}
  BY DEF Letters, Digits10
<1>4. CASE Brief(t, attribute_type(t)) /\ Brief(u, attribute_type(u))
  BY <1>1, <1>4
<1>5. CASE attribute_type(t) = dotted(t) /\ attribute_type(u) = dotted(u)
  BY <1>5, DottedTold
<1>6. CASE Brief(t, attribute_type(t)) /\ attribute_type(u) = dotted(u)
  BY <1>1, <1>2, <1>3, <1>6
<1>7. CASE attribute_type(t) = dotted(t) /\ Brief(u, attribute_type(u))
  BY <1>1, <1>2, <1>3, <1>7
<1> QED
  BY <1>4, <1>5, <1>6, <1>7, TypeCases

TypeOctets == Nat \ {Equals}

LEMMA TypeIs ==
    ASSUME NEW t \in Identifiers
    PROVE  /\ attribute_type(t) \in Seq(TypeOctets) /\ attribute_type(t) # <<>>
           /\ attribute_type(t)[1] \in Letters \cup Digits10
<1>1. CASE Brief(t, attribute_type(t))
  <2> DEFINE s == attribute_type(t)
  <2>1. s \in Seq(Letters) /\ s # <<>> /\ attribute_type(t) = s
    BY <1>1 DEF Brief
  <2> HIDE DEF s
  <2>2. Letters \subseteq TypeOctets
    BY DEF Letters, TypeOctets, Equals
  <2>3. s \in Seq(TypeOctets) /\ s[1] \in Letters
    BY <2>1, <2>2, SeqMonotonic, HeadTailProperties
  <2> QED
    BY <2>1, <2>3
<1>2. CASE attribute_type(t) = dotted(t)
  <2> DEFINE s == dotted(t)
  <2>1. /\ s \in Seq(Digits10AndDot) /\ s # <<>> /\ s[1] \in Digits10
        /\ attribute_type(t) = s
    BY <1>2, DottedType
  <2> HIDE DEF s
  <2>2. Digits10AndDot \subseteq TypeOctets
    BY DEF Digits10AndDot, Digits10, Dot, TypeOctets, Equals
  <2>3. s \in Seq(TypeOctets)
    BY <2>1, <2>2, SeqMonotonic
  <2> QED
    BY <2>1, <2>3
<1> QED
  BY <1>1, <1>2, TypeCases

-----------------------------------------------------------------------------
(* Attributes.                                                              *)

\* What stands for a string never begins like what stands for octets.
LEMMA NotHex ==
    ASSUME NEW s \in Text, NEW x \in Ends, NEW u \in Text
    PROVE  escaped(s) \o x # Cons(Hash, u)
<1>0. Hash \in Nat /\ Hash \notin {Comma, Plus}
  BY DEF Hash, Comma, Plus
<1>1. Cons(Hash, u) # <<>> /\ Cons(Hash, u)[1] = Hash
  <2>1. Conses(Cons(Hash, u), Hash, u)
    BY <1>0, ConsIs DEF Text
  <2> QED
    BY <2>1 DEF Conses
<1>2. escaped(s) \in Text /\ (escaped(s) = <<>> \/ escaped(s)[1] # Hash)
  BY TokensAre
<1>3. x \in Text /\ (x = <<>> \/ x[1] \in {Comma, Plus})
  <2>1. x \in Text
    BY EndsText
  <2> QED
    BY <2>1, EndsAre
<1>4. CASE escaped(s) = <<>>
  <2>1. escaped(s) \o x = x
    BY <1>3, <1>4, ConcatEmptySeq DEF Text
  <2> QED
    BY <1>0, <1>1, <1>3, <2>1
<1>5. CASE escaped(s) # <<>>
  <2>1. (escaped(s) \o x)[1] = escaped(s)[1]
    BY <1>2, <1>3, <1>5, FirstStays DEF Text
  <2> QED
    BY <1>1, <1>2, <1>5, <2>1
<1> QED
  BY <1>4, <1>5

\* That two values say the same.
SameValue(g, v, h, w) ==
    /\ IsText(g) <=> IsText(h)
    /\ IsText(g) => Characters(g, v) = Characters(h, w)
    /\ ~IsText(g) => v = w

LEMMA ValueIs ==
    ASSUME NEW g, NEW v \in Octets
    PROVE  /\ attribute_value(g, v) \in Text
           /\ IsText(g) => attribute_value(g, v) = escaped(Characters(g, v))
           /\ ~IsText(g) => attribute_value(g, v) = Cons(Hash, Hex(v))
<1>1. Characters(g, v) \in Text /\ Hex(v) \in Text /\ Hash \in Nat
  BY CharactersType, PairsAre DEF Hash
<1>2. escaped(Characters(g, v)) \in Text /\ Cons(Hash, Hex(v)) \in Text
  BY <1>1, TokensAre, ConsIs DEF Text
<1>3. attribute_value(g, v) = IF IsText(g) THEN escaped(Characters(g, v)) ELSE Cons(Hash, Hex(v))
  BY DEF attribute_value, Cons
<1> QED
  BY <1>2, <1>3

\* Values are told from how they are written, whatever follows.
ValueApart(g, v, x, h, w, y) ==
    attribute_value(g, v) \o x = attribute_value(h, w) \o y => x = y /\ SameValue(g, v, h, w)

LEMMA ValueTold ==
    ASSUME NEW g, NEW v \in Octets, NEW h, NEW w \in Octets, NEW x \in Ends, NEW y \in Ends
    PROVE  ValueApart(g, v, x, h, w, y)
<1> SUFFICES ASSUME attribute_value(g, v) \o x = attribute_value(h, w) \o y
             PROVE  x = y /\ SameValue(g, v, h, w)
  BY DEF ValueApart
<1>0. x \in Text /\ y \in Text
  BY EndsText
<1>1. /\ Characters(g, v) \in Text /\ Characters(h, w) \in Text
      /\ Hex(v) \in Text /\ Hex(w) \in Text /\ Hash \in Nat
  BY CharactersType, PairsAre DEF Hash
<1>2. ASSUME NEW u \in Octets, NEW z \in Ends
      PROVE  /\ Hex(u) \o z \in Text
             /\ Cons(Hash, Hex(u)) \o z = Cons(Hash, Hex(u) \o z)
  <2>1. z \in Text /\ Hex(u) \in Text
    BY PairsAre, EndsText
  <2>2. Moves(Hash, Hex(u), z)
    BY <1>1, <2>1, ConsMoves DEF Text
  <2> QED
    BY <2>1, <2>2, ConcatText DEF Moves
<1>3. CASE IsText(g) /\ IsText(h)
  <2>1. escaped(Characters(g, v)) \o x = escaped(Characters(h, w)) \o y
    BY <1>3, ValueIs
  <2>2. EscapedApart(Characters(g, v), x, Characters(h, w), y)
    BY <1>1, EscapedTold
  <2>3. Characters(g, v) = Characters(h, w) /\ x = y
    BY <2>1, <2>2 DEF EscapedApart
  <2> QED
    BY <1>3, <2>3 DEF SameValue
<1>4. CASE ~IsText(g) /\ ~IsText(h)
  <2>1. Cons(Hash, Hex(v) \o x) = Cons(Hash, Hex(w) \o y)
    BY <1>2, <1>4, ValueIs
  <2>2. Hex(v) \o x \in Seq(Nat) /\ Hex(w) \o y \in Seq(Nat)
    BY <1>2 DEF Text
  <2>3. Hex(v) \o x = Hex(w) \o y
    BY <1>1, <2>1, <2>2, ConsInjective
  <2>4. v = w /\ x = y
    <3>1. HexApart(v, x, w, y)
      BY HexTold
    <3> QED
      BY <2>3, <3>1 DEF HexApart
  <2> QED
    BY <1>4, <2>4 DEF SameValue
<1>5. CASE IsText(g) /\ ~IsText(h)
  <2>1. escaped(Characters(g, v)) \o x = Cons(Hash, Hex(w) \o y) /\ Hex(w) \o y \in Text
    BY <1>2, <1>5, ValueIs
  <2> QED
    BY <1>1, <2>1, NotHex
<1>6. CASE ~IsText(g) /\ IsText(h)
  <2>1. escaped(Characters(h, w)) \o y = Cons(Hash, Hex(v) \o x) /\ Hex(v) \o x \in Text
    BY <1>2, <1>6, ValueIs
  <2> QED
    BY <1>1, <2>1, NotHex
<1> QED
  BY <1>3, <1>4, <1>5, <1>6

Attrs == [type : Identifiers, tag : Tags, value : Octets]

SameAttribute(a, b) ==
    a.type = b.type /\ SameValue(a.tag, a.value, b.tag, b.value)

\* Where an attribute is followed by x, and what follows its type.
TypeThen(a, x) ==
    /\ attribute_type(a.type) \in Seq(Nat \ {Equals})
    /\ attribute_value(a.tag, a.value) \o x \in Text
    /\ Cons(Equals, attribute_value(a.tag, a.value) \o x) \in Text
    /\ Stopped(Cons(Equals, attribute_value(a.tag, a.value) \o x), {Equals})
    /\ AttributeText(a) \o x
         = attribute_type(a.type) \o Cons(Equals, attribute_value(a.tag, a.value) \o x)

LEMMA AttributeIs ==
    ASSUME NEW a \in Attrs
    PROVE  /\ AttributeText(a) \in Text /\ AttributeText(a) # <<>>
           /\ AttributeText(a)[1] \notin {Comma, Plus}
           /\ \A x \in Text : TypeThen(a, x)
<1> DEFINE p == attribute_type(a.type)
           v == attribute_value(a.tag, a.value)
           c == Cons(Equals, v)
<1>1. /\ p \in Seq(TypeOctets) /\ p # <<>> /\ p[1] \in Letters \cup Digits10
      /\ v \in Text /\ Equals \in Nat
  BY TypeIs, ValueIs DEF Attrs, Equals
<1>2. AttributeText(a) = p \o c
  BY DEF AttributeText, Cons
<1> HIDE DEF p, v
<1>3. c \in Seq(Nat) /\ Conses(c, Equals, v)
  BY <1>1, ConsIs DEF Text
<1>4. p \in Seq(Nat)
  BY <1>1, TypeOctets \subseteq Nat, SeqMonotonic DEF TypeOctets
<1>5. AttributeText(a) \in Text /\ AttributeText(a) # <<>> /\ AttributeText(a)[1] = p[1]
  <2> HIDE DEF c
  <2> QED
    BY <1>1, <1>2, <1>3, <1>4, FirstStays, CatHolds DEF Text
<1>6. ASSUME NEW x \in Text PROVE TypeThen(a, x)
  <2>1. v \o x \in Text
    BY <1>1, ConcatText
  <2>2. Cons(Equals, v \o x) \in Text /\ Conses(Cons(Equals, v \o x), Equals, v \o x)
    BY <1>1, <2>1, ConsIs DEF Text
  <2>3. Stopped(Cons(Equals, v \o x), {Equals})
    BY <2>2 DEF Stopped, Conses
  <2>4. Moves(Equals, v, x)
    BY <1>1, ConsMoves DEF Text
  <2>5. c \o x = Cons(Equals, v \o x)
    BY <2>4 DEF Moves
  <2> HIDE DEF c
  <2>6. Assoc(p, c, x)
    BY <1>3, <1>4, Associative DEF Text
  <2>7. AttributeText(a) \o x = p \o Cons(Equals, v \o x)
    BY <1>2, <2>5, <2>6 DEF Assoc
  <2>8. p \in Seq(Nat \ {Equals})
    BY <1>1 DEF TypeOctets
  <2> QED
    BY <2>1, <2>2, <2>3, <2>7, <2>8 DEF TypeThen, p, v
<1>7. Letters \cap {Comma, Plus} = {} /\ Digits10 \cap {Comma, Plus} = {}
  BY DEF Letters, Digits10, Comma, Plus
<1> QED
  BY <1>1, <1>5, <1>6, <1>7

AttributesApart(a, x, b, y) ==
    AttributeText(a) \o x = AttributeText(b) \o y => SameAttribute(a, b) /\ x = y

\* An attribute is told from its text, whatever follows.
LEMMA AttributeTold ==
    ASSUME NEW a \in Attrs, NEW b \in Attrs, NEW x \in Ends, NEW y \in Ends
    PROVE  AttributesApart(a, x, b, y)
<1> SUFFICES ASSUME AttributeText(a) \o x = AttributeText(b) \o y
             PROVE  SameAttribute(a, b) /\ x = y
  BY DEF AttributesApart
<1> DEFINE p == attribute_type(a.type)
           q == attribute_type(b.type)
           v == attribute_value(a.tag, a.value) \o x
           w == attribute_value(b.tag, b.value) \o y
           c == Cons(Equals, v)
           d == Cons(Equals, w)
           stops == {Equals}
<1>1. TypeThen(a, x) /\ TypeThen(b, y)
  BY EndsText, AttributeIs
<1>2. /\ p \in Seq(Nat \ stops) /\ v \in Text /\ c \in Text /\ Stopped(c, stops)
      /\ q \in Seq(Nat \ stops) /\ w \in Text /\ d \in Text /\ Stopped(d, stops)
      /\ p \o c = q \o d
  BY <1>1 DEF TypeThen
<1>3. p = q /\ c = d
  <2> HIDE DEF p, q, c, d, stops
  <2>1. Apart(p, c, q, d)
    BY <1>2, StopTold
  <2> QED
    BY <1>2, <2>1 DEF Apart
<1>4. a.type = b.type
  BY <1>3, TypeTold DEF Attrs
<1>5. v = w
  <2>1. Equals \in Nat /\ v \in Seq(Nat) /\ w \in Seq(Nat)
    BY <1>2 DEF Equals, Text
  <2>2. Cons(Equals, v) = Cons(Equals, w)
    BY <1>3
  <2> HIDE DEF v, w
  <2> QED
    BY <2>1, <2>2, ConsInjective
<1>6. ValueApart(a.tag, a.value, x, b.tag, b.value, y)
  BY ValueTold DEF Attrs
<1> QED
  BY <1>4, <1>5, <1>6 DEF ValueApart, SameAttribute

-----------------------------------------------------------------------------
(* Names.                                                                   *)

AttributeTexts == {AttributeText(a) : a \in Attrs}

TextsOf(rdn) == [j \in DOMAIN rdn |-> AttributeText(rdn[j])]

SamePart(r, s) == Len(r) = Len(s) /\ \A j \in 1..Len(r) : SameAttribute(r[j], s[j])

\* What may follow a part of a name: nothing, or another.
PartEnds == {<<>>} \cup Behind(Comma, Text)

LEMMA BehindIs ==
    ASSUME NEW c \in Nat
    PROVE  /\ Behind(c, Text) \subseteq Text
           /\ \A s \in Behind(c, Text) : s # <<>> /\ s[1] = c
<1> SUFFICES ASSUME NEW s \in Behind(c, Text) PROVE s \in Text /\ s # <<>> /\ s[1] = c
  OBVIOUS
<1>1. PICK r \in Text : s = Cons(c, r)
  BY DEF Behind
<1>2. s \in Text /\ Conses(s, c, r)
  BY <1>1, ConsIs DEF Text
<1> QED
  BY <1>2 DEF Conses

LEMMA AttributesTold ==
    /\ AttributeTexts \subseteq Text
    /\ Told(AttributeTexts, Ends)
    /\ JoinsTold(AttributeTexts, Plus, PartEnds)
<1>1. AttributeTexts \subseteq Text
  BY AttributeIs DEF AttributeTexts
<1>2. Told(AttributeTexts, Ends)
  <2> SUFFICES ASSUME NEW a \in Attrs, NEW b \in Attrs, NEW x \in Ends, NEW y \in Ends
               PROVE  Apart(AttributeText(a), x, AttributeText(b), y)
    BY DEF Told, AttributeTexts
  <2> DEFINE p == AttributeText(a)
             q == AttributeText(b)
  <2>1. AttributesApart(a, x, b, y)
    BY AttributeTold
  <2>2. p \in Text /\ q \in Text /\ x \in Text /\ y \in Text
    BY AttributeIs, EndsText
  <2> SUFFICES ASSUME p \o x = q \o y PROVE p = q /\ x = y
    BY DEF Apart
  <2>3. x = y
    BY <2>1 DEF AttributesApart
  <2> HIDE DEF p, q
  <2>4. Len(p) = Len(q)
    <3>1. Len(p \o x) = Len(p) + Len(x) /\ Len(q \o y) = Len(q) + Len(y)
      BY <2>2, ConcatText
    <3>2. Len(p) \in Nat /\ Len(q) \in Nat /\ Len(x) \in Nat
      BY <2>2, LenProperties DEF Text
    <3> QED
      BY <2>3, <3>1, <3>2
  <2> QED
    BY <2>2, <2>4, SameLength DEF Apart
<1>3. Plus \in Nat /\ Comma \in Nat /\ Comma # Plus
  BY DEF Plus, Comma
<1>4. PartEnds \subseteq Text /\ PartEnds \cap Behind(Plus, Text) = {}
  <2>1. <<>> \in Text
    BY EmptySeq DEF Text
  <2> QED
    BY <1>3, <2>1, BehindIs DEF PartEnds
<1>5. PartEnds \cup Behind(Plus, Text) = Ends
  BY DEF PartEnds, Ends
<1>6. JoinsTold(AttributeTexts, Plus, PartEnds)
  BY <1>1, <1>2, <1>3, <1>4, <1>5, JoinTold
<1> QED
  BY <1>1, <1>2, <1>6

LEMMA TextsAre ==
    ASSUME NEW r \in Seq(Attrs), r # <<>>
    PROVE  /\ TextsOf(r) \in Seq(AttributeTexts) \ {<<>>} /\ Len(TextsOf(r)) = Len(r)
           /\ \A j \in 1..Len(r) : TextsOf(r)[j] = AttributeText(r[j])
           /\ PartText(r) = Join(TextsOf(r), Plus)
           /\ PartText(r) \in Text /\ PartText(r) # <<>>
<1> DEFINE w == TextsOf(r)
           n == Len(r)
<1>1. n \in Nat \ {0} /\ DOMAIN r = 1..n /\ \A j \in 1..n : r[j] \in Attrs
  BY EmptySeq, LenProperties, ElementOfSeq
<1>2. w \in [1..n -> AttributeTexts] /\ \A j \in 1..n : w[j] = AttributeText(r[j])
  BY <1>1 DEF TextsOf, AttributeTexts
<1>3. PartText(r) = Join(w, Plus)
  BY DEF PartText, TextsOf
<1> HIDE DEF w, n
<1>4. w \in Seq(AttributeTexts) /\ Len(w) = n
  BY <1>1, <1>2, FunctionIsSeq
<1>5. w # <<>>
  BY <1>1, <1>4, EmptySeq
<1>6. w \in Seq(Seq(Nat))
  <2> DEFINE T == Seq(Nat)
  <2>1. AttributeTexts \subseteq T
    BY AttributesTold DEF Text
  <2> HIDE DEF T
  <2>2. w \in Seq(T)
    BY <1>4, <2>1, SeqMonotonic
  <2> QED
    BY <2>2 DEF T
<1>7. w[1] # <<>>
  BY <1>1, <1>2, AttributeIs
<1>8. Plus \in Nat
  BY DEF Plus
<1>9. Join(w, Plus) \in Text /\ Join(w, Plus) # <<>>
  BY <1>5, <1>6, <1>7, <1>8, JoinAppend, JoinFirst, EmptySeq DEF Text
<1> QED
  BY <1>2, <1>3, <1>4, <1>5, <1>9 DEF w, n

PartsApart(r, x, s, y) ==
    PartText(r) \o x = PartText(s) \o y => SamePart(r, s) /\ x = y

LEMMA PartTold ==
    ASSUME NEW r \in Seq(Attrs) \ {<<>>}, NEW s \in Seq(Attrs) \ {<<>>},
           NEW x \in PartEnds, NEW y \in PartEnds
    PROVE  PartsApart(r, x, s, y)
<1> SUFFICES ASSUME PartText(r) \o x = PartText(s) \o y PROVE SamePart(r, s) /\ x = y
  BY DEF PartsApart
<1>1. /\ TextsOf(r) \in Seq(AttributeTexts) \ {<<>>} /\ Len(TextsOf(r)) = Len(r)
      /\ \A j \in 1..Len(r) : TextsOf(r)[j] = AttributeText(r[j])
      /\ PartText(r) = Join(TextsOf(r), Plus)
  BY TextsAre
<1>2. /\ TextsOf(s) \in Seq(AttributeTexts) \ {<<>>} /\ Len(TextsOf(s)) = Len(s)
      /\ \A j \in 1..Len(s) : TextsOf(s)[j] = AttributeText(s[j])
      /\ PartText(s) = Join(TextsOf(s), Plus)
  BY TextsAre
<1>3. TextsOf(r) = TextsOf(s) /\ x = y
  <2> DEFINE v == TextsOf(r)
             w == TextsOf(s)
  <2>1. /\ v \in Seq(AttributeTexts) \ {<<>>} /\ w \in Seq(AttributeTexts) \ {<<>>}
        /\ Join(v, Plus) \o x = Join(w, Plus) \o y
    BY <1>1, <1>2
  <2>2. JoinsTold(AttributeTexts, Plus, PartEnds)
    BY AttributesTold
  <2> HIDE DEF v, w
  <2>3. JoinApart(Plus, v, x, w, y)
    BY <2>1, <2>2 DEF JoinsTold
  <2>4. v = w /\ x = y
    BY <2>1, <2>3 DEF JoinApart
  <2> QED
    BY <2>4 DEF v, w
<1>4. ASSUME NEW j \in 1..Len(r) PROVE SameAttribute(r[j], s[j])
  <2>1. r[j] \in Attrs /\ s[j] \in Attrs
    BY <1>1, <1>2, <1>3, ElementOfSeq
  <2>2. AttributeText(r[j]) = AttributeText(s[j])
    BY <1>1, <1>2, <1>3
  <2> DEFINE e == <<>>
  <2>3. e \in Ends
    BY DEF Ends
  <2> HIDE DEF e
  <2>4. AttributesApart(r[j], e, s[j], e)
    BY <2>1, <2>3, AttributeTold
  <2> QED
    BY <2>2, <2>4 DEF AttributesApart
<1> QED
  BY <1>1, <1>2, <1>3, <1>4 DEF SamePart

PartTexts == {PartText(r) : r \in Seq(Attrs) \ {<<>>}}

PartTextsOf(rdns) == [i \in DOMAIN rdns |-> PartText(rdns[i])]

NamesAgree(d, e) == Len(d) = Len(e) /\ \A i \in 1..Len(d) : SamePart(d[i], e[i])

LEMMA PartsTold ==
    PartTexts \subseteq Text /\ JoinsTold(PartTexts, Comma, {<<>>})
<1>1. PartTexts \subseteq Text
  BY TextsAre DEF PartTexts
<1>2. Told(PartTexts, PartEnds)
  <2> SUFFICES ASSUME NEW r \in Seq(Attrs) \ {<<>>}, NEW s \in Seq(Attrs) \ {<<>>},
                      NEW x \in PartEnds, NEW y \in PartEnds
               PROVE  Apart(PartText(r), x, PartText(s), y)
    BY DEF Told, PartTexts
  <2> DEFINE p == PartText(r)
             q == PartText(s)
  <2>1. PartsApart(r, x, s, y)
    BY PartTold
  <2>2. p \in Text /\ q \in Text /\ x \in Text /\ y \in Text
    <3>1. Comma \in Nat /\ <<>> \in Text
      BY EmptySeq DEF Comma, Text
    <3>2. PartEnds \subseteq Text
      BY <3>1, BehindIs DEF PartEnds
    <3> QED
      BY <3>2, TextsAre
  <2> SUFFICES ASSUME p \o x = q \o y PROVE p = q /\ x = y
    BY DEF Apart
  <2>3. x = y
    BY <2>1 DEF PartsApart
  <2> HIDE DEF p, q
  <2>4. Len(p) = Len(q)
    <3>1. Len(p \o x) = Len(p) + Len(x) /\ Len(q \o y) = Len(q) + Len(y)
      BY <2>2, ConcatText
    <3>2. Len(p) \in Nat /\ Len(q) \in Nat /\ Len(x) \in Nat
      BY <2>2, LenProperties DEF Text
    <3> QED
      BY <2>3, <3>1, <3>2
  <2> QED
    BY <2>2, <2>4, SameLength DEF Apart
<1> DEFINE X == {<<>>}
<1>3. /\ Comma \in Nat /\ X \subseteq Text /\ X \cap Behind(Comma, Text) = {}
      /\ PartEnds = X \cup Behind(Comma, Text)
  <2>1. Comma \in Nat /\ <<>> \in Text
    BY EmptySeq DEF Comma, Text
  <2> QED
    BY <2>1, BehindIs DEF PartEnds
<1> HIDE DEF X
<1>4. JoinsTold(PartTexts, Comma, X)
  BY <1>1, <1>2, <1>3, JoinTold
<1> QED
  BY <1>1, <1>4 DEF X

LEMMA PartsAre ==
    ASSUME NEW d \in DistinguishedNames, d # <<>>
    PROVE  /\ PartTextsOf(d) \in Seq(PartTexts) \ {<<>>} /\ Len(PartTextsOf(d)) = Len(d)
           /\ \A i \in 1..Len(d) : PartTextsOf(d)[i] = PartText(d[i])
           /\ NameText(d) = Join(PartTextsOf(d), Comma) /\ NameText(d) # <<>>
<1> DEFINE w == PartTextsOf(d)
           n == Len(d)
           P == Seq(Attrs) \ {<<>>}
<1>1. n \in Nat \ {0} /\ DOMAIN d = 1..n /\ \A i \in 1..n : d[i] \in P
  <2>1. d \in Seq(P)
    BY DEF DistinguishedNames, Attrs
  <2> HIDE DEF P
  <2> QED
    BY <2>1, EmptySeq, LenProperties, ElementOfSeq
<1>2. w \in [1..n -> PartTexts] /\ \A i \in 1..n : w[i] = PartText(d[i])
  BY <1>1 DEF PartTextsOf, PartTexts
<1>3. NameText(d) = Join(w, Comma)
  BY DEF NameText, PartTextsOf
<1> HIDE DEF w, n
<1>4. w \in Seq(PartTexts) /\ Len(w) = n
  BY <1>1, <1>2, FunctionIsSeq
<1>5. w # <<>>
  BY <1>1, <1>4, EmptySeq
<1>6. w \in Seq(Seq(Nat))
  <2> DEFINE T == Seq(Nat)
  <2>1. PartTexts \subseteq T
    BY PartsTold DEF Text
  <2> HIDE DEF T
  <2>2. w \in Seq(T)
    BY <1>4, <2>1, SeqMonotonic
  <2> QED
    BY <2>2 DEF T
<1>7. w[1] # <<>>
  <2>1. 1 \in 1..n
    BY <1>1
  <2>2. d[1] \in Seq(Attrs) /\ d[1] # <<>>
    BY <1>1, <2>1
  <2> QED
    BY <1>2, <2>1, <2>2, TextsAre
<1>8. Comma \in Nat
  BY DEF Comma
<1>9. Join(w, Comma) # <<>>
  BY <1>5, <1>6, <1>7, <1>8, JoinFirst
<1> QED
  BY <1>2, <1>3, <1>4, <1>5, <1>9 DEF w, n

NamesApart(d, e) == NameText(d) = NameText(e) => NamesAgree(d, e)

\* A name is told from its text.
LEMMA NameTold ==
    ASSUME NEW d \in DistinguishedNames, NEW e \in DistinguishedNames
    PROVE  NamesApart(d, e)
<1> SUFFICES ASSUME NameText(d) = NameText(e) PROVE NamesAgree(d, e)
  BY DEF NamesApart
<1>0. NameText(<<>>) = <<>>
  BY FlattenEmpty DEF NameText, Join
<1>1. d = <<>> <=> e = <<>>
  BY <1>0, PartsAre
<1>2. CASE d = <<>>
  <2>1. d = e /\ Len(d) = 0
    BY <1>1, <1>2
  <2> QED
    BY <2>1 DEF NamesAgree
<1>3. CASE d # <<>>
  <2>1. /\ PartTextsOf(d) \in Seq(PartTexts) \ {<<>>} /\ Len(PartTextsOf(d)) = Len(d)
        /\ \A i \in 1..Len(d) : PartTextsOf(d)[i] = PartText(d[i])
        /\ NameText(d) = Join(PartTextsOf(d), Comma)
    BY <1>3, PartsAre
  <2>2. /\ PartTextsOf(e) \in Seq(PartTexts) \ {<<>>} /\ Len(PartTextsOf(e)) = Len(e)
        /\ \A i \in 1..Len(e) : PartTextsOf(e)[i] = PartText(e[i])
        /\ NameText(e) = Join(PartTextsOf(e), Comma)
    BY <1>1, <1>3, PartsAre
  <2>3. PartTextsOf(d) = PartTextsOf(e)
    <3> DEFINE v == PartTextsOf(d)
               w == PartTextsOf(e)
               z == <<>>
               X == {z}
    <3>1. /\ v \in Seq(PartTexts) \ {<<>>} /\ w \in Seq(PartTexts) \ {<<>>} /\ z \in X
          /\ Join(v, Comma) \o z = Join(w, Comma) \o z
      BY <2>1, <2>2
    <3>2. JoinsTold(PartTexts, Comma, X)
      BY PartsTold
    <3> HIDE DEF v, w, z, X
    <3>3. v = w
      BY <3>1, <3>2 DEF JoinsTold, JoinApart
    <3> QED
      BY <3>3 DEF v, w
  <2>4. ASSUME NEW i \in 1..Len(d) PROVE SamePart(d[i], e[i])
    <3> DEFINE P == Seq(Attrs) \ {<<>>}
               z == <<>>
    <3>1. d[i] \in P /\ e[i] \in P
      <4>1. d \in Seq(P) /\ e \in Seq(P)
        BY DEF DistinguishedNames, Attrs
      <4> HIDE DEF P
      <4> QED
        BY <2>1, <2>2, <2>3, <4>1, ElementOfSeq
    <3>2. PartText(d[i]) = PartText(e[i]) /\ z \in PartEnds
      BY <2>1, <2>2, <2>3 DEF PartEnds
    <3>3. PartsApart(d[i], z, e[i], z)
      BY <3>1, <3>2, PartTold
    <3> HIDE DEF z
    <3> QED
      BY <3>2, <3>3 DEF PartsApart
  <2> QED
    BY <2>1, <2>2, <2>3, <2>4 DEF NamesAgree
<1> QED
  BY <1>2, <1>3

LEMMA ReversedIs ==
    ASSUME NEW d \in DistinguishedNames
    PROVE  /\ Reverse(d) \in DistinguishedNames /\ Len(Reverse(d)) = Len(d)
           /\ Len(d) \in Nat /\ DOMAIN d = 1..Len(d)
           /\ \A i \in 1..Len(d) : d[i] \in Seq(Attrs)
           /\ \A i \in 1..Len(d) : d[i] = Reverse(d)[Len(d) - i + 1]
<1> DEFINE P == Seq(Attrs) \ {<<>>}
           n == Len(d)
           r == Reverse(d)
<1>1. d \in Seq(P) /\ DistinguishedNames = Seq(P)
  BY DEF DistinguishedNames, Attrs
<1>2. \A i \in 1..n : d[i] \in Seq(Attrs)
  <2> HIDE DEF n
  <2> SUFFICES ASSUME NEW i \in 1..n PROVE d[i] \in P
    OBVIOUS
  <2> HIDE DEF P
  <2> QED
    BY <1>1, ElementOfSeq DEF n
<1> HIDE DEF P
<1>3. n \in Nat /\ DOMAIN d = 1..n /\ \A i \in 1..n : d[i] \in P
  BY <1>1, LenProperties, ElementOfSeq
<1>4. r = [i \in 1..n |-> d[(n - i) + 1]]
  BY DEF Reverse
<1> HIDE DEF n, r
<1>5. \A i \in 1..n : (n - i) + 1 \in 1..n /\ (n - (n - i + 1)) + 1 = i
  BY <1>3
<1>6. r \in [1..n -> P]
  BY <1>3, <1>4, <1>5
<1>7. r \in Seq(P) /\ Len(r) = n
  BY <1>3, <1>6, FunctionIsSeq
<1>8. \A i \in 1..n : d[i] = r[n - i + 1]
  BY <1>4, <1>5
<1> QED
  BY <1>1, <1>2, <1>3, <1>7, <1>8 DEF n, r

LEMMA SameBound == ASSUME NEW m \in Nat, NEW n \in Nat, 1..m = 1..n PROVE m = n
<1>1. m \in 1..m \/ m = 0
  OBVIOUS
<1>2. n \in 1..n \/ n = 0
  OBVIOUS
<1> QED
  BY <1>1, <1>2

\* What the text of an attribute tells.
AttributeTells(a) ==
    [type |-> a.type, isString |-> IsText(a.tag), value |-> ValueContents(a.tag, a.value)]

\* It is what the text is told by, and all that it depends on.
LEMMA ContentsAreSame ==
    ASSUME NEW a, NEW b
    PROVE  AttributeTells(a) = AttributeTells(b) <=> SameAttribute(a, b)
<1>1. IsText(a.tag) \in BOOLEAN /\ IsText(b.tag) \in BOOLEAN
  BY DEF IsText
<1>2. AttributeTells(a) = AttributeTells(b) <=>
          /\ a.type = b.type
          /\ IsText(a.tag) = IsText(b.tag)
          /\ ValueContents(a.tag, a.value) = ValueContents(b.tag, b.value)
  BY DEF AttributeTells
<1> QED
  BY <1>1, <1>2 DEF SameAttribute, SameValue, ValueContents

LEMMA SameAttributeText ==
    ASSUME NEW a, NEW b, SameAttribute(a, b)
    PROVE  AttributeText(a) = AttributeText(b)
<1>1. attribute_value(a.tag, a.value) = attribute_value(b.tag, b.value)
  BY DEF SameAttribute, SameValue, attribute_value
<1> QED
  BY <1>1 DEF SameAttribute, AttributeText

PartTells(r) == [j \in DOMAIN r |-> AttributeTells(r[j])]

\* The same of parts.
LEMMA PartContentsAreSame ==
    ASSUME NEW r \in Seq(Attrs), NEW s \in Seq(Attrs)
    PROVE  PartTells(r) = PartTells(s) <=> SamePart(r, s)
<1>1. DOMAIN r = 1..Len(r) /\ DOMAIN s = 1..Len(s) /\ Len(r) \in Nat /\ Len(s) \in Nat
  BY LenProperties
<1>2. ASSUME PartTells(r) = PartTells(s) PROVE SamePart(r, s)
  <2>1. DOMAIN PartTells(r) = 1..Len(r) /\ DOMAIN PartTells(s) = 1..Len(s)
    BY <1>1 DEF PartTells
  <2>2. Len(r) = Len(s)
    <3>1. 1..Len(r) = 1..Len(s)
      BY <1>2, <2>1
    <3> QED
      BY <1>1, <3>1, SameBound
  <2>3. ASSUME NEW j \in 1..Len(r) PROVE SameAttribute(r[j], s[j])
    <3>1. PartTells(r)[j] = AttributeTells(r[j])
      BY <1>1 DEF PartTells
    <3>2. PartTells(s)[j] = AttributeTells(s[j])
      BY <1>1, <2>2 DEF PartTells
    <3> QED
      BY <1>2, <3>1, <3>2, ContentsAreSame
  <2> QED
    BY <2>2, <2>3 DEF SamePart
<1>3. ASSUME SamePart(r, s) PROVE PartTells(r) = PartTells(s)
  <2>1. \A j \in 1..Len(r) : AttributeTells(r[j]) = AttributeTells(s[j])
    BY <1>3, ContentsAreSame DEF SamePart
  <2> QED
    BY <1>1, <1>3, <2>1 DEF PartTells, SamePart
<1> QED
  BY <1>2, <1>3

LEMMA SamePartText ==
    ASSUME NEW r \in Seq(Attrs), NEW s \in Seq(Attrs), SamePart(r, s)
    PROVE  PartText(r) = PartText(s)
<1>1. DOMAIN r = 1..Len(r) /\ DOMAIN s = 1..Len(r)
  BY LenProperties DEF SamePart
<1>2. \A j \in 1..Len(r) : AttributeText(r[j]) = AttributeText(s[j])
  BY SameAttributeText DEF SamePart
<1>3. TextsOf(r) = TextsOf(s)
  BY <1>1, <1>2 DEF TextsOf
<1> QED
  BY <1>3 DEF PartText, TextsOf

\* And of names.
LEMMA NameContentsAreSame ==
    ASSUME NEW d \in DistinguishedNames, NEW e \in DistinguishedNames
    PROVE  Contents(d) = Contents(e) <=> NamesAgree(d, e)
<1>0. /\ Contents(d) = [i \in DOMAIN d |-> PartTells(d[i])]
      /\ Contents(e) = [i \in DOMAIN e |-> PartTells(e[i])]
  BY DEF Contents, PartTells, AttributeTells
<1>1. /\ DOMAIN d = 1..Len(d) /\ DOMAIN e = 1..Len(e) /\ Len(d) \in Nat /\ Len(e) \in Nat
      /\ \A i \in 1..Len(d) : d[i] \in Seq(Attrs)
      /\ \A i \in 1..Len(e) : e[i] \in Seq(Attrs)
  BY ReversedIs
<1>2. ASSUME Contents(d) = Contents(e) PROVE NamesAgree(d, e)
  <2>1. DOMAIN Contents(d) = 1..Len(d) /\ DOMAIN Contents(e) = 1..Len(e)
    BY <1>0, <1>1
  <2>2. Len(d) = Len(e)
    <3>1. 1..Len(d) = 1..Len(e)
      BY <1>2, <2>1
    <3> QED
      BY <1>1, <3>1, SameBound
  <2>3. ASSUME NEW i \in 1..Len(d) PROVE SamePart(d[i], e[i])
    <3>1. Contents(d)[i] = PartTells(d[i]) /\ Contents(e)[i] = PartTells(e[i])
      BY <1>0, <1>1, <2>2
    <3>2. d[i] \in Seq(Attrs) /\ e[i] \in Seq(Attrs)
      BY <1>1, <2>2
    <3> QED
      BY <1>2, <3>1, <3>2, PartContentsAreSame
  <2> QED
    BY <2>2, <2>3 DEF NamesAgree
<1>3. ASSUME NamesAgree(d, e) PROVE Contents(d) = Contents(e)
  <2>1. Len(d) = Len(e)
    BY <1>3 DEF NamesAgree
  <2>2. ASSUME NEW i \in 1..Len(d) PROVE PartTells(d[i]) = PartTells(e[i])
    <3>1. d[i] \in Seq(Attrs) /\ e[i] \in Seq(Attrs) /\ SamePart(d[i], e[i])
      BY <1>1, <1>3, <2>1 DEF NamesAgree
    <3> QED
      BY <3>1, PartContentsAreSame
  <2> QED
    BY <1>0, <1>1, <2>1, <2>2
<1> QED
  BY <1>2, <1>3

LEMMA SameNameText ==
    ASSUME NEW d \in DistinguishedNames, NEW e \in DistinguishedNames, NamesAgree(d, e)
    PROVE  NameText(d) = NameText(e)
<1>1. /\ DOMAIN d = 1..Len(d) /\ DOMAIN e = 1..Len(d) /\ Len(e) = Len(d)
      /\ \A i \in 1..Len(d) : d[i] \in Seq(Attrs) /\ e[i] \in Seq(Attrs)
  BY ReversedIs DEF NamesAgree
<1>2. ASSUME NEW i \in 1..Len(d) PROVE PartText(d[i]) = PartText(e[i])
  <2>1. d[i] \in Seq(Attrs) /\ e[i] \in Seq(Attrs) /\ SamePart(d[i], e[i])
    BY <1>1 DEF NamesAgree
  <2> QED
    BY <2>1, SamePartText
<1>3. [i \in DOMAIN d |-> PartText(d[i])] = [i \in DOMAIN e |-> PartText(e[i])]
  BY <1>1, <1>2
<1> QED
  BY <1>3 DEF NameText

LEMMA AgreeReversed ==
    ASSUME NEW d \in DistinguishedNames, NEW e \in DistinguishedNames
    PROVE  NamesAgree(d, e) <=> NamesAgree(Reverse(d), Reverse(e))
<1> DEFINE n == Len(d)
           u == Reverse(d)
           v == Reverse(e)
<1>1. SUFFICES ASSUME Len(d) = Len(e)
               PROVE  NamesAgree(d, e) <=> NamesAgree(u, v)
  BY ReversedIs DEF NamesAgree
<1>2. /\ n \in Nat /\ Len(u) = n /\ Len(v) = n
      /\ \A i \in 1..n : d[i] = u[n - i + 1] /\ e[i] = v[n - i + 1]
  BY <1>1, ReversedIs
<1> HIDE DEF n, u, v
<1>3. ASSUME NEW i \in 1..n
      PROVE  /\ n - i + 1 \in 1..n
             /\ u[i] = d[n - i + 1] /\ v[i] = e[n - i + 1]
  <2>1. n - i + 1 \in 1..n /\ n - (n - i + 1) + 1 = i
    BY <1>2
  <2> QED
    BY <1>2, <2>1
<1>4. (\A i \in 1..n : SamePart(d[i], e[i])) <=> (\A i \in 1..n : SamePart(u[i], v[i]))
  BY <1>2, <1>3
<1>5. Len(d) = n /\ Len(e) = n
  BY <1>1 DEF n
<1> QED
  BY <1>2, <1>4, <1>5 DEF NamesAgree

\* The text of a name and its contents determine each other.
LEMMA ContentsTold ==
    ASSUME NEW d \in DistinguishedNames, NEW e \in DistinguishedNames
    PROVE  NameText(Reverse(d)) = NameText(Reverse(e)) <=> Contents(d) = Contents(e)
<1>1. Reverse(d) \in DistinguishedNames /\ Reverse(e) \in DistinguishedNames
  BY ReversedIs
<1>2. NameText(Reverse(d)) = NameText(Reverse(e)) <=> NamesAgree(Reverse(d), Reverse(e))
  BY <1>1, NameTold, SameNameText DEF NamesApart
<1> QED
  BY <1>2, AgreeReversed, NameContentsAreSame

-----------------------------------------------------------------------------
(* The specification.                                                       *)

\* What was sent is a way to write what was meant, and the script is given
\* what is read from it.
Sent ==
    sent # NotYet => /\ sent.path \in Paths(meant.route, meant.params)
                     /\ sent.query \in QueryTexts(meant.pairs)

Given ==
    facts # NotYet =>
        /\ sent # NotYet
        /\ facts.path_params = extract_path_params(meant.route, sent.path)
        /\ facts.query_params = parse_query(sent.query)
        /\ facts.client = client_addr(meant.peer, meant.trusted, meant.lines)
        /\ facts.forwarded = joined_headers(meant.lines)

Meant ==
    /\ IsTarget(meant.route, meant.params)
    /\ meant.pairs \in Seq(Texts \X Texts)
    /\ meant.lines \in Seq(Lines)

\* The names are those read off the certificate that was issued.
Issued ==
    /\ IsCertificate(cert)
    /\ peerNames # NotYet => peerNames = names[EncodedCertificate(cert)]

Reading == Meant /\ Sent /\ Given /\ Issued

LEMMA InitReads == Init => Reading
BY ExchangesAssumption DEF Init, Reading, Meant, Sent, Given, Issued

LEMMA StepReads == Reading /\ [Next]_vars => Reading'
<1> SUFFICES ASSUME Reading, [Next]_vars PROVE Reading'
  OBVIOUS
<1> USE DEF Reading
<1>1. CASE Handshake
  BY <1>1 DEF Handshake, Meant, Sent, Given, Issued
<1>2. CASE Send
  <2>1. Meant'
    BY <1>2 DEF Send, Meant
  <2>2. Sent'
    <3>1. PICK path \in Paths(meant.route, meant.params), query \in QueryTexts(meant.pairs) :
              sent' = [path |-> path, query |-> query]
      BY <1>2 DEF Send
    <3> QED
      BY <1>2, <3>1 DEF Send, Sent
  <2>3. Given'
    BY <1>2 DEF Send, Given
  <2>4. Issued'
    BY <1>2 DEF Send, Issued
  <2> QED
    BY <2>1, <2>2, <2>3, <2>4
<1>3. CASE request_from_parts
  BY <1>3 DEF request_from_parts, Meant, Sent, Given, Issued
<1>4. CASE UNCHANGED vars
  BY <1>4 DEF vars, Meant, Sent, Given, Issued
<1> QED
  BY <1>1, <1>2, <1>3, <1>4 DEF Next

\* Whatever is meant and however it is written, what is sent is a way to write
\* it and the script is given what request_from_parts reads from that.
THEOREM ReadingHolds == Spec => []Reading
BY InitReads, StepReads, PTL DEF Spec

\* The script reads the parameters that the client put into the path, for every
\* route, every value and every way to write it (extract_path_params).
THEOREM ParamsAreReadBack == Spec => []ParamsReadBack
<1>1. Reading => ParamsReadBack
  BY ParamsAreRead DEF Reading, Meant, Sent, Given, ParamsReadBack
<1> QED
  BY <1>1, ReadingHolds, PTL

\* The script reads the pairs that the client put into the query, whichever
\* way they were written, the last of those with one key (parse_query).
THEOREM QueryIsReadBack == Spec => []QueryReadsBack
<1>1. Reading => QueryReadsBack
  <2> SUFFICES ASSUME Reading, facts # NotYet
               PROVE  facts.query_params =
                        [k \in {meant.pairs[i][1] : i \in DOMAIN meant.pairs} |->
                          meant.pairs[Max({i \in DOMAIN meant.pairs : meant.pairs[i][1] = k})][2]]
    BY DEF QueryReadsBack
  <2>1. /\ meant.pairs \in Seq(Texts \X Texts) /\ sent.query \in QueryTexts(meant.pairs)
        /\ facts.query_params = parse_query(sent.query)
    BY DEF Reading, Meant, Sent, Given
  <2> QED
    BY <2>1, QueryIsRead
<1> QED
  BY <1>1, ReadingHolds, PTL

\* req.client is the peer, or the first address of X-Forwarded-For as
\* req.headers has it and then the peer is trusted (client_addr).
THEOREM ClientAgrees == Spec => []ClientAgreesWithHeaders
<1>1. Reading => ClientAgreesWithHeaders
  BY ClientIsForwarded DEF Reading, Meant, Given, ClientAgreesWithHeaders
<1> QED
  BY <1>1, ReadingHolds, PTL

\* The names that the handshake reads off any certificate are those it was
\* issued with (from_connection, x509.rs).
THEOREM CertificateIsReadBack == Spec => []CertificateReadsBack
<1>1. ASSUME Reading, peerNames # NotYet
      PROVE  /\ cert \in Cert /\ peerNames = CertificateRead(cert)
  <2>1. /\ IsCertificate(cert) /\ peerNames = names[EncodedCertificate(cert)]
    BY <1>1 DEF Reading, Issued
  <2>2. cert \in Cert
    BY <2>1 DEF IsCertificate, Cert, Attr, Ext, General
  <2>3. Len(EncodedCertificate(cert)) < LengthLimit
    BY <2>1 DEF IsCertificate
  <2>4. EncodedCertificate(cert) \in Octets
    BY <2>2, EncodedCertificateType
  <2>5. Short(EncodedCertificate(cert))
    BY <2>3, <2>4 DEF Short
  <2> QED
    BY <2>1, <2>2, <2>5, CertificateReads
<1>2. Reading => CertificateReadsBack
  <2> SUFFICES ASSUME Reading, peerNames # NotYet PROVE CertificateReadsBack
    BY DEF CertificateReadsBack
  <2>1. cert \in Cert /\ peerNames = CertificateRead(cert)
    BY <1>1
  <2>2. CertificateReadsBack <=>
          /\ peerNames.ok
          /\ peerNames.subject = NameText(Reverse(cert.subject))
          /\ peerNames.issuer = NameText(Reverse(cert.issuer))
          /\ peerNames.subject_alt_names =
                IF FlattenSeq(ListsOf(cert.extensions)) = <<>> THEN <<>>
                ELSE Last(FlattenSeq(ListsOf(cert.extensions)))
    BY DEF CertificateReadsBack, InTurn, ListsOf, ListOf, Known, KnownOf, IsKept
  <2> QED
    BY <2>1, <2>2 DEF CertificateRead
<1> QED
  BY <1>2, ReadingHolds, PTL

\* Of two certificates with subjects that X.690 and X.501 allow, the subjects
\* read the same exactly when they have the same contents: no value passes for
\* an attribute, a separator, or octets that are no string. The type of such
\* octets is no part of the contents (attribute_type, dotted, attribute_value).
THEOREM ContentsAreTold == Spec => []SubjectTellsItsContents
<1>1. CertificateReadsBack => SubjectTellsItsContents
  <2> SUFFICES ASSUME CertificateReadsBack, peerNames # NotYet,
                      cert.subject \in DistinguishedNames, NEW d \in Subjects
               PROVE  SubjectTexts[d] = peerNames.subject <=> Contents(d) = Contents(cert.subject)
    BY DEF SubjectTellsItsContents
  <2>1. peerNames.subject = NameText(Reverse(cert.subject))
    BY DEF CertificateReadsBack
  <2>2. SubjectTexts[d] = NameText(Reverse(d))
    BY DEF SubjectTexts
  <2>3. d \in DistinguishedNames
    BY SubjectsAssumption
  <2> QED
    BY <2>1, <2>2, <2>3, ContentsTold
<1> QED
  BY <1>1, CertificateIsReadBack, PTL
=============================================================================
