--------------------------- MODULE PlanningProofs ---------------------------
(***************************************************************************)
(* Proofs about Planning, for any catalogs and requests and any number of  *)
(* resumed executions; and about Structure, for any content, any sizes and *)
(* any number of documents.                                                *)
(*                                                                         *)
(* Both models are built of folds over sequences, and the lemmas about     *)
(* those come first.  The reviews and repairs of plans follow; then what   *)
(* the sentences, children and parents of a document are, up to the two    *)
(* invariants of the ingestion.                                            *)
(***************************************************************************)
EXTENDS Planning, Structure, FiniteSetTheorems, WellFoundedInduction, TLAPS

\* A set with 0 and the successor of each of its numbers has every number.
LEMMA SetInduction ==
  ASSUME NEW S, 0 \in S, \A n \in Nat : n \in S => n + 1 \in S
  PROVE  Nat \subseteq S
  <1> DEFINE T == Nat \ S
  <1>1. SUFFICES ASSUME T # {} PROVE FALSE
    OBVIOUS
  <1>2. PICK x \in T : \A y \in T : ~(<<y, x>> \in OpToRel(<, Nat))
    <2>1. T \subseteq Nat
      OBVIOUS
    <2> HIDE DEF T
    <2> QED BY <1>1, <2>1, WFMin, NatLessThanWellFounded, Zenon
  <1>3. \A y \in T : ~(y < x)
    BY <1>2 DEF OpToRel
  <1>4. x \in Nat /\ x # 0 /\ x \notin S
    BY DEF T
  <1>5. x - 1 \in Nat /\ x - 1 < x
    BY <1>4
  <1>6. x - 1 \in S
    BY <1>3, <1>5 DEF T
  <1>7. x \in S
    BY <1>4, <1>5, <1>6
  <1> QED BY <1>4, <1>7

-----------------------------------------------------------------------------
(* Folds.  A lemma cannot be stated for any operator, so Step names those  *)
(* the model folds, and what is proved of folds is proved of Step.         *)

Step(kind, e, r, x) ==
  CASE kind = "invalid" -> IF Contains(r, x.slot) THEN r ELSE Append(r, x.slot)
    [] kind = "visit" -> Visit(e.cat, e.plan, r, x)
    [] kind = "materialize" -> Materialize(e.cat, e.request, e.assigned, r, x)
    [] kind = "model" -> AllocatedModel(e.cat, e.request, r, x)
    [] kind = "variation" -> TryVariation(e.st, e.s, r, x)
    [] kind = "task" -> TryTask(e.st, e.s, r, x)
    [] kind = "repairs" -> Repaired(r, x)
    [] kind = "fallback" -> FallBack(r, x)
    [] kind = "offer" -> Accepted(r, x, e[x])
    [] kind = "words" -> r + x.words
    [] kind = "clean" -> Kept(r, x)
    [] kind = "split" -> Placed(r, e.units[x], x \in e.cuts)
    [] kind = "join" -> Joined(r, x)
    [] kind = "pack" -> Placed(r, x, r # <<>> /\ Full(Last(r), x, e.max, e.alone))
    [] kind = "say" -> Said(r, x)
    [] kind = "meet" -> UNION {Meets(c, x) : c \in r}
    [] kind = "raise" -> Raised(r, x)
    [] OTHER -> Headed(r, x)

LEMMA MaxIs ==
  ASSUME NEW n \in Nat, NEW t \in SUBSET (1 .. n + 1), n + 1 \in t
  PROVE  Max(t) = n + 1
  <1>1. \A y \in t : n + 1 >= y
    OBVIOUS
  <1>2. \A x \in t : (\A y \in t : x >= y) => x = n + 1
    OBVIOUS
  <1> QED BY <1>1, <1>2 DEF Max

\* g is the function a fold is defined by: its value for any set of positions.
Folds(g, kind, e, base, seq, N) ==
  g = [t \in SUBSET (1 .. N) |->
         IF t = {} THEN base ELSE Step(kind, e, g[t \ {Max(t)}], seq[Max(t)])]

LEMMA FoldExists ==
  ASSUME NEW kind, NEW e, NEW base, NEW seq, NEW N \in Nat
  PROVE  \E g : Folds(g, kind, e, base, seq, N)
  <1> DEFINE Body(g, t) == IF t = {} THEN base ELSE Step(kind, e, g[t \ {Max(t)}], seq[Max(t)])
             S == {n \in Nat : \E g : g = [t \in SUBSET (1 .. n) |-> Body(g, t)]}
  <1>1. 0 \in S
    <2> DEFINE g == [t \in SUBSET (1 .. 0) |-> base]
    <2>1. \A t \in SUBSET (1 .. 0) : t = {}
      OBVIOUS
    <2>2. g = [t \in SUBSET (1 .. 0) |-> Body(g, t)]
      BY <2>1
    <2> HIDE DEF g, Body
    <2> QED BY <2>2
  <1>2. ASSUME NEW n \in Nat, n \in S PROVE n + 1 \in S
    <2>1. PICK g : g = [t \in SUBSET (1 .. n) |-> Body(g, t)]
      BY <1>2
    <2> DEFINE h == [t \in SUBSET (1 .. n + 1) |->
                       IF n + 1 \in t THEN Step(kind, e, g[t \ {n + 1}], seq[n + 1]) ELSE g[t]]
    <2>2. \A t \in SUBSET (1 .. n) : t \in SUBSET (1 .. n + 1) /\ n + 1 \notin t /\ h[t] = g[t]
      OBVIOUS
    <2>3. ASSUME NEW t \in SUBSET (1 .. n + 1) PROVE h[t] = Body(h, t)
      <3>1. CASE n + 1 \in t
        <4>1. Max(t) = n + 1 /\ t # {} /\ t \ {n + 1} \in SUBSET (1 .. n)
          BY <3>1, MaxIs
        <4>2. h[t] = Step(kind, e, g[t \ {n + 1}], seq[n + 1])
          BY <3>1
        <4>3. h[t \ {n + 1}] = g[t \ {n + 1}]
          BY <2>2, <4>1
        <4> HIDE DEF h
        <4> QED BY <4>1, <4>2, <4>3
      <3>2. CASE n + 1 \notin t
        <4>1. t \in SUBSET (1 .. n) /\ t \ {Max(t)} \in SUBSET (1 .. n)
          <5>1. \A x \in t : x \in 1 .. n
            BY <3>2
          <5>2. t \in SUBSET (1 .. n)
            BY <5>1
          <5> QED BY <5>2
        <4>2. h[t] = g[t] /\ h[t \ {Max(t)}] = g[t \ {Max(t)}]
          BY <2>2, <4>1
        <4>3. g[t] = Body(g, t)
          <5> HIDE DEF Body
          <5> QED BY <2>1, <4>1
        <4> HIDE DEF h
        <4> QED BY <4>2, <4>3
      <3> QED BY <3>1, <3>2
    <2>4. h = [t \in SUBSET (1 .. n + 1) |-> Body(h, t)]
      <3>1. h = [t \in SUBSET (1 .. n + 1) |-> h[t]]
        OBVIOUS
      <3> HIDE DEF h, Body
      <3> QED BY <2>3, <3>1
    <2> HIDE DEF h, Body
    <2> QED BY <2>4
  <1>3. N \in S
    <2> HIDE DEF S
    <2> QED BY <1>1, <1>2, SetInduction
  <1> QED BY <1>3 DEF Folds

\* A fold's function, step by step along the sequence.
LEMMA FoldAlong ==
  ASSUME NEW kind, NEW e, NEW base, NEW seq, NEW N \in Nat, NEW g,
         Folds(g, kind, e, base, seq, N)
  PROVE  /\ g[1 .. 0] = base
         /\ \A n \in 1 .. N : g[1 .. n] = Step(kind, e, g[1 .. n - 1], seq[n])
  <1>1. g[1 .. 0] = base
    <2>1. 1 .. 0 = {} /\ 1 .. 0 \in SUBSET (1 .. N)
      OBVIOUS
    <2> QED BY <2>1 DEF Folds
  <1>2. ASSUME NEW n \in 1 .. N PROVE g[1 .. n] = Step(kind, e, g[1 .. n - 1], seq[n])
    <2>1. 1 .. n \in SUBSET (1 .. N) /\ 1 .. n # {} /\ (1 .. n) \ {n} = 1 .. n - 1
      OBVIOUS
    <2>2. Max(1 .. n) = n
      <3>1. n - 1 \in Nat /\ 1 .. n \in SUBSET (1 .. (n - 1) + 1) /\ (n - 1) + 1 \in 1 .. n
        OBVIOUS
      <3>2. Max(1 .. n) = (n - 1) + 1
        BY <3>1, MaxIs
      <3> QED BY <3>2
    <2>3. g[1 .. n] = Step(kind, e, g[(1 .. n) \ {Max(1 .. n)}], seq[Max(1 .. n)])
      BY <2>1 DEF Folds
    <2> QED BY <2>1, <2>2, <2>3
  <1> QED BY <1>1, <1>2

\* w holds the values of a fold after each element of the sequence.
Chain(w, kind, e, base, seq, N) ==
  /\ w[0] = base
  /\ \A n \in 1 .. N : w[n] = Step(kind, e, w[n - 1], seq[n])

LEMMA FoldChain ==
  ASSUME NEW kind, NEW e, NEW base, NEW seq, NEW N \in Nat, NEW g,
         Folds(g, kind, e, base, seq, N)
  PROVE  \E w : Chain(w, kind, e, base, seq, N) /\ w[N] = g[1 .. N]
  <1> DEFINE w == [n \in 0 .. N |-> g[1 .. n]]
  <1>1. /\ g[1 .. 0] = base
        /\ \A n \in 1 .. N : g[1 .. n] = Step(kind, e, g[1 .. n - 1], seq[n])
    BY FoldAlong
  <1>2. w[0] = base /\ w[N] = g[1 .. N]
    BY <1>1
  <1>3. ASSUME NEW n \in 1 .. N PROVE w[n] = Step(kind, e, w[n - 1], seq[n])
    BY <1>1
  <1> HIDE DEF w
  <1> QED BY <1>2, <1>3 DEF Chain

-----------------------------------------------------------------------------
(* Sequences of anything.                                                  *)

IsSeq(s) == \E n \in Nat : s = [i \in 1 .. n |-> s[i]]

LEMMA SeqIs ==
  ASSUME NEW s, IsSeq(s)
  PROVE  /\ Len(s) \in Nat /\ DOMAIN s = 1 .. Len(s) /\ s \in Seq(ToSet(s))
         /\ s = [i \in 1 .. Len(s) |-> s[i]]
  <1>1. PICK n \in Nat : s = [i \in 1 .. n |-> s[i]]
    BY DEF IsSeq
  <1>2. DOMAIN s = 1 .. n
    BY <1>1
  <1>3. s \in [1 .. n -> ToSet(s)]
    BY <1>1, <1>2 DEF ToSet
  <1>4. s \in Seq(ToSet(s))
    BY <1>3
  <1>5. Len(s) = n
    BY <1>2, <1>4
  <1> QED BY <1>1, <1>2, <1>4, <1>5

LEMMA TypedIs ==
  ASSUME NEW X, NEW s \in Seq(X)
  PROVE  IsSeq(s) /\ ToSet(s) \subseteq X
  <1>1. Len(s) \in Nat /\ s \in [1 .. Len(s) -> X]
    OBVIOUS
  <1> QED BY <1>1 DEF IsSeq, ToSet

LEMMA MapIs ==
  ASSUME NEW n \in Nat, NEW s, s = [i \in 1 .. n |-> s[i]]
  PROVE  IsSeq(s) /\ Len(s) = n /\ DOMAIN s = 1 .. n
  <1>1. IsSeq(s) /\ DOMAIN s = 1 .. n
    BY DEF IsSeq
  <1> QED BY <1>1, SeqIs

LEMMA EmptyIs ==
  /\ IsSeq(<<>>) /\ ToSet(<<>>) = {} /\ Len(<<>>) = 0
  /\ \A s : IsSeq(s) /\ (ToSet(s) = {} \/ Len(s) = 0) => s = <<>>
  <1>1. IsSeq(<<>>)
    <2>1. <<>> \in Seq({})
      OBVIOUS
    <2> QED BY <2>1, TypedIs
  <1>2. ToSet(<<>>) = {} /\ Len(<<>>) = 0
    BY DEF ToSet
  <1>3. ASSUME NEW s, IsSeq(s), ToSet(s) = {} \/ Len(s) = 0 PROVE s = <<>>
    <2>1. Len(s) \in Nat /\ DOMAIN s = 1 .. Len(s) /\ s \in Seq(ToSet(s))
      BY <1>3, SeqIs
    <2>2. Len(s) = 0
      <3>1. CASE ToSet(s) = {}
        <4>1. 1 \notin 1 .. Len(s)
          BY <2>1, <3>1 DEF ToSet
        <4> QED BY <2>1, <4>1
      <3> QED BY <1>3, <3>1
    <2> QED BY <2>1, <2>2
  <1> QED BY <1>1, <1>2, <1>3

LEMMA OneIs ==
  ASSUME NEW x
  PROVE  IsSeq(<<x>>) /\ ToSet(<<x>>) = {x} /\ Len(<<x>>) = 1
  <1>1. <<x>> \in Seq({x}) /\ Len(<<x>>) = 1 /\ DOMAIN <<x>> = {1} /\ <<x>>[1] = x
    OBVIOUS
  <1>2. ToSet(<<x>>) = {x}
    BY <1>1 DEF ToSet
  <1>3. IsSeq(<<x>>)
    BY <1>1, TypedIs
  <1> QED BY <1>1, <1>2, <1>3

LEMMA ConcatIs ==
  ASSUME NEW s, NEW t, IsSeq(s), IsSeq(t)
  PROVE  /\ IsSeq(s \o t) /\ Len(s \o t) = Len(s) + Len(t)
         /\ ToSet(s \o t) = ToSet(s) \cup ToSet(t)
  <1> DEFINE X == ToSet(s) \cup ToSet(t)
  <1>1. /\ Len(s) \in Nat /\ DOMAIN s = 1 .. Len(s) /\ s \in Seq(ToSet(s))
        /\ Len(t) \in Nat /\ DOMAIN t = 1 .. Len(t) /\ t \in Seq(ToSet(t))
    BY SeqIs
  <1>2. s \in Seq(X) /\ t \in Seq(X)
    BY <1>1
  <1>3. s \o t \in Seq(X) /\ Len(s \o t) = Len(s) + Len(t)
    <2> HIDE DEF X
    <2> QED BY <1>2
  <1>4. IsSeq(s \o t) /\ ToSet(s \o t) \subseteq X
    BY <1>3, TypedIs
  <1>5. DOMAIN (s \o t) = 1 .. Len(s) + Len(t)
    BY <1>3
  <1>6. ASSUME NEW x \in ToSet(s) PROVE x \in ToSet(s \o t)
    <2>1. PICK i \in 1 .. Len(s) : x = s[i]
      BY <1>1, <1>6 DEF ToSet
    <2>2. (s \o t)[i] = s[i] /\ i \in 1 .. Len(s) + Len(t)
      BY <1>1, <1>2
    <2> QED BY <1>5, <2>1, <2>2 DEF ToSet
  <1>7. ASSUME NEW x \in ToSet(t) PROVE x \in ToSet(s \o t)
    <2>1. PICK i \in 1 .. Len(t) : x = t[i]
      BY <1>1, <1>7 DEF ToSet
    <2>2. (s \o t)[Len(s) + i] = t[i] /\ Len(s) + i \in 1 .. Len(s) + Len(t)
      <3> HIDE DEF X
      <3> QED BY <1>1, <1>2
    <2> QED BY <1>5, <2>1, <2>2 DEF ToSet
  <1> QED BY <1>3, <1>4, <1>6, <1>7

LEMMA AppendIs ==
  ASSUME NEW s, NEW x, IsSeq(s)
  PROVE  /\ IsSeq(Append(s, x)) /\ Len(Append(s, x)) = Len(s) + 1
         /\ ToSet(Append(s, x)) = ToSet(s) \cup {x}
  <1> DEFINE X == ToSet(s) \cup {x}
  <1>1. Len(s) \in Nat /\ DOMAIN s = 1 .. Len(s) /\ s \in Seq(ToSet(s))
    BY SeqIs
  <1>2. s \in Seq(X) /\ x \in X
    BY <1>1
  <1>3. Append(s, x) \in Seq(X) /\ Len(Append(s, x)) = Len(s) + 1
    <2> HIDE DEF X
    <2> QED BY <1>2
  <1>4. IsSeq(Append(s, x)) /\ ToSet(Append(s, x)) \subseteq X
    BY <1>3, TypedIs
  <1>5. /\ DOMAIN Append(s, x) = 1 .. Len(s) + 1 /\ Append(s, x)[Len(s) + 1] = x
        /\ \A i \in 1 .. Len(s) : Append(s, x)[i] = s[i]
    BY <1>1, <1>2, <1>3
  <1>6. x \in ToSet(Append(s, x))
    BY <1>1, <1>5 DEF ToSet
  <1>7. ASSUME NEW y \in ToSet(s) PROVE y \in ToSet(Append(s, x))
    <2>1. PICK i \in 1 .. Len(s) : y = s[i]
      BY <1>1, <1>7 DEF ToSet
    <2>2. Append(s, x)[i] = y /\ i \in 1 .. Len(s) + 1
      BY <1>1, <1>5, <2>1
    <2> QED BY <1>5, <2>2 DEF ToSet
  <1> QED BY <1>3, <1>4, <1>6, <1>7

\* All elements of all sequences of a sequence.
\* What the elements of a sequence of sequences are joined by.
LEMMA FlattenSteps ==
  ASSUME NEW ss, Len(ss) \in Nat \ {0}
  PROVE  \E f : /\ f = [i \in 1 .. Len(ss) |-> IF i = 1 THEN ss[i] ELSE f[i - 1] \o ss[i]]
                /\ FlattenSeq(ss) = f[Len(ss)]
  <1> DEFINE N == Len(ss)
             Body(f, i) == IF i = 1 THEN ss[i] ELSE f[i - 1] \o ss[i]
             S == {n \in Nat : \E f : f = [i \in 1 .. n |-> Body(f, i)]}
             flatten[i \in 1 .. N] == IF i = 1 THEN ss[i] ELSE flatten[i - 1] \o ss[i]
  <1>1. FlattenSeq(ss) = flatten[N]
    BY DEF FlattenSeq
  <1>2. 0 \in S
    <2> DEFINE f == [i \in 1 .. 0 |-> ss]
    <2>1. f = [i \in 1 .. 0 |-> Body(f, i)]
      OBVIOUS
    <2> HIDE DEF f, Body
    <2> QED BY <2>1
  <1>3. ASSUME NEW n \in Nat, n \in S PROVE n + 1 \in S
    <2>1. PICK f : f = [i \in 1 .. n |-> Body(f, i)]
      BY <1>3
    <2> DEFINE h == [i \in 1 .. n + 1 |-> IF i = n + 1 THEN Body(f, i) ELSE f[i]]
    <2>2. \A i \in 1 .. n : h[i] = f[i]
      OBVIOUS
    <2>3. ASSUME NEW i \in 1 .. n + 1 PROVE h[i] = Body(h, i)
      <3>1. i # 1 => h[i - 1] = f[i - 1]
        <4>1. i # 1 => i - 1 \in 1 .. n
          OBVIOUS
        <4> HIDE DEF h
        <4> QED BY <2>2, <4>1
      <3>2. Body(h, i) = Body(f, i)
        <4> HIDE DEF h
        <4> QED BY <3>1
      <3>3. h[i] = Body(f, i)
        <4>1. CASE i = n + 1
          BY <4>1
        <4>2. CASE i # n + 1
          <5>1. i \in 1 .. n
            BY <4>2
          <5> HIDE DEF Body, h
          <5> QED BY <2>1, <2>2, <5>1
        <4> QED BY <4>1, <4>2
      <3> QED BY <3>2, <3>3
    <2>4. h = [i \in 1 .. n + 1 |-> Body(h, i)]
      <3>1. h = [i \in 1 .. n + 1 |-> h[i]]
        OBVIOUS
      <3> HIDE DEF h, Body
      <3> QED BY <2>3, <3>1
    <2> HIDE DEF h, Body
    <2> QED BY <2>4
  <1>4. N \in S
    <2> HIDE DEF S
    <2> QED BY <1>2, <1>3, SetInduction
  <1>5. \E f : f = [i \in 1 .. N |-> IF i = 1 THEN ss[i] ELSE f[i - 1] \o ss[i]]
    BY <1>4
  <1>6. flatten = [i \in 1 .. N |-> IF i = 1 THEN ss[i] ELSE flatten[i - 1] \o ss[i]]
    <2> HIDE DEF N
    <2> QED BY <1>5, Zenon
  <1> HIDE DEF flatten
  <1> QED BY <1>1, <1>6

LEMMA FlattenIs ==
  ASSUME NEW ss, IsSeq(ss), \A i \in DOMAIN ss : IsSeq(ss[i])
  PROVE  /\ IsSeq(FlattenSeq(ss))
         /\ ToSet(FlattenSeq(ss)) = UNION {ToSet(ss[i]) : i \in DOMAIN ss}
  <1>1. Len(ss) \in Nat /\ DOMAIN ss = 1 .. Len(ss)
    BY SeqIs
  <1> DEFINE Upto(n) == UNION {ToSet(ss[i]) : i \in 1 .. n}
  <1>2. CASE Len(ss) = 0
    <2>1. ss = <<>> /\ FlattenSeq(ss) = ss
      BY <1>2, EmptyIs DEF FlattenSeq
    <2>2. UNION {ToSet(ss[i]) : i \in DOMAIN ss} = {}
      BY <1>1, <1>2
    <2> QED BY <2>1, <2>2, EmptyIs
  <1>3. CASE Len(ss) # 0
    <2> DEFINE N == Len(ss)
    <2>1. PICK flatten : /\ flatten = [i \in 1 .. N |-> IF i = 1 THEN ss[i] ELSE flatten[i - 1] \o ss[i]]
                         /\ FlattenSeq(ss) = flatten[N]
      BY <1>1, <1>3, FlattenSteps
    <2> DEFINE Good(n) == n \in 1 .. N => IsSeq(flatten[n]) /\ ToSet(flatten[n]) = Upto(n)
               G == {n \in Nat : Good(n)}
    <2>2. 0 \in G
      OBVIOUS
    <2>3. ASSUME NEW n \in Nat, n \in G PROVE n + 1 \in G
      <3>1. SUFFICES ASSUME n + 1 \in 1 .. N
                     PROVE  IsSeq(flatten[n + 1]) /\ ToSet(flatten[n + 1]) = Upto(n + 1)
        OBVIOUS
      <3>2. IsSeq(ss[n + 1])
        BY <1>1, <3>1
      <3>3. Upto(n + 1) = Upto(n) \cup ToSet(ss[n + 1])
        <4>1. 1 .. n + 1 = (1 .. n) \cup {n + 1}
          OBVIOUS
        <4> QED BY <4>1
      <3>4. CASE n = 0
        <4>1. Upto(n) = {} /\ flatten[n + 1] = ss[n + 1]
          BY <2>1, <3>1, <3>4
        <4> HIDE DEF Upto
        <4> QED BY <3>2, <3>3, <4>1
      <3>5. CASE n # 0
        <4>1. n \in 1 .. N /\ n + 1 # 1 /\ (n + 1) - 1 = n
          BY <1>1, <3>1, <3>5
        <4>2. flatten[n + 1] = flatten[n] \o ss[n + 1]
          BY <2>1, <3>1, <4>1
        <4>3. IsSeq(flatten[n]) /\ ToSet(flatten[n]) = Upto(n)
          BY <2>3, <4>1
        <4> HIDE DEF Upto
        <4> QED BY <3>2, <3>3, <4>2, <4>3, ConcatIs
      <3> QED BY <3>4, <3>5
    <2>4. N \in G
      <3> HIDE DEF G
      <3> QED BY <1>1, <2>2, <2>3, SetInduction
    <2>5. N \in 1 .. N /\ Upto(N) = UNION {ToSet(ss[i]) : i \in DOMAIN ss}
      BY <1>1, <1>3
    <2> QED BY <2>1, <2>4, <2>5
  <1> QED BY <1>2, <1>3

LEMMA OnlyIs ==
  ASSUME NEW s, NEW S, IsSeq(s)
  PROVE  IsSeq(Only(s, S)) /\ ToSet(Only(s, S)) = ToSet(s) \cap S
  <1> DEFINE ss == [i \in DOMAIN s |-> IF s[i] \in S THEN <<s[i]>> ELSE <<>>]
  <1>1. Len(s) \in Nat /\ DOMAIN s = 1 .. Len(s)
    BY SeqIs
  <1>2. IsSeq(ss)
    BY <1>1 DEF IsSeq
  <1>3. ASSUME NEW i \in DOMAIN s
        PROVE  IsSeq(ss[i]) /\ ToSet(ss[i]) = IF s[i] \in S THEN {s[i]} ELSE {}
    <2>1. ss[i] = IF s[i] \in S THEN <<s[i]>> ELSE <<>>
      OBVIOUS
    <2> HIDE DEF ss
    <2> QED BY <2>1, OneIs, EmptyIs
  <1>4. DOMAIN ss = DOMAIN s /\ Only(s, S) = FlattenSeq(ss)
    BY DEF Only
  <1> HIDE DEF ss
  <1>5. IsSeq(Only(s, S)) /\ ToSet(Only(s, S)) = UNION {ToSet(ss[i]) : i \in DOMAIN s}
    BY <1>2, <1>3, <1>4, FlattenIs
  <1>6. UNION {ToSet(ss[i]) : i \in DOMAIN s} = ToSet(s) \cap S
    BY <1>3 DEF ToSet
  <1> QED BY <1>5, <1>6

-----------------------------------------------------------------------------
(* The review of a plan.                                                   *)

Asked(r) == r.models \in Nat /\ r.types \in Seq([type : STRING, count : Nat])

\* A sequence of errors about slots of the request.
Reported(errs, r) == IsSeq(errs) /\ \A e \in ToSet(errs) : e.slot \in AllSlots(r)

LEMMA SlotsAre ==
  ASSUME NEW r, NEW m, Asked(r)
  PROVE  IsSeq(SlotsOf(r, m)) /\ (m \in 1 .. r.models => ToSet(SlotsOf(r, m)) \subseteq AllSlots(r))
  <1> DEFINE ss == [k \in DOMAIN r.types |-> [i \in 1 .. r.types[k].count |-> <<m, r.types[k].type, i>>]]
  <1>1. Len(r.types) \in Nat /\ DOMAIN r.types = 1 .. Len(r.types)
        /\ \A k \in DOMAIN r.types : r.types[k].count \in Nat
    <2> DEFINE X == [type : STRING, count : Nat]
               types == r.types
    <2>1. types \in Seq(X)
      BY DEF Asked
    <2>2. \A x \in X : x.count \in Nat
      OBVIOUS
    <2>3. Len(types) \in Nat /\ types \in [1 .. Len(types) -> X]
      <3> HIDE DEF X, types
      <3> QED BY <2>1
    <2> HIDE DEF X
    <2> QED BY <2>2, <2>3
  <1>2. IsSeq(ss)
    BY <1>1 DEF IsSeq
  <1>3. ASSUME NEW k \in DOMAIN r.types PROVE IsSeq(ss[k])
    <2> DEFINE row == [i \in 1 .. r.types[k].count |-> <<m, r.types[k].type, i>>]
    <2>1. ss[k] = row /\ row = [i \in 1 .. r.types[k].count |-> row[i]]
      OBVIOUS
    <2> HIDE DEF row, ss
    <2> QED BY <1>1, <2>1 DEF IsSeq
  <1>4. SlotsOf(r, m) = FlattenSeq(ss) /\ DOMAIN ss = DOMAIN r.types
    BY DEF SlotsOf
  <1> HIDE DEF ss
  <1>5. IsSeq(SlotsOf(r, m))
    BY <1>2, <1>3, <1>4, FlattenIs
  <1>6. m \in 1 .. r.models => ToSet(SlotsOf(r, m)) \subseteq AllSlots(r)
    BY DEF AllSlots
  <1> QED BY <1>5, <1>6

LEMMA ReportedConcat ==
  ASSUME NEW r, NEW a, NEW b, Reported(a, r), Reported(b, r)
  PROVE  Reported(a \o b, r) /\ ToSet(a \o b) = ToSet(a) \cup ToSet(b)
  BY ConcatIs DEF Reported

LEMMA ReportedFlatten ==
  ASSUME NEW r, NEW ss, IsSeq(ss), \A i \in DOMAIN ss : Reported(ss[i], r)
  PROVE  /\ Reported(FlattenSeq(ss), r)
         /\ ToSet(FlattenSeq(ss)) = UNION {ToSet(ss[i]) : i \in DOMAIN ss}
  <1>1. \A i \in DOMAIN ss : IsSeq(ss[i])
    BY DEF Reported
  <1>2. IsSeq(FlattenSeq(ss)) /\ ToSet(FlattenSeq(ss)) = UNION {ToSet(ss[i]) : i \in DOMAIN ss}
    BY <1>1, FlattenIs
  <1> QED BY <1>2 DEF Reported

\* One error for each of some slots.
LEMMA ReportedEach ==
  ASSUME NEW r, NEW slots, IsSeq(slots), ToSet(slots) \subseteq AllSlots(r),
         NEW kind, NEW other
  PROVE  LET errs == [i \in DOMAIN slots |-> Error(slots[i], kind, other)]
         IN Reported(errs, r) /\ \A s \in ToSet(slots) : Error(s, kind, other) \in ToSet(errs)
  <1> DEFINE errs == [i \in DOMAIN slots |-> Error(slots[i], kind, other)]
  <1>1. Len(slots) \in Nat /\ DOMAIN slots = 1 .. Len(slots) /\ DOMAIN errs = DOMAIN slots
    BY SeqIs
  <1>2. IsSeq(errs)
    BY <1>1 DEF IsSeq
  <1>3. \A i \in DOMAIN slots : errs[i] = Error(slots[i], kind, other) /\ slots[i] \in ToSet(slots)
    BY DEF ToSet
  <1>4. \A i \in DOMAIN slots : errs[i].slot \in AllSlots(r)
    <2> SUFFICES ASSUME NEW i \in DOMAIN slots PROVE errs[i].slot \in AllSlots(r)
      OBVIOUS
    <2>1. Error(slots[i], kind, other).slot = slots[i]
      BY DEF Error
    <2> HIDE DEF errs
    <2> QED BY <1>3, <2>1
  <1> HIDE DEF errs
  <1>5. \A e \in ToSet(errs) : e.slot \in AllSlots(r)
    BY <1>1, <1>4 DEF ToSet
  <1>6. \A s \in ToSet(slots) : Error(s, kind, other) \in ToSet(errs)
    BY <1>1, <1>3 DEF ToSet
  <1> QED BY <1>2, <1>5, <1>6 DEF Reported, errs

LEMMA SlotErrorsAre ==
  ASSUME NEW c, NEW r, NEW p, NEW m \in 1 .. r.models, Asked(r)
  PROVE  Reported(SlotErrors(c, r, p, m), r)
  <1> DEFINE Bad(s) == /\ p[s].task # 0
                       /\ \/ ~TheVariation(c, p[s]).sound
                          \/ /\ p[s].adjust = "none"
                             /\ r.difficulty \notin {"mix", TheTask(c, p[s]).level}
             bad == Only(SlotsOf(r, m), {s \in DOMAIN p : Bad(s)})
  <1>1. SlotErrors(c, r, p, m) = [i \in DOMAIN bad |-> Error(bad[i], "metadata", NoSlot)]
    BY DEF SlotErrors
  <1> HIDE DEF Bad
  <1>2. IsSeq(bad) /\ ToSet(bad) \subseteq AllSlots(r)
    BY SlotsAre, OnlyIs
  <1> HIDE DEF bad
  <1> QED BY <1>1, <1>2, ReportedEach

LEMMA VisitedAre ==
  ASSUME NEW r, NEW p, NEW m \in 1 .. r.models, NEW o, Asked(r), IsSeq(o)
  PROVE  IsSeq(Visited(r, p, m, o)) /\ ToSet(Visited(r, p, m, o)) \subseteq AllSlots(r)
  <1> DEFINE OfType(t) == Only(SlotsOf(r, m), {s \in DOMAIN p : QType(s) = t})
             ss == [i \in DOMAIN o |-> OfType(o[i])]
  <1>1. \A t : IsSeq(OfType(t)) /\ ToSet(OfType(t)) \subseteq AllSlots(r)
    BY SlotsAre, OnlyIs
  <1>2. Visited(r, p, m, o) = FlattenSeq(ss)
    BY DEF Visited
  <1> HIDE DEF OfType
  <1>3. IsSeq(ss) /\ DOMAIN ss = DOMAIN o /\ \A i \in DOMAIN o : ss[i] = OfType(o[i])
    BY SeqIs DEF IsSeq
  <1> HIDE DEF ss
  <1>4. \A i \in DOMAIN ss : IsSeq(ss[i]) /\ ToSet(ss[i]) \subseteq AllSlots(r)
    BY <1>1, <1>3
  <1>5. IsSeq(FlattenSeq(ss)) /\ ToSet(FlattenSeq(ss)) = UNION {ToSet(ss[i]) : i \in DOMAIN ss}
    BY <1>3, <1>4, FlattenIs
  <1> QED BY <1>2, <1>4, <1>5

LEMMA VisitReports ==
  ASSUME NEW r, NEW c, NEW p, NEW st, NEW s \in AllSlots(r), Reported(st.errors, r)
  PROVE  Reported(Visit(c, p, st, s).errors, r)
  <1> DEFINE Report(ok, kind, q) == IF ok THEN <<>> ELSE <<Error(s, kind, q)>>
  <1>1. \A ok, kind, q : Reported(Report(ok, kind, q), r)
    <2>1. \A kind, q : Reported(<<Error(s, kind, q)>>, r)
      BY OneIs DEF Reported, Error
    <2>2. Reported(<<>>, r)
      BY EmptyIs DEF Reported
    <2> QED BY <2>1, <2>2
  <1>2. \/ Visit(c, p, st, s) = st
        \/ \E ok1, ok2, ok3, q1, q2, q3 :
             Visit(c, p, st, s).errors = ((st.errors \o Report(ok1, "task", q1))
                \o Report(ok2, "work", q2)) \o Report(ok3, "scenario", q3)
    BY DEF Visit
  <1> HIDE DEF Report
  <1> QED BY <1>1, <1>2, ReportedConcat

\* The errors about tasks, works and settings, slot by slot.
LEMMA DuplicateErrorsAre ==
  ASSUME NEW c, NEW r, NEW p, NEW m \in 1 .. r.models, NEW o, Asked(r), IsSeq(o)
  PROVE  Reported(DuplicateErrors(c, r, p, m, o), r)
  <1> DEFINE e == [cat |-> c, plan |-> p]
             base == [tasks |-> <<>>, works |-> <<>>, settings |-> <<>>, errors |-> <<>>]
             seq == Visited(r, p, m, o)
             N == Len(seq)
             iter[t \in SUBSET (1 .. N)] ==
               IF t = {} THEN base ELSE Visit(c, p, iter[t \ {Max(t)}], seq[Max(t)])
  <1>1. IsSeq(seq) /\ ToSet(seq) \subseteq AllSlots(r)
    BY VisitedAre
  <1>2. N \in Nat /\ DOMAIN seq = 1 .. N
    <2> HIDE DEF seq
    <2> QED BY <1>1, SeqIs
  <1> DEFINE fold == FoldLeft(LAMBDA st, s : Visit(c, p, st, s), base, seq)
  <1>3. DuplicateErrors(c, r, p, m, o) = fold.errors
    BY DEF DuplicateErrors
  <1> HIDE DEF base, seq, N
  <1>4. fold = iter[1 .. N]
    BY <1>2 DEF FoldLeft, MapThenFoldSet
  <1> HIDE DEF fold
  <1>5. \A st, s : Step("visit", e, st, s) = Visit(c, p, st, s)
    BY DEF Step
  <1>6. PICK g : Folds(g, "visit", e, base, seq, N)
    <2> HIDE DEF e
    <2> QED BY <1>2, FoldExists
  <1>7. g = [t \in SUBSET (1 .. N) |->
               IF t = {} THEN base ELSE Visit(c, p, g[t \ {Max(t)}], seq[Max(t)])]
    BY <1>5, <1>6 DEF Folds
  <1>8. iter = [t \in SUBSET (1 .. N) |->
                  IF t = {} THEN base ELSE Visit(c, p, iter[t \ {Max(t)}], seq[Max(t)])]
    BY <1>7, Zenon
  <1> HIDE DEF iter
  <1>9. Folds(iter, "visit", e, base, seq, N)
    BY <1>5, <1>8 DEF Folds
  <1>10. PICK w : Chain(w, "visit", e, base, seq, N) /\ w[N] = iter[1 .. N]
    <2> HIDE DEF e
    <2> QED BY <1>2, <1>9, FoldChain
  <1> DEFINE G == {n \in Nat : n <= N => Reported(w[n].errors, r)}
  <1>11. 0 \in G
    <2>1. w[0].errors = <<>>
      BY <1>10 DEF Chain, base
    <2> QED BY <2>1, EmptyIs DEF Reported
  <1>12. ASSUME NEW n \in Nat, n \in G PROVE n + 1 \in G
    <2>1. SUFFICES ASSUME n + 1 <= N PROVE Reported(w[n + 1].errors, r)
      OBVIOUS
    <2>2. n + 1 \in 1 .. N /\ (n + 1) - 1 = n /\ Reported(w[n].errors, r)
      BY <1>2, <1>12, <2>1
    <2>3. w[n + 1] = Visit(c, p, w[n], seq[n + 1])
      BY <1>5, <1>10, <2>2 DEF Chain
    <2>4. seq[n + 1] \in AllSlots(r)
      BY <1>1, <1>2, <2>2 DEF ToSet
    <2> QED BY <2>2, <2>3, <2>4, VisitReports
  <1>13. N \in G
    <2> HIDE DEF G
    <2> QED BY <1>2, <1>11, <1>12, SetInduction
  <1> QED BY <1>3, <1>4, <1>10, <1>13, <1>2

LEMMA IdeaErrorsAre ==
  ASSUME NEW c, NEW r, NEW p, NEW o, Asked(r), IsSeq(o)
  PROVE  Reported(IdeaErrors(c, r, p, o), r)
  <1> DEFINE Of(t) == [m \in 1 .. r.models |->
                         Only(Visited(r, p, m, <<t>>), {s \in DOMAIN p : p[s].task # 0})]
             Visible(t) == FlattenSeq(Of(t))
             Same(s, t) == /\ Model(s) # Model(t)
                           /\ TheVariation(c, p[s]).work = TheVariation(c, p[t]).work
             Later(v, i) == Only(SubSeq(v, i + 1, Len(v)), {t \in ToSet(v) : Same(v[i], t)})
             Against(v, i) == [k \in DOMAIN Later(v, i) |-> Error(Later(v, i)[k], "idea", v[i])]
             Each(v) == [i \in DOMAIN v |-> Against(v, i)]
             all == [k \in DOMAIN o |-> FlattenSeq(Each(Visible(o[k])))]
  <1>1. IdeaErrors(c, r, p, o) = FlattenSeq(all)
    BY DEF IdeaErrors
  <1> HIDE DEF Same
  <1>2. ASSUME NEW t PROVE IsSeq(Visible(t)) /\ ToSet(Visible(t)) \subseteq AllSlots(r)
    <2>1. IsSeq(Of(t)) /\ DOMAIN Of(t) = 1 .. r.models
      BY DEF IsSeq, Asked
    <2>2. ASSUME NEW m \in 1 .. r.models
          PROVE  IsSeq(Of(t)[m]) /\ ToSet(Of(t)[m]) \subseteq AllSlots(r)
      <3>1. IsSeq(<<t>>)
        BY OneIs
      <3>2. IsSeq(Visited(r, p, m, <<t>>)) /\ ToSet(Visited(r, p, m, <<t>>)) \subseteq AllSlots(r)
        BY <3>1, VisitedAre
      <3>3. Of(t)[m] = Only(Visited(r, p, m, <<t>>), {s \in DOMAIN p : p[s].task # 0})
        OBVIOUS
      <3> HIDE DEF Of
      <3> QED BY <3>2, <3>3, OnlyIs
    <2> HIDE DEF Of
    <2>3. \A m \in DOMAIN Of(t) : IsSeq(Of(t)[m])
      BY <2>1, <2>2
    <2>4. /\ IsSeq(FlattenSeq(Of(t)))
          /\ ToSet(FlattenSeq(Of(t))) = UNION {ToSet(Of(t)[m]) : m \in DOMAIN Of(t)}
      BY <2>1, <2>3, FlattenIs
    <2> QED BY <2>1, <2>2, <2>4
  <1>3. ASSUME NEW v, IsSeq(v), ToSet(v) \subseteq AllSlots(r) PROVE Reported(FlattenSeq(Each(v)), r)
    <2>1. Len(v) \in Nat /\ DOMAIN v = 1 .. Len(v) /\ v \in Seq(ToSet(v))
      BY <1>3, SeqIs
    <2>2. IsSeq(Each(v)) /\ DOMAIN Each(v) = DOMAIN v
      BY <2>1 DEF IsSeq
    <2>3. ASSUME NEW i \in DOMAIN v PROVE Reported(Each(v)[i], r)
      <3>1. SubSeq(v, i + 1, Len(v)) \in Seq(ToSet(v))
        BY <2>1
      <3>2. IsSeq(SubSeq(v, i + 1, Len(v))) /\ ToSet(SubSeq(v, i + 1, Len(v))) \subseteq ToSet(v)
        BY <3>1, TypedIs
      <3>3. IsSeq(Later(v, i)) /\ ToSet(Later(v, i)) \subseteq AllSlots(r)
        BY <1>3, <3>2, OnlyIs
      <3>4. Each(v)[i] = Against(v, i)
        OBVIOUS
      <3>5. Reported(Against(v, i), r)
        <4> HIDE DEF Later
        <4> QED BY <3>3, ReportedEach
      <3> HIDE DEF Against, Each
      <3> QED BY <3>4, <3>5
    <2> HIDE DEF Each
    <2> QED BY <2>2, <2>3, ReportedFlatten
  <1>4. IsSeq(all) /\ DOMAIN all = DOMAIN o
    BY SeqIs DEF IsSeq
  <1>5. ASSUME NEW k \in DOMAIN o PROVE Reported(all[k], r)
    <2>1. all[k] = FlattenSeq(Each(Visible(o[k])))
      OBVIOUS
    <2> HIDE DEF Each, Visible, all
    <2> QED BY <1>2, <1>3, <2>1
  <1> HIDE DEF all
  <1> QED BY <1>1, <1>4, <1>5, ReportedFlatten

\* A review reports slots of the request, and is empty only if every slot that is
\* not in short supply is planned.
LEMMA ErrorsAre ==
  ASSUME NEW c, NEW r, NEW short, NEW p, NEW o, Asked(r), IsSeq(o)
  PROVE  /\ Reported(Errors(c, r, short, p, o), r)
         /\ Errors(c, r, short, p, o) = <<>> => AllSlots(r) \subseteq DOMAIN p \cup short
  <1> DEFINE Missing(m) == Only(SlotsOf(r, m), AllSlots(r) \ (DOMAIN p \cup short))
             Missed(m) == [i \in DOMAIN Missing(m) |-> Error(Missing(m)[i], "missing", NoSlot)]
             models == [m \in 1 .. r.models |-> m]
             own == [m \in DOMAIN models |-> Missed(m) \o SlotErrors(c, r, p, m)]
             twins == [m \in DOMAIN models |-> DuplicateErrors(c, r, p, m, o)]
             ideas == IdeaErrors(c, r, p, o)
  <1>1. Errors(c, r, short, p, o) = (FlattenSeq(own) \o FlattenSeq(twins)) \o ideas
    BY DEF Errors
  <1>2. DOMAIN own = 1 .. r.models /\ DOMAIN twins = 1 .. r.models /\ IsSeq(own) /\ IsSeq(twins)
    BY DEF IsSeq, Asked
  <1>3. ASSUME NEW m \in 1 .. r.models
        PROVE  /\ ToSet(Missing(m)) = ToSet(SlotsOf(r, m)) \ (DOMAIN p \cup short)
               /\ Reported(Missed(m), r)
               /\ \A s \in ToSet(Missing(m)) : Error(s, "missing", NoSlot) \in ToSet(Missed(m))
    <2>1. IsSeq(SlotsOf(r, m)) /\ ToSet(SlotsOf(r, m)) \subseteq AllSlots(r)
      BY SlotsAre
    <2>2. IsSeq(Missing(m)) /\ ToSet(Missing(m)) = ToSet(SlotsOf(r, m)) \ (DOMAIN p \cup short)
      BY <2>1, OnlyIs
    <2> HIDE DEF Missing
    <2>3. ToSet(Missing(m)) \subseteq AllSlots(r)
      BY <2>1, <2>2
    <2> QED BY <2>2, <2>3, ReportedEach
  <1>4. ASSUME NEW m \in 1 .. r.models
        PROVE  Reported(own[m], r) /\ ToSet(Missed(m)) \subseteq ToSet(own[m])
    <2>1. own[m] = Missed(m) \o SlotErrors(c, r, p, m)
      OBVIOUS
    <2>2. Reported(SlotErrors(c, r, p, m), r)
      BY SlotErrorsAre
    <2> HIDE DEF Missed, own
    <2> DEFINE a == Missed(m)
               b == SlotErrors(c, r, p, m)
    <2>3. Reported(a, r) /\ Reported(b, r)
      BY <1>3, <2>2
    <2>4. Reported(a \o b, r) /\ ToSet(a \o b) = ToSet(a) \cup ToSet(b)
      <3> HIDE DEF a, b
      <3> QED BY <2>3, ReportedConcat
    <2> QED BY <2>1, <2>4
  <1>5. ASSUME NEW m \in 1 .. r.models PROVE Reported(twins[m], r)
    BY DuplicateErrorsAre
  <1>6. Reported(ideas, r)
    BY IdeaErrorsAre
  <1> HIDE DEF Missing, Missed, own, twins, ideas
  <1>7. /\ Reported(FlattenSeq(own), r) /\ Reported(FlattenSeq(twins), r)
        /\ ToSet(FlattenSeq(own)) = UNION {ToSet(own[m]) : m \in 1 .. r.models}
    BY <1>2, <1>4, <1>5, ReportedFlatten
  <1>8. /\ Reported(Errors(c, r, short, p, o), r)
        /\ ToSet(FlattenSeq(own)) \subseteq ToSet(Errors(c, r, short, p, o))
    <2>1. PICK a, b : /\ a = FlattenSeq(own) /\ b = FlattenSeq(twins)
                      /\ Reported(a, r) /\ Reported(b, r)
      BY <1>7
    <2>2. Reported(a \o b, r) /\ ToSet(a \o b) = ToSet(a) \cup ToSet(b)
      BY <2>1, ReportedConcat
    <2>3. Reported((a \o b) \o ideas, r) /\ ToSet((a \o b) \o ideas) = ToSet(a \o b) \cup ToSet(ideas)
      BY <1>6, <2>2, ReportedConcat
    <2> QED BY <1>1, <2>1, <2>2, <2>3
  <1>9. ASSUME Errors(c, r, short, p, o) = <<>>, NEW s \in AllSlots(r), s \notin DOMAIN p \cup short
        PROVE  FALSE
    <2>1. PICK m \in 1 .. r.models : s \in ToSet(SlotsOf(r, m))
      BY <1>9 DEF AllSlots
    <2>2. s \in ToSet(Missing(m))
      BY <1>3, <1>9, <2>1
    <2>3. Error(s, "missing", NoSlot) \in ToSet(own[m])
      BY <1>3, <1>4, <2>2
    <2>4. Error(s, "missing", NoSlot) \in ToSet(Errors(c, r, short, p, o))
      BY <1>7, <1>8, <2>3
    <2> QED BY <1>9, <2>4, EmptyIs
  <1> QED BY <1>8, <1>9

-----------------------------------------------------------------------------
(* The repairs of a slot.                                                  *)

\* The planning of a request: what the lemmas on the state need of it.
Given ==
  /\ Asked(request) /\ IsSeq(order)
  /\ Len(cat.tasks) \in Nat /\ DOMAIN cat.tasks = 1 .. Len(cat.tasks)

\* A plan gives some slots of the request an item whose difficulty has a state.
Planned(p) ==
  /\ p = [s \in DOMAIN p |-> p[s]] /\ DOMAIN p \subseteq AllSlots(request)
  /\ \A s \in DOMAIN p : "adjust" \in DOMAIN p[s]

\* A state of the repair knows the errors of its plan, and they are at most n.
Sound(st, n) ==
  /\ DOMAIN st = {"plan", "errors", "failed", "done"}
  /\ Planned(st.plan) /\ st.errors = Review(st.plan) /\ Len(st.errors) <= n

LEMMA ReviewIs ==
  ASSUME Given, NEW p
  PROVE  /\ Reported(Review(p), request) /\ Len(Review(p)) \in Nat
         /\ Review(p) = <<>> => AllSlots(request) \subseteq DOMAIN p \cup Short
  <1>1. /\ Reported(Review(p), request)
        /\ Review(p) = <<>> => AllSlots(request) \subseteq DOMAIN p \cup Short
    BY ErrorsAre DEF Given, Review
  <1>2. Len(Review(p)) \in Nat
    BY <1>1, SeqIs DEF Reported
  <1> QED BY <1>1, <1>2

LEMMA BindIs ==
  ASSUME NEW p, NEW s \in AllSlots(request), NEW item, Planned(p), "adjust" \in DOMAIN item
  PROVE  Planned(Bind(p, s, item))
  <1>1. Bind(p, s, item) = [t \in DOMAIN p \cup {s} |-> IF t = s THEN item ELSE p[t]]
    BY DEF Bind
  <1> QED BY <1>1 DEF Planned

LEMMA ItemIs ==
  /\ \A c, a : "adjust" \in DOMAIN Item(c, a) /\ Item(c, a).adjust = a
  /\ \A c : "adjust" \in DOMAIN Fallback(c)
  /\ \A item, slots : "adjust" \in DOMAIN item => "adjust" \in DOMAIN WithContract(item, slots)
  BY DEF Item, Fallback, WithContract

\* A slot that is clean, with no more errors elsewhere, has no more errors in all.
LEMMA CleanIsShorter ==
  ASSUME NEW errs, NEW before, NEW s, IsSeq(errs), IsSeq(before), Clean(errs, s, before)
  PROVE  Len(errs) <= Len(before)
  <1>1. ASSUME NEW x, IsSeq(x) PROVE About(x, s) \in Nat /\ Len(x) \in Nat
    <2>1. Len(x) \in Nat /\ DOMAIN x = 1 .. Len(x)
      BY <1>1, SeqIs
    <2>2. IsFiniteSet(1 .. Len(x))
      BY <2>1, FS_Interval
    <2> DEFINE T == {i \in DOMAIN x : Mentions(x[i], s)}
    <2>3. IsFiniteSet(T)
      <3>1. T \in SUBSET (1 .. Len(x))
        BY <2>1
      <3> HIDE DEF T
      <3> QED BY <2>2, <3>1, FS_Subset
    <2>4. Cardinality(T) \in Nat
      <3> HIDE DEF T
      <3> QED BY <2>3, FS_CardinalityType
    <2> QED BY <2>1, <2>4 DEF About
  <1>2. About(errs, s) = 0 /\ Len(errs) - About(errs, s) <= Len(before) - About(before, s)
    BY DEF Clean, Elsewhere
  <1>3. About(before, s) \in Nat /\ Len(errs) \in Nat /\ Len(before) \in Nat
    BY <1>1
  <1> QED BY <1>2, <1>3

LEMMA TryVariationSound ==
  ASSUME Given, NEW n \in Nat, NEW st, NEW s \in AllSlots(request), NEW r, NEW c,
         Sound(st, n), Sound(r, n)
  PROVE  Sound(TryVariation(st, s, r, c), n)
  <1> DEFINE p == Bind(st.plan, s, Item(c, "none"))
             errs == Review(p)
  <1>1. Planned(p)
    BY BindIs, ItemIs DEF Sound
  <1>2. IsSeq(errs) /\ IsSeq(st.errors) /\ Len(errs) \in Nat /\ Len(st.errors) \in Nat
    BY ReviewIs DEF Sound, Reported
  <1>3. CASE ~r.done /\ Clean(errs, s, st.errors)
    <2>1. TryVariation(st, s, r, c) = [r EXCEPT !.done = TRUE, !.plan = p, !.errors = errs]
      BY <1>3 DEF TryVariation
    <2>2. Len(errs) <= n
      <3>1. Len(errs) <= Len(st.errors)
        <4> HIDE DEF errs
        <4> QED BY <1>2, <1>3, CleanIsShorter
      <3> HIDE DEF errs
      <3> QED BY <1>2, <3>1 DEF Sound
    <2>3. /\ TryVariation(st, s, r, c).plan = p /\ TryVariation(st, s, r, c).errors = errs
          /\ DOMAIN TryVariation(st, s, r, c) = DOMAIN r
      <3> HIDE DEF p, errs
      <3> QED BY <2>1 DEF Sound
    <2> HIDE DEF p
    <2> QED BY <1>1, <2>2, <2>3 DEF Sound
  <1>4. CASE ~(~r.done /\ Clean(errs, s, st.errors))
    BY <1>4 DEF TryVariation
  <1> QED BY <1>3, <1>4

LEMMA TryTaskSound ==
  ASSUME Given, NEW n \in Nat, NEW st, NEW s \in AllSlots(request), NEW r, NEW c,
         Sound(st, n), Sound(r, n)
  PROVE  Sound(TryTask(st, s, r, c), n)
  <1> DEFINE p == Bind(st.plan, s, Fallback(c))
             errs == Review(p)
  <1>1. Planned(p)
    BY BindIs, ItemIs DEF Sound
  <1>2. Len(errs) \in Nat /\ Len(st.errors) \in Nat
    BY ReviewIs DEF Sound
  <1>3. CASE r.done
    BY <1>3 DEF TryTask
  <1>4. CASE ~r.done /\ Improves(errs, s, st.errors)
    <2>1. TryTask(st, s, r, c) = [r EXCEPT !.done = TRUE, !.plan = p, !.errors = errs]
      BY <1>4 DEF TryTask
    <2>2. Len(errs) <= n
      <3> HIDE DEF errs
      <3> QED BY <1>2, <1>4 DEF Improves, Sound
    <2>3. /\ TryTask(st, s, r, c).plan = p /\ TryTask(st, s, r, c).errors = errs
          /\ DOMAIN TryTask(st, s, r, c) = DOMAIN r
      <3> HIDE DEF p, errs
      <3> QED BY <2>1 DEF Sound
    <2> HIDE DEF p
    <2> QED BY <1>1, <2>2, <2>3 DEF Sound
  <1>5. CASE ~r.done /\ ~Improves(errs, s, st.errors)
    <2> DEFINE more == r.failed \cup {<<s, c>>}
    <2>1. TryTask(st, s, r, c) = [r EXCEPT !.failed = more]
      BY <1>5 DEF TryTask
    <2>2. /\ DOMAIN TryTask(st, s, r, c) = DOMAIN r
          /\ TryTask(st, s, r, c).plan = r.plan /\ TryTask(st, s, r, c).errors = r.errors
      <3> HIDE DEF more
      <3> QED BY <2>1 DEF Sound
    <2> QED BY <2>2 DEF Sound
  <1> QED BY <1>3, <1>4, <1>5

\* The first fold of a repair.
LEMMA VariationsSound ==
  ASSUME Given, NEW m \in Nat, NEW st, NEW s \in AllSlots(request), Sound(st, m)
  PROVE  Sound(TryVariations(st, s), m)
  <1> DEFINE e == [st |-> st, s |-> s]
             base == st
             seq == VariationRepairs(st, s)
             N == Len(seq)
             fold == FoldLeft(LAMBDA r, x : TryVariation(st, s, r, x), base, seq)
             iter[t \in SUBSET (1 .. N)] ==
               IF t = {} THEN base ELSE TryVariation(st, s, iter[t \ {Max(t)}], seq[Max(t)])
  <1>1. IsSeq(seq)
    <2>1. CASE Conflicts(st.errors, s) # {} \/ s \notin DOMAIN st.plan
      BY <2>1, EmptyIs DEF VariationRepairs
    <2>2. CASE ~(Conflicts(st.errors, s) # {} \/ s \notin DOMAIN st.plan)
      <3> DEFINE three == [v \in 1 .. 3 |-> [task |-> st.plan[s].task, variation |-> v]]
      <3>1. PICK others : VariationRepairs(st, s) = Only(three, others)
        BY <2>2 DEF VariationRepairs
      <3>2. IsSeq(three)
        BY DEF IsSeq
      <3> HIDE DEF three
      <3> QED BY <3>1, <3>2, OnlyIs
    <2> QED BY <2>1, <2>2
  <1>2. N \in Nat /\ DOMAIN seq = 1 .. N
    <2> HIDE DEF seq
    <2> QED BY <1>1, SeqIs
  <1>3. TryVariations(st, s) = fold
    BY DEF TryVariations
  <1> HIDE DEF base, seq, N
  <1>4. fold = iter[1 .. N]
    BY <1>2 DEF FoldLeft, MapThenFoldSet
  <1> HIDE DEF fold
  <1>5. \A r, x : Step("variation", e, r, x) = TryVariation(st, s, r, x)
    BY DEF Step
  <1>6. PICK g : Folds(g, "variation", e, base, seq, N)
    <2> HIDE DEF e
    <2> QED BY <1>2, FoldExists
  <1>7. g = [t \in SUBSET (1 .. N) |->
               IF t = {} THEN base ELSE TryVariation(st, s, g[t \ {Max(t)}], seq[Max(t)])]
    BY <1>5, <1>6 DEF Folds
  <1>8. iter = [t \in SUBSET (1 .. N) |->
                  IF t = {} THEN base ELSE TryVariation(st, s, iter[t \ {Max(t)}], seq[Max(t)])]
    BY <1>7, Zenon
  <1> HIDE DEF iter
  <1>9. Folds(iter, "variation", e, base, seq, N)
    BY <1>5, <1>8 DEF Folds
  <1>10. PICK w : Chain(w, "variation", e, base, seq, N) /\ w[N] = iter[1 .. N]
    <2> HIDE DEF e
    <2> QED BY <1>2, <1>9, FoldChain
  <1> DEFINE G == {n \in Nat : n <= N => Sound(w[n], m)}
  <1>11. 0 \in G
    <2>1. w[0] = base
      BY <1>10 DEF Chain
    <2> QED BY <2>1 DEF base
  <1>12. ASSUME NEW n \in Nat, n \in G PROVE n + 1 \in G
    <2>1. SUFFICES ASSUME n + 1 <= N PROVE Sound(w[n + 1], m)
      OBVIOUS
    <2>2. n + 1 \in 1 .. N /\ (n + 1) - 1 = n /\ (Sound(w[n], m))
      BY <1>2, <1>12, <2>1
    <2>3. w[n + 1] = TryVariation(st, s, w[n], seq[n + 1])
      BY <1>5, <1>10, <2>2 DEF Chain
    <2>4. seq[n + 1] \in ToSet(seq)
      BY <1>2, <2>2 DEF ToSet
    <2> QED BY <2>2, <2>3, TryVariationSound
  <1>13. Sound(w[N], m)
    <2>1. N \in G
      <3> HIDE DEF G
      <3> QED BY <1>2, <1>11, <1>12, SetInduction
    <2> QED BY <1>2, <2>1
  <1> QED BY <1>3, <1>4, <1>10, <1>13

LEMMA CompatibleIsFinite ==
  ASSUME Given, NEW type
  PROVE  IsFiniteSet(Compatible(cat, type))
  <1> DEFINE A == DOMAIN cat.tasks
             P == A \X (1 .. 3)
             R == [task : A, variation : 1 .. 3]
             f == [x \in P |-> [task |-> x[1], variation |-> x[2]]]
  <1>1. IsFiniteSet(A) /\ IsFiniteSet(1 .. 3)
    <2>1. A = 1 .. Len(cat.tasks) /\ Len(cat.tasks) \in Int /\ 1 \in Int /\ 3 \in Int
      BY DEF Given
    <2> HIDE DEF A
    <2> QED BY <2>1, FS_Interval
  <1>2. IsFiniteSet(P)
    BY <1>1, FS_Product
  <1>3. f \in Surjection(P, R)
    <2>1. f \in [P -> R]
      OBVIOUS
    <2>2. ASSUME NEW y \in R PROVE \E x \in P : f[x] = y
      <3>1. <<y.task, y.variation>> \in P /\ y = [task |-> y.task, variation |-> y.variation]
        OBVIOUS
      <3>2. f[<<y.task, y.variation>>] = y
        BY <3>1
      <3> QED BY <3>1, <3>2
    <2> QED BY <2>1, <2>2 DEF Surjection
  <1>4. IsFiniteSet(R)
    <2> HIDE DEF f, P, R
    <2> QED BY <1>2, <1>3, FS_Surjection
  <1>5. Compatible(cat, type) \in SUBSET R
    BY DEF Compatible
  <1> HIDE DEF R
  <1> QED BY <1>4, <1>5, FS_Subset

LEMMA RankedIsSeq ==
  ASSUME NEW c, NEW d, NEW p, NEW S, IsFiniteSet(S)
  PROVE  IsSeq(Ranked(c, d, p, S))
  <1>1. Cardinality(S) \in Nat
    BY FS_CardinalityType
  <1> DEFINE score == [x \in S |-> Score(c, x, d, p)]
             Before(x, y) == \/ score[x] > score[y]
                             \/ score[x] = score[y] /\ x.task < y.task
                             \/ score[x] = score[y] /\ x.task = y.task /\ x.variation < y.variation
             rank == [x \in S |-> Cardinality({y \in S : Before(y, x)})]
             Body(i) == CHOOSE x \in S : rank[x] = i - 1
  <1>2. Ranked(c, d, p, S) = [i \in 1 .. Cardinality(S) |-> Body(i)]
    BY DEF Ranked
  <1> HIDE DEF Body
  <1>3. \A i \in 1 .. Cardinality(S) : Ranked(c, d, p, S)[i] = Body(i)
    BY <1>2
  <1>4. Ranked(c, d, p, S) = [i \in 1 .. Cardinality(S) |-> Ranked(c, d, p, S)[i]]
    BY <1>2, <1>3
  <1> QED BY <1>1, <1>4 DEF IsSeq

LEMMA TaskRepairsIsSeq ==
  ASSUME Given, NEW st, NEW s
  PROVE  IsSeq(TaskRepairs(st, s))
  <1> DEFINE rest == [t \in DOMAIN st.plan \ {s} |-> st.plan[t]]
             current == IF s \in DOMAIN st.plan THEN st.plan[s].task ELSE 0
             S == {c \in Compatible(cat, QType(s)) : c.task # current /\ <<s, c>> \notin st.failed}
  <1>1. TaskRepairs(st, s) = Ranked(cat, request.difficulty, rest, S)
    BY DEF TaskRepairs
  <1>2. S \in SUBSET Compatible(cat, QType(s))
    OBVIOUS
  <1> HIDE DEF rest, S
  <1>3. IsFiniteSet(S)
    BY <1>2, CompatibleIsFinite, FS_Subset
  <1> QED BY <1>1, <1>3, RankedIsSeq

\* The second fold of a repair.
LEMMA TasksSound ==
  ASSUME Given, NEW m \in Nat, NEW st, NEW s \in AllSlots(request), Sound(st, m)
  PROVE  Sound(TryTasks(st, s), m)
  <1> DEFINE e == [st |-> st, s |-> s]
             base == st
             seq == TaskRepairs(st, s)
             N == Len(seq)
             fold == FoldLeft(LAMBDA r, x : TryTask(st, s, r, x), base, seq)
             iter[t \in SUBSET (1 .. N)] ==
               IF t = {} THEN base ELSE TryTask(st, s, iter[t \ {Max(t)}], seq[Max(t)])
  <1>1. IsSeq(seq)
    BY TaskRepairsIsSeq
  <1>2. N \in Nat /\ DOMAIN seq = 1 .. N
    <2> HIDE DEF seq
    <2> QED BY <1>1, SeqIs
  <1>3. TryTasks(st, s) \in {st, fold}
    BY DEF TryTasks
  <1> HIDE DEF base, seq, N
  <1>4. fold = iter[1 .. N]
    BY <1>2 DEF FoldLeft, MapThenFoldSet
  <1> HIDE DEF fold
  <1>5. \A r, x : Step("task", e, r, x) = TryTask(st, s, r, x)
    BY DEF Step
  <1>6. PICK g : Folds(g, "task", e, base, seq, N)
    <2> HIDE DEF e
    <2> QED BY <1>2, FoldExists
  <1>7. g = [t \in SUBSET (1 .. N) |->
               IF t = {} THEN base ELSE TryTask(st, s, g[t \ {Max(t)}], seq[Max(t)])]
    BY <1>5, <1>6 DEF Folds
  <1>8. iter = [t \in SUBSET (1 .. N) |->
                  IF t = {} THEN base ELSE TryTask(st, s, iter[t \ {Max(t)}], seq[Max(t)])]
    BY <1>7, Zenon
  <1> HIDE DEF iter
  <1>9. Folds(iter, "task", e, base, seq, N)
    BY <1>5, <1>8 DEF Folds
  <1>10. PICK w : Chain(w, "task", e, base, seq, N) /\ w[N] = iter[1 .. N]
    <2> HIDE DEF e
    <2> QED BY <1>2, <1>9, FoldChain
  <1> DEFINE G == {n \in Nat : n <= N => Sound(w[n], m)}
  <1>11. 0 \in G
    <2>1. w[0] = base
      BY <1>10 DEF Chain
    <2> QED BY <2>1 DEF base
  <1>12. ASSUME NEW n \in Nat, n \in G PROVE n + 1 \in G
    <2>1. SUFFICES ASSUME n + 1 <= N PROVE Sound(w[n + 1], m)
      OBVIOUS
    <2>2. n + 1 \in 1 .. N /\ (n + 1) - 1 = n /\ (Sound(w[n], m))
      BY <1>2, <1>12, <2>1
    <2>3. w[n + 1] = TryTask(st, s, w[n], seq[n + 1])
      BY <1>5, <1>10, <2>2 DEF Chain
    <2>4. seq[n + 1] \in ToSet(seq)
      BY <1>2, <2>2 DEF ToSet
    <2> QED BY <2>2, <2>3, TryTaskSound
  <1>13. Sound(w[N], m)
    <2>1. N \in G
      <3> HIDE DEF G
      <3> QED BY <1>2, <1>11, <1>12, SetInduction
    <2> QED BY <1>2, <2>1
  <1> QED BY <1>3, <1>4, <1>10, <1>13

LEMMA ChosenSound ==
  ASSUME Given, NEW n \in Nat, NEW st, NEW s \in AllSlots(request), NEW c, Sound(st, n)
  PROVE  Sound(Chosen(st, s, c), n)
  <1> DEFINE sharing == {t \in DOMAIN st.plan \ {s} : Identity(cat, st.plan[t]) = CatalogId(cat, c)}
             item == IF sharing = {} THEN Item(c, "none") ELSE WithContract(Item(c, "none"), sharing)
             p == Bind(st.plan, s, item)
             errs == Review(p)
  <1>1. Planned(p)
    <2>1. "adjust" \in DOMAIN item
      <3> HIDE DEF sharing
      <3> QED BY ItemIs
    <2> HIDE DEF item
    <2> QED BY <2>1, BindIs DEF Sound
  <1>2. IsSeq(errs) /\ IsSeq(st.errors) /\ Len(errs) \in Nat /\ Len(st.errors) \in Nat
    <2> HIDE DEF p
    <2> QED BY ReviewIs DEF Sound, Reported
  <1>3. Chosen(st, s, c) = IF Clean(errs, s, st.errors)
                             THEN [st EXCEPT !.plan = p, !.errors = errs] ELSE st
    BY DEF Chosen
  <1>4. CASE Clean(errs, s, st.errors)
    <2>1. Chosen(st, s, c) = [st EXCEPT !.plan = p, !.errors = errs]
      BY <1>3, <1>4
    <2>2. Len(errs) <= n
      <3> HIDE DEF errs
      <3>1. Len(errs) <= Len(st.errors)
        BY <1>2, <1>4, CleanIsShorter
      <3> QED BY <1>2, <3>1 DEF Sound
    <2>3. /\ Chosen(st, s, c).plan = p /\ Chosen(st, s, c).errors = errs
          /\ DOMAIN Chosen(st, s, c) = DOMAIN st
      <3> HIDE DEF p, errs
      <3> QED BY <2>1 DEF Sound
    <2> HIDE DEF p
    <2> QED BY <1>1, <2>2, <2>3 DEF Sound
  <1>5. CASE ~Clean(errs, s, st.errors)
    BY <1>3, <1>5
  <1> QED BY <1>4, <1>5

\* Whatever the repair of a slot does, it leaves no more errors than n.
LEMMA RepairsSound ==
  ASSUME Given, NEW n \in Nat, NEW st, NEW s \in AllSlots(request), Sound(st, n)
  PROVE  \A x \in Repairs(st, s) : Sound(x, n)
  <1> DEFINE fresh == [st EXCEPT !.done = FALSE]
             tried == TryTasks(TryVariations(fresh, s), s)
  <1>1. Sound(fresh, n)
    <2>1. DOMAIN fresh = DOMAIN st /\ fresh.plan = st.plan /\ fresh.errors = st.errors
      BY DEF Sound
    <2> HIDE DEF fresh
    <2> QED BY <2>1 DEF Sound
  <1>2. Sound(tried, n)
    <2> HIDE DEF fresh
    <2> QED BY <1>1, VariationsSound, TasksSound
  <1> HIDE DEF fresh
  <1>3. Repairs(st, s) \subseteq {st, tried} \cup {Chosen(tried, s, c) : c \in Proposals(tried, s)}
    BY DEF Repairs, fresh
  <1> HIDE DEF tried
  <1> QED BY <1>2, <1>3, ChosenSound

\* The repair of a plan: slot by slot, the states it may leave.
LEMMA AllRepairsSound ==
  ASSUME Given, NEW m \in Nat, NEW st, Sound(st, m),
         NEW slots, IsSeq(slots), ToSet(slots) \subseteq AllSlots(request)
  PROVE  \A y \in AllRepairs(st, slots) : Sound(y, m)
  <1> DEFINE e == [any |-> 0]
             base == {st}
             seq == slots
             N == Len(seq)
             fold == FoldLeft(LAMBDA r, x : Repaired(r, x), base, seq)
             iter[t \in SUBSET (1 .. N)] ==
               IF t = {} THEN base ELSE Repaired(iter[t \ {Max(t)}], seq[Max(t)])
  <1>1. IsSeq(seq) /\ ToSet(seq) \subseteq AllSlots(request)
    OBVIOUS
  <1>2. N \in Nat /\ DOMAIN seq = 1 .. N
    <2> HIDE DEF seq
    <2> QED BY <1>1, SeqIs
  <1>3. AllRepairs(st, slots) = fold
    BY DEF AllRepairs
  <1> HIDE DEF base, seq, N
  <1>4. fold = iter[1 .. N]
    BY <1>2 DEF FoldLeft, MapThenFoldSet
  <1> HIDE DEF fold
  <1>5. \A r, x : Step("repairs", e, r, x) = Repaired(r, x)
    BY DEF Step
  <1>6. PICK g : Folds(g, "repairs", e, base, seq, N)
    <2> HIDE DEF e
    <2> QED BY <1>2, FoldExists
  <1>7. g = [t \in SUBSET (1 .. N) |->
               IF t = {} THEN base ELSE Repaired(g[t \ {Max(t)}], seq[Max(t)])]
    BY <1>5, <1>6 DEF Folds
  <1>8. iter = [t \in SUBSET (1 .. N) |->
                  IF t = {} THEN base ELSE Repaired(iter[t \ {Max(t)}], seq[Max(t)])]
    BY <1>7, Zenon
  <1> HIDE DEF iter
  <1>9. Folds(iter, "repairs", e, base, seq, N)
    BY <1>5, <1>8 DEF Folds
  <1>10. PICK w : Chain(w, "repairs", e, base, seq, N) /\ w[N] = iter[1 .. N]
    <2> HIDE DEF e
    <2> QED BY <1>2, <1>9, FoldChain
  <1> DEFINE G == {n \in Nat : n <= N => \A y \in w[n] : Sound(y, m)}
  <1>11. 0 \in G
    <2>1. w[0] = base
      BY <1>10 DEF Chain
    <2> QED BY <2>1 DEF base
  <1>12. ASSUME NEW n \in Nat, n \in G PROVE n + 1 \in G
    <2>1. SUFFICES ASSUME n + 1 <= N PROVE \A y \in w[n + 1] : Sound(y, m)
      OBVIOUS
    <2>2. n + 1 \in 1 .. N /\ (n + 1) - 1 = n /\ (\A y \in w[n] : Sound(y, m))
      BY <1>2, <1>12, <2>1
    <2>3. w[n + 1] = Repaired(w[n], seq[n + 1])
      BY <1>5, <1>10, <2>2 DEF Chain
    <2>4. seq[n + 1] \in ToSet(seq)
      BY <1>2, <2>2 DEF ToSet
    <2>5. seq[n + 1] \in AllSlots(request)
      BY <1>1, <2>4
    <2> QED BY <2>2, <2>3, <2>5, RepairsSound DEF Repaired
  <1>13. \A y \in w[N] : Sound(y, m)
    <2>1. N \in G
      <3> HIDE DEF G
      <3> QED BY <1>2, <1>11, <1>12, SetInduction
    <2> QED BY <1>2, <2>1
  <1> QED BY <1>3, <1>4, <1>10, <1>13

\* The slots a review is about.
LEMMA InvalidAre ==
  ASSUME NEW errs, NEW r0, Reported(errs, r0)
  PROVE  IsSeq(InvalidSlots(errs)) /\ ToSet(InvalidSlots(errs)) \subseteq AllSlots(r0)
  <1> DEFINE e == [any |-> 0]
             base == <<>>
             seq == errs
             N == Len(seq)
             fold == FoldLeft(LAMBDA r, x : (IF Contains(r, x.slot) THEN r ELSE Append(r, x.slot)), base, seq)
             iter[t \in SUBSET (1 .. N)] ==
               IF t = {} THEN base
               ELSE (IF Contains(iter[t \ {Max(t)}], seq[Max(t)].slot)
                     THEN iter[t \ {Max(t)}] ELSE Append(iter[t \ {Max(t)}], seq[Max(t)].slot))
  <1>1. IsSeq(seq)
    BY DEF Reported
  <1>2. N \in Nat /\ DOMAIN seq = 1 .. N
    <2> HIDE DEF seq
    <2> QED BY <1>1, SeqIs
  <1>3. InvalidSlots(errs) = fold
    BY DEF InvalidSlots
  <1> HIDE DEF base, seq, N
  <1>4. fold = iter[1 .. N]
    BY <1>2 DEF FoldLeft, MapThenFoldSet
  <1> HIDE DEF fold
  <1>5. \A r, x : Step("invalid", e, r, x) = (IF Contains(r, x.slot) THEN r ELSE Append(r, x.slot))
    BY DEF Step
  <1>6. PICK g : Folds(g, "invalid", e, base, seq, N)
    <2> HIDE DEF e
    <2> QED BY <1>2, FoldExists
  <1>7. g = [t \in SUBSET (1 .. N) |->
               IF t = {} THEN base
               ELSE (IF Contains(g[t \ {Max(t)}], seq[Max(t)].slot)
                     THEN g[t \ {Max(t)}] ELSE Append(g[t \ {Max(t)}], seq[Max(t)].slot))]
    BY <1>5, <1>6 DEF Folds
  <1>8. iter = [t \in SUBSET (1 .. N) |->
                  IF t = {} THEN base
                  ELSE (IF Contains(iter[t \ {Max(t)}], seq[Max(t)].slot)
                        THEN iter[t \ {Max(t)}] ELSE Append(iter[t \ {Max(t)}], seq[Max(t)].slot))]
    BY <1>7, Zenon
  <1> HIDE DEF iter
  <1>9. Folds(iter, "invalid", e, base, seq, N)
    BY <1>5, <1>8 DEF Folds
  <1>10. PICK w : Chain(w, "invalid", e, base, seq, N) /\ w[N] = iter[1 .. N]
    <2> HIDE DEF e
    <2> QED BY <1>2, <1>9, FoldChain
  <1> DEFINE G == {n \in Nat : n <= N => IsSeq(w[n]) /\ ToSet(w[n]) \subseteq AllSlots(r0)}
  <1>11. 0 \in G
    <2>1. w[0] = base
      BY <1>10 DEF Chain
    <2> QED BY <2>1, EmptyIs DEF base
  <1>12. ASSUME NEW n \in Nat, n \in G PROVE n + 1 \in G
    <2>1. SUFFICES ASSUME n + 1 <= N PROVE IsSeq(w[n + 1]) /\ ToSet(w[n + 1]) \subseteq AllSlots(r0)
      OBVIOUS
    <2>2. n + 1 \in 1 .. N /\ (n + 1) - 1 = n /\ (IsSeq(w[n]) /\ ToSet(w[n]) \subseteq AllSlots(r0))
      BY <1>2, <1>12, <2>1
    <2>3. w[n + 1] = (IF Contains(w[n], seq[n + 1].slot) THEN w[n] ELSE Append(w[n], seq[n + 1].slot))
      BY <1>5, <1>10, <2>2 DEF Chain
    <2>4. seq[n + 1] \in ToSet(seq)
      BY <1>2, <2>2 DEF ToSet
    <2>5. seq[n + 1].slot \in AllSlots(r0)
      BY <2>4 DEF Reported, seq
    <2> QED BY <2>2, <2>3, <2>5, AppendIs
  <1>13. IsSeq(w[N]) /\ ToSet(w[N]) \subseteq AllSlots(r0)
    <2>1. N \in G
      <3> HIDE DEF G
      <3> QED BY <1>2, <1>11, <1>12, SetInduction
    <2> QED BY <1>2, <2>1
  <1> QED BY <1>3, <1>4, <1>10, <1>13

-----------------------------------------------------------------------------
(* The allocation, and the fallbacks of an adjustment.                     *)

LEMMA MaterializeIs ==
  ASSUME NEW c, NEW a, NEW p, NEW s \in AllSlots(request), Planned(p)
  PROVE  Planned(Materialize(c, request, a, p, s))
  <1> DEFINE item == IF QType(s) = FillBlank THEN EntryItem(LeastUsed(c, p))
                     ELSE Item(a[s], Pending(c, request.difficulty, a[s]))
             twins == Sharers(p, item)
             final == IF twins = {} THEN item ELSE WithContract(item, twins)
  <1>1. \/ Materialize(c, request, a, p, s) = p
        \/ Materialize(c, request, a, p, s) = Bind(p, s, final)
    BY DEF Materialize
  <1>2. "adjust" \in DOMAIN item
    <2>1. \A x : "adjust" \in DOMAIN EntryItem(x)
      BY DEF EntryItem
    <2> QED BY <2>1, ItemIs
  <1>3. "adjust" \in DOMAIN final
    <2> HIDE DEF item, twins
    <2> QED BY <1>2, ItemIs
  <1> HIDE DEF final
  <1> QED BY <1>1, <1>3, BindIs

\* A model's slots are planned after those of the models before it.
LEMMA MaterializedIs ==
  ASSUME Given, NEW c, NEW p, Planned(p), NEW slots, NEW a,
         IsSeq(slots), ToSet(slots) \subseteq AllSlots(request)
  PROVE  Planned(Materialized(c, request, p, slots, a))
  <1> DEFINE e == [cat |-> c, request |-> request, assigned |-> a]
             base == p
             seq == slots
             N == Len(seq)
             fold == FoldLeft(LAMBDA r, x : Materialize(c, request, a, r, x), base, seq)
             iter[t \in SUBSET (1 .. N)] ==
               IF t = {} THEN base ELSE Materialize(c, request, a, iter[t \ {Max(t)}], seq[Max(t)])
  <1>1. IsSeq(seq) /\ ToSet(seq) \subseteq AllSlots(request)
    OBVIOUS
  <1>2. N \in Nat /\ DOMAIN seq = 1 .. N
    <2> HIDE DEF seq
    <2> QED BY <1>1, SeqIs
  <1>3. Materialized(c, request, p, slots, a) = fold
    BY DEF Materialized
  <1> HIDE DEF base, seq, N
  <1>4. fold = iter[1 .. N]
    BY <1>2 DEF FoldLeft, MapThenFoldSet
  <1> HIDE DEF fold
  <1>5. \A r, x : Step("materialize", e, r, x) = Materialize(c, request, a, r, x)
    BY DEF Step
  <1>6. PICK g : Folds(g, "materialize", e, base, seq, N)
    <2> HIDE DEF e
    <2> QED BY <1>2, FoldExists
  <1>7. g = [t \in SUBSET (1 .. N) |->
               IF t = {} THEN base ELSE Materialize(c, request, a, g[t \ {Max(t)}], seq[Max(t)])]
    BY <1>5, <1>6 DEF Folds
  <1>8. iter = [t \in SUBSET (1 .. N) |->
                  IF t = {} THEN base ELSE Materialize(c, request, a, iter[t \ {Max(t)}], seq[Max(t)])]
    BY <1>7, Zenon
  <1> HIDE DEF iter
  <1>9. Folds(iter, "materialize", e, base, seq, N)
    BY <1>5, <1>8 DEF Folds
  <1>10. PICK w : Chain(w, "materialize", e, base, seq, N) /\ w[N] = iter[1 .. N]
    <2> HIDE DEF e
    <2> QED BY <1>2, <1>9, FoldChain
  <1> DEFINE G == {n \in Nat : n <= N => Planned(w[n])}
  <1>11. 0 \in G
    <2>1. w[0] = base
      BY <1>10 DEF Chain
    <2> QED BY <2>1 DEF base
  <1>12. ASSUME NEW n \in Nat, n \in G PROVE n + 1 \in G
    <2>1. SUFFICES ASSUME n + 1 <= N PROVE Planned(w[n + 1])
      OBVIOUS
    <2>2. n + 1 \in 1 .. N /\ (n + 1) - 1 = n /\ (Planned(w[n]))
      BY <1>2, <1>12, <2>1
    <2>3. w[n + 1] = Materialize(c, request, a, w[n], seq[n + 1])
      BY <1>5, <1>10, <2>2 DEF Chain
    <2>4. seq[n + 1] \in ToSet(seq)
      BY <1>2, <2>2 DEF ToSet
    <2>5. seq[n + 1] \in AllSlots(request)
      BY <1>1, <2>4
    <2> QED BY <2>2, <2>3, <2>5, MaterializeIs
  <1>13. Planned(w[N])
    <2>1. N \in G
      <3> HIDE DEF G
      <3> QED BY <1>2, <1>11, <1>12, SetInduction
    <2> QED BY <1>2, <2>1
  <1> QED BY <1>3, <1>4, <1>10, <1>13

LEMMA AllocatedModelIs ==
  ASSUME Given, NEW c, NEW p, Planned(p), NEW m \in 1 .. request.models
  PROVE  Planned(AllocatedModel(c, request, p, m))
  <1>1. \E a : AllocatedModel(c, request, p, m) = Materialized(c, request, p, SlotsOf(request, m), a)
    BY DEF AllocatedModel
  <1>2. IsSeq(SlotsOf(request, m)) /\ ToSet(SlotsOf(request, m)) \subseteq AllSlots(request)
    BY SlotsAre DEF Given
  <1> QED BY <1>1, <1>2, MaterializedIs

\* The allocation plans slots of the request.
LEMMA AllocatedIs ==
  ASSUME Given, NEW c
  PROVE  Planned(Allocated(c, request))
  <1> DEFINE e == [cat |-> c, request |-> request]
             base == NoPlan
             seq == [m \in 1 .. request.models |-> m]
             N == Len(seq)
             fold == FoldLeft(LAMBDA r, x : AllocatedModel(c, request, r, x), base, seq)
             iter[t \in SUBSET (1 .. N)] ==
               IF t = {} THEN base ELSE AllocatedModel(c, request, iter[t \ {Max(t)}], seq[Max(t)])
  <1>1. IsSeq(seq) /\ ToSet(seq) \subseteq 1 .. request.models
    <2>1. request.models \in Nat
      BY DEF Given, Asked
    <2>2. ToSet(seq) \subseteq 1 .. request.models
      BY DEF ToSet
    <2> QED BY <2>1, <2>2 DEF IsSeq
  <1>2. N \in Nat /\ DOMAIN seq = 1 .. N
    <2> HIDE DEF seq
    <2> QED BY <1>1, SeqIs
  <1>3. Allocated(c, request) = fold
    BY DEF Allocated
  <1> HIDE DEF base, seq, N
  <1>4. fold = iter[1 .. N]
    BY <1>2 DEF FoldLeft, MapThenFoldSet
  <1> HIDE DEF fold
  <1>5. \A r, x : Step("model", e, r, x) = AllocatedModel(c, request, r, x)
    BY DEF Step
  <1>6. PICK g : Folds(g, "model", e, base, seq, N)
    <2> HIDE DEF e
    <2> QED BY <1>2, FoldExists
  <1>7. g = [t \in SUBSET (1 .. N) |->
               IF t = {} THEN base ELSE AllocatedModel(c, request, g[t \ {Max(t)}], seq[Max(t)])]
    BY <1>5, <1>6 DEF Folds
  <1>8. iter = [t \in SUBSET (1 .. N) |->
                  IF t = {} THEN base ELSE AllocatedModel(c, request, iter[t \ {Max(t)}], seq[Max(t)])]
    BY <1>7, Zenon
  <1> HIDE DEF iter
  <1>9. Folds(iter, "model", e, base, seq, N)
    BY <1>5, <1>8 DEF Folds
  <1>10. PICK w : Chain(w, "model", e, base, seq, N) /\ w[N] = iter[1 .. N]
    <2> HIDE DEF e
    <2> QED BY <1>2, <1>9, FoldChain
  <1> DEFINE G == {n \in Nat : n <= N => Planned(w[n])}
  <1>11. 0 \in G
    <2>1. w[0] = base
      BY <1>10 DEF Chain
    <2> QED BY <2>1 DEF base, NoPlan, Planned
  <1>12. ASSUME NEW n \in Nat, n \in G PROVE n + 1 \in G
    <2>1. SUFFICES ASSUME n + 1 <= N PROVE Planned(w[n + 1])
      OBVIOUS
    <2>2. n + 1 \in 1 .. N /\ (n + 1) - 1 = n /\ (Planned(w[n]))
      BY <1>2, <1>12, <2>1
    <2>3. w[n + 1] = AllocatedModel(c, request, w[n], seq[n + 1])
      BY <1>5, <1>10, <2>2 DEF Chain
    <2>4. seq[n + 1] \in ToSet(seq)
      BY <1>2, <2>2 DEF ToSet
    <2>5. seq[n + 1] \in 1 .. request.models
      BY <1>1, <2>4
    <2> QED BY <2>2, <2>3, <2>5, AllocatedModelIs
  <1>13. Planned(w[N])
    <2>1. N \in G
      <3> HIDE DEF G
      <3> QED BY <1>2, <1>11, <1>12, SetInduction
    <2> QED BY <1>2, <2>1
  <1> QED BY <1>3, <1>4, <1>10, <1>13

Settled(p) == Planned(p) /\ ~HasPending(p)

LEMMA FallBackSettles ==
  ASSUME NEW q, NEW s, Settled(q)
  PROVE  Settled(FallBack(q, s))
  <1>1. CASE s \notin DOMAIN q \/ q[s].adjust # "failed"
    BY <1>1 DEF FallBack
  <1>2. CASE s \in DOMAIN q /\ q[s].adjust = "failed"
    <2> DEFINE tier == FallbackTier(q, s)
               rest == [t \in DOMAIN q \ {s} |-> q[t]]
               c == Best(cat, request.difficulty, rest, tier)
               item == Item(c, IF TheTask(cat, c).level = request.difficulty
                                 THEN "fallback" ELSE "accepted")
    <2>1. FallBack(q, s) = IF tier = {} THEN [q EXCEPT ![s].adjust = "accepted"] ELSE Bind(q, s, item)
      BY <1>2 DEF FallBack
    <2>2. s \in AllSlots(request)
      BY <1>2 DEF Settled, Planned
    <2>3. CASE tier = {}
      <3> DEFINE p == [q EXCEPT ![s].adjust = "accepted"]
      <3>1. FallBack(q, s) = p
        BY <2>1, <2>3
      <3>2. /\ p = [t \in DOMAIN p |-> p[t]] /\ DOMAIN p = DOMAIN q
            /\ \A t \in DOMAIN q : t # s => p[t] = q[t]
        OBVIOUS
      <3>3. DOMAIN p[s] = DOMAIN q[s] /\ ("adjust" \in DOMAIN q[s] => p[s].adjust = "accepted")
        BY <1>2
      <3> HIDE DEF p
      <3>4. "adjust" \in DOMAIN q[s]
        BY <1>2 DEF Settled, Planned
      <3>5. Planned(p)
        BY <3>2, <3>3, <3>4 DEF Settled, Planned
      <3>6. ~HasPending(p)
        BY <3>2, <3>3, <3>4 DEF Settled, HasPending
      <3> QED BY <3>1, <3>5, <3>6 DEF Settled
    <2>4. CASE tier # {}
      <3> HIDE DEF tier
      <3>1. FallBack(q, s) = Bind(q, s, item)
        BY <2>1, <2>4
      <3>2. "adjust" \in DOMAIN item /\ item.adjust # "pending"
        <4> HIDE DEF c
        <4> QED BY ItemIs
      <3> HIDE DEF item
      <3>3. Planned(Bind(q, s, item))
        BY <2>2, <3>2, BindIs DEF Settled
      <3>4. ~HasPending(Bind(q, s, item))
        BY <3>2 DEF Settled, HasPending, Bind
      <3> QED BY <3>1, <3>3, <3>4 DEF Settled
    <2> QED BY <2>3, <2>4
  <1> QED BY <1>1, <1>2

\* After an adjustment no slot waits for another one.
LEMMA FallbacksSettle ==
  ASSUME Given, NEW p, Settled(p)
  PROVE  Settled(WithFallbacks(p))
  <1> DEFINE e == [any |-> 0]
             base == p
             seq == FlattenSeq([m \in 1 .. request.models |-> SlotsOf(request, m)])
             N == Len(seq)
             fold == FoldLeft(LAMBDA r, x : FallBack(r, x), base, seq)
             iter[t \in SUBSET (1 .. N)] ==
               IF t = {} THEN base ELSE FallBack(iter[t \ {Max(t)}], seq[Max(t)])
  <1>1. IsSeq(seq)
    <2> DEFINE ss == [m \in 1 .. request.models |-> SlotsOf(request, m)]
    <2>1. IsSeq(ss)
      BY DEF IsSeq, Given, Asked
    <2>2. \A m \in DOMAIN ss : IsSeq(ss[m])
      BY SlotsAre DEF Given
    <2> HIDE DEF ss
    <2>3. IsSeq(FlattenSeq(ss))
      BY <2>1, <2>2, FlattenIs
    <2> QED BY <2>3 DEF ss
  <1>2. N \in Nat /\ DOMAIN seq = 1 .. N
    <2> HIDE DEF seq
    <2> QED BY <1>1, SeqIs
  <1>3. WithFallbacks(p) = fold
    BY DEF WithFallbacks
  <1> HIDE DEF base, seq, N
  <1>4. fold = iter[1 .. N]
    BY <1>2 DEF FoldLeft, MapThenFoldSet
  <1> HIDE DEF fold
  <1>5. \A r, x : Step("fallback", e, r, x) = FallBack(r, x)
    BY DEF Step
  <1>6. PICK g : Folds(g, "fallback", e, base, seq, N)
    <2> HIDE DEF e
    <2> QED BY <1>2, FoldExists
  <1>7. g = [t \in SUBSET (1 .. N) |->
               IF t = {} THEN base ELSE FallBack(g[t \ {Max(t)}], seq[Max(t)])]
    BY <1>5, <1>6 DEF Folds
  <1>8. iter = [t \in SUBSET (1 .. N) |->
                  IF t = {} THEN base ELSE FallBack(iter[t \ {Max(t)}], seq[Max(t)])]
    BY <1>7, Zenon
  <1> HIDE DEF iter
  <1>9. Folds(iter, "fallback", e, base, seq, N)
    BY <1>5, <1>8 DEF Folds
  <1>10. PICK w : Chain(w, "fallback", e, base, seq, N) /\ w[N] = iter[1 .. N]
    <2> HIDE DEF e
    <2> QED BY <1>2, <1>9, FoldChain
  <1> DEFINE G == {n \in Nat : n <= N => Settled(w[n])}
  <1>11. 0 \in G
    <2>1. w[0] = base
      BY <1>10 DEF Chain
    <2> QED BY <2>1 DEF base
  <1>12. ASSUME NEW n \in Nat, n \in G PROVE n + 1 \in G
    <2>1. SUFFICES ASSUME n + 1 <= N PROVE Settled(w[n + 1])
      OBVIOUS
    <2>2. n + 1 \in 1 .. N /\ (n + 1) - 1 = n /\ (Settled(w[n]))
      BY <1>2, <1>12, <2>1
    <2>3. w[n + 1] = FallBack(w[n], seq[n + 1])
      BY <1>5, <1>10, <2>2 DEF Chain
    <2>4. seq[n + 1] \in ToSet(seq)
      BY <1>2, <2>2 DEF ToSet
    <2> QED BY <2>2, <2>3, FallBackSettles
  <1>13. Settled(w[N])
    <2>1. N \in G
      <3> HIDE DEF G
      <3> QED BY <1>2, <1>11, <1>12, SetInduction
    <2> QED BY <1>2, <2>1
  <1> QED BY <1>3, <1>4, <1>10, <1>13

LEMMA AdjustedIs ==
  ASSUME Planned(plan), NEW outcome \in Outcomes({s \in DOMAIN plan : plan[s].adjust = "pending"})
  PROVE  Settled(AfterAdjustment(outcome))
  <1> DEFINE p == AfterAdjustment(outcome)
             verdict(s) == IF outcome[s].adapted THEN "adapted" ELSE "failed"
  <1>1. DOMAIN outcome = {s \in DOMAIN plan : plan[s].adjust = "pending"}
    BY DEF Outcomes
  <1>2. /\ p = [s \in DOMAIN p |-> p[s]] /\ DOMAIN p = DOMAIN plan
        /\ \A s \in DOMAIN plan : p[s] = IF s \notin DOMAIN outcome THEN plan[s]
                                       ELSE [plan[s] EXCEPT !.adjust = verdict(s)]
    BY DEF AfterAdjustment
  <1> HIDE DEF p
  <1>3. ASSUME NEW s \in DOMAIN plan
        PROVE  "adjust" \in DOMAIN p[s] /\ p[s].adjust # "pending"
    <2>1. "adjust" \in DOMAIN plan[s]
      BY DEF Planned
    <2>2. CASE s \notin DOMAIN outcome
      BY <1>1, <1>2, <2>1, <2>2
    <2>3. CASE s \in DOMAIN outcome
      <3>1. p[s] = [plan[s] EXCEPT !.adjust = verdict(s)] /\ verdict(s) # "pending"
        BY <1>2, <2>3
      <3> HIDE DEF verdict
      <3> QED BY <2>1, <3>1
    <2> QED BY <2>2, <2>3
  <1> QED BY <1>2, <1>3 DEF Settled, Planned, HasPending, p

-----------------------------------------------------------------------------
(* The invariant.                                                          *)

Ends == {"stopped", "generated", "refused"}

\* The request, the catalog and an order of the types.
Inputs == cat \in Catalogs /\ request \in Requests /\ order \in Orders

\* An execution starts a repair with an attempt left: two and one for each
\* execution before it.
Budgets ==
  /\ stage \in {"plan", "repair", "adjust", "generate"} \cup Ends
  /\ attempts \in Nat /\ resumes \in Nat /\ resumes <= MaxResumes
  /\ attempts <= MaxPlanAttempts + resumes
  /\ stage = "repair" => attempts < MaxPlanAttempts + resumes
  /\ stage = "plan" => attempts = 0

\* A plan on its way to the generator has been reviewed, and stands the review.
Reviewed == stage = "generate" => errors = <<>> /\ Review(plan) = <<>>

IInv == Inputs /\ Planned(plan) /\ Budgets /\ Reviewed /\ RefusedOnlyIfShort

LEMMA GivenIs ==
  ASSUME Inputs
  PROVE  Given
  <1>1. Asked(request)
    BY PlanningAssumption DEF Inputs, Asked
  <1>2. Len(cat.tasks) \in Nat /\ DOMAIN cat.tasks = 1 .. Len(cat.tasks)
    BY PlanningAssumption DEF Inputs
  <1>3. IsSeq(order)
    <2> DEFINE types == request.types
               f == [i \in 1 .. Len(types) |-> types[i].type]
    <2>1. Len(types) \in Nat /\ DOMAIN types = 1 .. Len(types)
      BY <1>1, TypedIs, SeqIs DEF Asked
    <2>2. f \in Surjection(1 .. Len(types), Types)
      BY <2>1 DEF Surjection, Types
    <2>3. IsFiniteSet(Types)
      <3>1. IsFiniteSet(1 .. Len(types))
        BY <2>1, FS_Interval
      <3> HIDE DEF f
      <3> QED BY <2>2, <3>1, FS_Surjection
    <2>4. Cardinality(Types) \in Nat
      BY <2>3, FS_CardinalityType
    <2>5. order \in [1 .. Cardinality(Types) -> Types]
      BY DEF Inputs, Orders, SetToSeqs
    <2>6. order = [i \in 1 .. Cardinality(Types) |-> order[i]]
      BY <2>5
    <2> QED BY <2>4, <2>6 DEF IsSeq
  <1> QED BY <1>1, <1>2, <1>3 DEF Given

LEMMA Initially == Init => IInv
  <1> SUFFICES ASSUME Init PROVE IInv
    OBVIOUS
  <1>1. Inputs
    BY DEF Init, Inputs
  <1>2. Planned(plan)
    BY DEF Init, Planned, NoPlan
  <1>3. Budgets
    BY PlanningAssumption DEF Init, Budgets, MaxPlanAttempts, Ends
  <1>4. Reviewed /\ RefusedOnlyIfShort
    BY DEF Init, Reviewed, RefusedOnlyIfShort
  <1> QED BY <1>1, <1>2, <1>3, <1>4 DEF IInv

\* What a node leaves, with its review, is routed by what the review found.
LEMMA LeaveIs ==
  ASSUME NEW p, NEW n \in Nat, Leave(p, Review(p), n), UNCHANGED <<cat, request, order>>,
         Planned(p), n <= MaxPlanAttempts + resumes, resumes' = resumes, resumes \in Nat,
         resumes <= MaxResumes
  PROVE  /\ Planned(plan)' /\ Budgets' /\ Reviewed' /\ RefusedOnlyIfShort'
         /\ stage' = Route(p, Review(p), n)
  <1>1. plan' = p /\ errors' = Review(p) /\ attempts' = n /\ stage' = Route(p, Review(p), n)
    BY DEF Leave
  <1>2. Planned(plan)'
    BY <1>1 DEF Planned
  <1>3. Review(plan)' = Review(p)
    BY <1>1 DEF Review, Short
  <1>4. /\ stage' \in {"repair", "adjust", "generate", "stopped"}
        /\ stage' = "repair" => n < MaxPlanAttempts
        /\ stage' = "generate" => Review(p) = <<>>
    BY <1>1 DEF Route, MaxPlanAttempts
  <1>5. Budgets'
    BY <1>1, <1>4 DEF Budgets, MaxPlanAttempts, Ends
  <1>6. Reviewed' /\ RefusedOnlyIfShort'
    BY <1>1, <1>3, <1>4 DEF Reviewed, RefusedOnlyIfShort
  <1> QED BY <1>1, <1>2, <1>5, <1>6

LEMMA StartIsSound ==
  ASSUME Given, Planned(plan)
  PROVE  LET fresh == Review(plan)
             start == [plan |-> plan, errors |-> fresh, failed |-> failed, done |-> FALSE]
         IN /\ Len(fresh) \in Nat
            /\ \A end \in AllRepairs(start, InvalidSlots(fresh)) : Sound(end, Len(fresh))
  <1> DEFINE fresh == Review(plan)
             start == [plan |-> plan, errors |-> fresh, failed |-> failed, done |-> FALSE]
  <1>1. Reported(fresh, request) /\ Len(fresh) \in Nat
    BY ReviewIs
  <1>2. Sound(start, Len(fresh))
    <2>1. /\ DOMAIN start = {"plan", "errors", "failed", "done"}
          /\ start.plan = plan /\ start.errors = fresh
      OBVIOUS
    <2> HIDE DEF start
    <2> QED BY <1>1, <2>1 DEF Sound
  <1>3. IsSeq(InvalidSlots(fresh)) /\ ToSet(InvalidSlots(fresh)) \subseteq AllSlots(request)
    <2> HIDE DEF fresh
    <2> QED BY <1>1, InvalidAre
  <1>4. \A end \in AllRepairs(start, InvalidSlots(fresh)) : Sound(end, Len(fresh))
    <2> HIDE DEF start, fresh
    <2> QED BY <1>1, <1>2, <1>3, AllRepairsSound
  <1> QED BY <1>1, <1>4

\* A round of repairs: what it leaves is reviewed, no worse, and costs an attempt,
\* or the graph stops.
LEMMA RepairIs ==
  ASSUME IInv, RepairPlan
  PROVE  /\ IInv' /\ Len(errors') <= Len(Review(plan)) /\ resumes' = resumes
         /\ stage = "repair" /\ (attempts' = attempts + 1 \/ stage' = "stopped")
  <1>1. Given /\ Planned(plan) /\ stage = "repair" /\ UNCHANGED <<cat, request, order, resumes>>
    BY GivenIs DEF IInv, RepairPlan
  <1> DEFINE fresh == Review(plan)
             start == [plan |-> plan, errors |-> fresh, failed |-> failed, done |-> FALSE]
             stuck(end) == fresh # <<>> /\ end.plan = plan /\ end.errors = fresh
             spent(end) == IF stuck(end) THEN MaxPlanAttempts ELSE attempts + 1
  <1>2. PICK end \in AllRepairs(start, InvalidSlots(fresh)) : Leave(end.plan, end.errors, spent(end))
    BY DEF RepairPlan
  <1>3. Len(fresh) \in Nat /\ Sound(end, Len(fresh))
    BY <1>1, <1>2, StartIsSound
  <1> HIDE DEF start
  <1>4. end.errors = Review(end.plan) /\ Planned(end.plan) /\ Len(end.errors) <= Len(fresh)
    BY <1>3 DEF Sound
  <1>5. /\ attempts \in Nat /\ resumes \in Nat /\ resumes <= MaxResumes
        /\ attempts < MaxPlanAttempts + resumes
    BY <1>1 DEF IInv, Budgets
  <1>6. spent(end) \in Nat /\ spent(end) <= MaxPlanAttempts + resumes
    BY <1>5 DEF MaxPlanAttempts
  <1> DEFINE n == spent(end)
  <1>7. Leave(end.plan, Review(end.plan), n)
    BY <1>2, <1>4
  <1>8. n \in Nat /\ n <= MaxPlanAttempts + resumes
    BY <1>6
  <1>9. n = attempts + 1 \/ (n = MaxPlanAttempts /\ end.errors # <<>>)
    OBVIOUS
  <1> HIDE DEF n, fresh
  <1>10. /\ Planned(plan)' /\ Budgets' /\ Reviewed' /\ RefusedOnlyIfShort'
         /\ stage' = Route(end.plan, Review(end.plan), n)
    BY <1>1, <1>4, <1>5, <1>7, <1>8, LeaveIs
  <1>11. Inputs'
    BY <1>1 DEF IInv, Inputs, Orders, Types
  <1>12. attempts' = n /\ errors' = end.errors
    BY <1>4, <1>7 DEF Leave
  <1>13. n = MaxPlanAttempts /\ end.errors # <<>> => stage' = "stopped"
    BY <1>4, <1>10 DEF Route, MaxPlanAttempts
  <1>14. Len(errors') <= Len(Review(plan))
    BY <1>4, <1>12 DEF fresh
  <1> QED BY <1>1, <1>9, <1>10, <1>11, <1>12, <1>13, <1>14 DEF IInv

\* An adjustment is reviewed, and leaves nothing to adjust.
LEMMA AdjustIs ==
  ASSUME IInv, Adjust
  PROVE  /\ IInv' /\ stage = "adjust" /\ attempts' = attempts /\ resumes' = resumes
         /\ stage' \in {"repair", "generate", "stopped"}
  <1>1. Given /\ Planned(plan) /\ stage = "adjust" /\ UNCHANGED <<cat, request, order, resumes>>
    BY GivenIs DEF IInv, Adjust
  <1>2. PICK outcome \in Outcomes({s \in DOMAIN plan : plan[s].adjust = "pending"}) :
          Leave(WithFallbacks(AfterAdjustment(outcome)),
                Review(WithFallbacks(AfterAdjustment(outcome))), attempts)
    BY DEF Adjust
  <1> DEFINE p == WithFallbacks(AfterAdjustment(outcome))
  <1>3. Settled(p)
    BY <1>1, AdjustedIs, FallbacksSettle
  <1>4. Leave(p, Review(p), attempts)
    BY <1>2
  <1> HIDE DEF p
  <1>5. /\ attempts \in Nat /\ resumes \in Nat /\ resumes <= MaxResumes
        /\ attempts <= MaxPlanAttempts + resumes
    BY DEF IInv, Budgets
  <1>6. /\ Planned(plan)' /\ Budgets' /\ Reviewed' /\ RefusedOnlyIfShort'
        /\ stage' = Route(p, Review(p), attempts)
    BY <1>1, <1>3, <1>4, <1>5, LeaveIs DEF Settled
  <1>7. Inputs'
    BY <1>1 DEF IInv, Inputs, Orders, Types
  <1>8. stage' \in {"repair", "generate", "stopped"}
    BY <1>3, <1>6 DEF Route, Settled
  <1>9. attempts' = attempts
    BY <1>4 DEF Leave
  <1> QED BY <1>1, <1>6, <1>7, <1>8, <1>9 DEF IInv

LEMMA PlanIs ==
  ASSUME IInv, PlanExams
  PROVE  IInv' /\ stage = "plan" /\ attempts' = 1 /\ resumes' = resumes /\ stage' # "plan"
  <1>1. Given /\ stage = "plan" /\ UNCHANGED <<cat, request, order, resumes>>
    BY GivenIs DEF IInv, PlanExams
  <1> DEFINE p == Allocated(cat, request)
  <1>2. Leave(p, Review(p), 1)
    BY DEF PlanExams
  <1>3. Planned(p)
    BY <1>1, AllocatedIs
  <1>4. resumes \in Nat /\ resumes <= MaxResumes /\ 1 <= MaxPlanAttempts + resumes /\ 1 \in Nat
    BY DEF IInv, Budgets, MaxPlanAttempts
  <1> HIDE DEF p
  <1>5. /\ Planned(plan)' /\ Budgets' /\ Reviewed' /\ RefusedOnlyIfShort'
        /\ stage' = Route(p, Review(p), 1)
    BY <1>1, <1>2, <1>3, <1>4, LeaveIs
  <1>6. Inputs'
    BY <1>1 DEF IInv, Inputs, Orders, Types
  <1>7. stage' # "plan" /\ attempts' = 1
    BY <1>2, <1>5 DEF Route, Leave
  <1> QED BY <1>1, <1>5, <1>6, <1>7 DEF IInv

LEMMA GenerateIs ==
  ASSUME IInv, Generate
  PROVE  /\ IInv' /\ stage = "generate" /\ attempts' = attempts /\ resumes' = resumes
         /\ stage' \in {"generated", "refused"}
  <1>1. /\ Given /\ Planned(plan) /\ stage = "generate" /\ errors = <<>> /\ Review(plan) = <<>>
        /\ UNCHANGED <<cat, request, order, plan, errors, attempts, resumes>>
        /\ stage' \in {"generated", "refused"}
    BY GivenIs DEF IInv, Generate, Reviewed
  <1>2. AllSlots(request) \subseteq DOMAIN plan \cup Short
    BY <1>1, ReviewIs
  <1>3. stage' = "refused" => Short # {}
    <2>1. stage' = "refused" => DOMAIN plan # AllSlots(request)
      BY <1>1 DEF Generate
    <2> QED BY <1>1, <1>2, <2>1 DEF Planned
  <1>4. RefusedOnlyIfShort'
    BY <1>1, <1>3 DEF RefusedOnlyIfShort, Short
  <1>5. Inputs' /\ Planned(plan)'
    BY <1>1 DEF IInv, Inputs, Orders, Types, Planned
  <1>6. Budgets' /\ Reviewed'
    BY <1>1 DEF IInv, Budgets, Reviewed, Ends
  <1> QED BY <1>1, <1>4, <1>5, <1>6 DEF IInv

LEMMA ResumeIs ==
  ASSUME IInv, Resume
  PROVE  IInv' /\ resumes' = resumes + 1
  <1>1. /\ resumes < MaxResumes /\ resumes' = resumes + 1 /\ stage' = "repair" /\ order' \in Orders
        /\ UNCHANGED <<cat, request, plan, errors, attempts>>
    BY DEF Resume
  <1>2. Inputs' /\ Planned(plan)'
    BY <1>1 DEF IInv, Inputs, Orders, Types, Planned
  <1>3. Budgets'
    BY <1>1, PlanningAssumption DEF IInv, Budgets, MaxPlanAttempts
  <1>4. Reviewed' /\ RefusedOnlyIfShort'
    BY <1>1 DEF Reviewed, RefusedOnlyIfShort
  <1> QED BY <1>1, <1>2, <1>3, <1>4 DEF IInv

LEMMA Stutters ==
  ASSUME IInv, UNCHANGED vars
  PROVE  IInv'
  BY DEF IInv, vars, Inputs, Orders, Types, Planned, Budgets, Reviewed, RefusedOnlyIfShort,
         Review, Short, Ends

LEMMA Steps == IInv /\ [Next]_vars => IInv'
  <1> SUFFICES ASSUME IInv, [Next]_vars PROVE IInv'
    OBVIOUS
  <1>1. CASE PlanExams
    BY <1>1, PlanIs
  <1>2. CASE RepairPlan
    BY <1>2, RepairIs
  <1>3. CASE Adjust
    BY <1>3, AdjustIs
  <1>4. CASE Generate
    BY <1>4, GenerateIs
  <1>5. CASE Resume
    BY <1>5, ResumeIs
  <1>6. CASE Ended
    BY <1>6, Stutters DEF Ended
  <1>7. CASE UNCHANGED vars
    BY <1>7, Stutters
  <1> QED BY <1>1, <1>2, <1>3, <1>4, <1>5, <1>6, <1>7 DEF Next

-----------------------------------------------------------------------------
(* What follows.                                                           *)

\* The gate before generation refuses a plan the graph sent it only when the
\* catalog has nothing for some slot.
THEOREM GateAgrees == Spec => []RefusedOnlyIfShort
  <1>1. IInv => RefusedOnlyIfShort
    BY DEF IInv
  <1> QED BY Initially, Steps, <1>1, PTL DEF Spec

\* A round of repairs, slot after slot, never leaves more errors than it found.
THEOREM RepairsNeverWorsen == Spec => RepairNeverWorsens
  <1>1. IInv /\ [Next]_vars =>
          [stage = "repair" /\ resumes' = resumes => Len(errors') <= Len(Review(plan))]_vars
    <2> SUFFICES ASSUME IInv, Next, stage = "repair", resumes' = resumes
                 PROVE  Len(errors') <= Len(Review(plan)) \/ UNCHANGED vars
      OBVIOUS
    <2>1. CASE RepairPlan
      BY <2>1, RepairIs
    <2>2. CASE Resume
      BY <2>2, ResumeIs DEF IInv, Budgets
    <2>3. CASE Ended
      BY <2>3 DEF Ended
    <2> QED BY <2>1, <2>2, <2>3 DEF Next, PlanExams, Adjust, Generate
  <1> QED BY Initially, Steps, <1>1, PTL DEF Spec, RepairNeverWorsens

\* Every node of an execution brings planning nearer to its end: the loop of
\* repair and adjustment is bounded whatever the language model answers.
THEOREM PlanningIsBounded == Spec => EveryNodeCounts
  <1>1. IInv /\ [Next]_vars =>
          [resumes' = resumes => Remaining' < Remaining /\ Remaining' >= 0]_vars
    <2> SUFFICES ASSUME IInv, Next, resumes' = resumes
                 PROVE  (Remaining' < Remaining /\ Remaining' >= 0) \/ UNCHANGED vars
      OBVIOUS
    <2> DEFINE left == MaxPlanAttempts + MaxResumes - attempts
               after == MaxPlanAttempts + MaxResumes - attempts'
    <2>1. /\ Budgets /\ Budgets' /\ IInv'
      BY Steps DEF IInv
    <2>2. /\ attempts \in Nat /\ attempts' \in Nat /\ MaxResumes \in Nat
          /\ attempts <= 3 + MaxResumes /\ attempts' <= 3 + MaxResumes
          /\ stage = "repair" => attempts < 3 + MaxResumes
          /\ stage' = "repair" => attempts' < 3 + MaxResumes
          /\ stage = "plan" => attempts = 0
      BY <2>1, PlanningAssumption DEF Budgets, MaxPlanAttempts
    <2>3. /\ left \in Nat /\ after \in Nat
          /\ attempts' = attempts => after = left
          /\ attempts' = attempts + 1 => after + 1 = left
      <3>1. \A a, b, m \in Nat :
              a <= 3 + m /\ b <= 3 + m =>
                /\ 3 + m - a \in Nat /\ 3 + m - b \in Nat
                /\ b = a => 3 + m - b = 3 + m - a
                /\ b = a + 1 => (3 + m - b) + 1 = 3 + m - a
        OBVIOUS
      <3> QED BY <2>2, <3>1, Zenon DEF MaxPlanAttempts
    <2>4. /\ stage \in {"plan", "adjust"} => Remaining = 3 * left + 3
          /\ stage = "repair" => Remaining = 3 * left + 2
          /\ stage = "generate" => Remaining = 3 * left + 1
      BY DEF Remaining
    <2>5. /\ stage' = "adjust" => Remaining' = 3 * after + 3
          /\ stage' = "repair" => Remaining' = 3 * after + 2
          /\ stage' = "generate" => Remaining' = 3 * after + 1
          /\ stage' \in Ends => Remaining' = 0
      BY DEF Remaining, Ends, MaxPlanAttempts
    <2>6. stage' \in {"plan", "repair", "adjust", "generate"} \cup Ends
      BY <2>1 DEF Budgets
    <2> HIDE DEF left, after
    <2>7. CASE PlanExams
      <3>1. stage = "plan" /\ attempts' = attempts + 1 /\ stage' # "plan"
        BY <2>2, <2>7, PlanIs
      <3> QED BY <2>3, <2>4, <2>5, <2>6, <3>1 DEF Ends
    <2>8. CASE RepairPlan
      <3>1. stage = "repair" /\ (attempts' = attempts + 1 \/ stage' = "stopped")
        BY <2>8, RepairIs
      <3>2. stage' # "plan"
        BY <2>8 DEF RepairPlan, Leave, Route
      <3> QED BY <2>3, <2>4, <2>5, <2>6, <3>1, <3>2 DEF Ends
    <2>9. CASE Adjust
      <3>1. /\ stage = "adjust" /\ attempts' = attempts
            /\ stage' \in {"repair", "generate", "stopped"}
        BY <2>9, AdjustIs
      <3> QED BY <2>3, <2>4, <2>5, <3>1 DEF Ends
    <2>10. CASE Generate
      <3>1. stage = "generate" /\ attempts' = attempts /\ stage' \in {"generated", "refused"}
        BY <2>10, GenerateIs
      <3> QED BY <2>3, <2>4, <2>5, <3>1 DEF Ends
    <2>11. CASE Resume
      <3>1. resumes' = resumes + 1 /\ resumes \in Nat
        BY <2>1, <2>11, ResumeIs DEF Budgets
      <3> QED BY <3>1
    <2>12. CASE Ended
      BY <2>12 DEF Ended
    <2> QED BY <2>7, <2>8, <2>9, <2>10, <2>11, <2>12 DEF Next
  <1> QED BY Initially, Steps, <1>1, PTL DEF Spec, EveryNodeCounts

-----------------------------------------------------------------------------
(* Sequences of a set, cut and joined.                                     *)

LEMMA SeqEq ==
  ASSUME NEW X, NEW s \in Seq(X), NEW t \in Seq(X), Len(s) = Len(t), \A i \in 1 .. Len(s) : s[i] = t[i]
  PROVE  s = t
  OBVIOUS

\* The parts of a sequence.
LEMMA SubSeqIs ==
  ASSUME NEW X, NEW s \in Seq(X), NEW m \in Nat \ {0}, NEW n \in Nat, m <= n + 1, n <= Len(s)
  PROVE  /\ SubSeq(s, m, n) \in Seq(X) /\ Len(SubSeq(s, m, n)) = n + 1 - m
         /\ \A i \in 1 .. n + 1 - m : SubSeq(s, m, n)[i] = s[m + i - 1]
  <1>1. n + 1 - m \in Nat /\ SubSeq(s, m, n) = [i \in 1 .. n + 1 - m |-> s[m + i - 1]]
    OBVIOUS
  <1>2. \A i \in 1 .. n + 1 - m : m + i - 1 \in 1 .. Len(s)
    OBVIOUS
  <1>3. \A i \in 1 .. n + 1 - m : s[m + i - 1] \in X
    BY <1>2
  <1>4. PICK k \in Nat : k = n + 1 - m
    BY <1>1
  <1>5. PICK c : c = SubSeq(s, m, n)
    OBVIOUS
  <1>6. c = [i \in 1 .. k |-> s[m + i - 1]]
    BY <1>1, <1>4, <1>5, Zenon
  <1>7. DOMAIN c = 1 .. k /\ \A i \in 1 .. k : c[i] = s[m + i - 1]
    BY <1>6
  <1>8. \A i \in 1 .. k : s[m + i - 1] \in X
    BY <1>3, <1>4, Zenon
  <1>9. c \in Seq(X) /\ Len(c) = k
    BY <1>6, <1>8
  <1> QED BY <1>4, <1>5, <1>7, <1>9, Zenon

LEMMA LastIs ==
  ASSUME NEW X, NEW s \in Seq(X), s # <<>>
  PROVE  /\ Len(s) \in Nat \ {0} /\ Last(s) \in X /\ Last(s) = s[Len(s)]
         /\ Front(s) \in Seq(X) /\ Len(Front(s)) = Len(s) - 1
         /\ \A i \in 1 .. Len(s) - 1 : Front(s)[i] = s[i]
         /\ s = Append(Front(s), Last(s))
  <1>1. Len(s) \in Nat \ {0}
    BY EmptyIs, TypedIs
  <1>2. Last(s) = s[Len(s)] /\ Last(s) \in X
    BY <1>1 DEF Last
  <1>3. /\ Front(s) \in Seq(X) /\ Len(Front(s)) = Len(s) - 1
        /\ \A i \in 1 .. Len(s) - 1 : Front(s)[i] = s[i]
    <2> DEFINE n == Len(s) - 1
    <2>1. n \in Nat /\ n <= Len(s) /\ Front(s) = SubSeq(s, 1, n)
      BY <1>1 DEF Front
    <2>2. /\ SubSeq(s, 1, n) \in Seq(X) /\ Len(SubSeq(s, 1, n)) = n
          /\ \A i \in 1 .. n : SubSeq(s, 1, n)[i] = s[i]
      <3> HIDE DEF n
      <3>1. 1 \in Nat \ {0} /\ 1 <= n + 1
        BY <2>1
      <3>2. /\ SubSeq(s, 1, n) \in Seq(X) /\ Len(SubSeq(s, 1, n)) = n + 1 - 1
            /\ \A i \in 1 .. n + 1 - 1 : SubSeq(s, 1, n)[i] = s[1 + i - 1]
        BY <2>1, <3>1, SubSeqIs
      <3>3. n + 1 - 1 = n /\ \A i \in 1 .. n : 1 + i - 1 = i
        BY <2>1
      <3> QED BY <3>2, <3>3
    <2> QED BY <2>1, <2>2
  <1>4. Append(Front(s), Last(s)) \in Seq(X) /\ Len(Append(Front(s), Last(s))) = Len(s)
    BY <1>1, <1>2, <1>3
  <1>5. \A i \in 1 .. Len(s) : Append(Front(s), Last(s))[i] = s[i]
    BY <1>1, <1>2, <1>3
  <1>6. s = Append(Front(s), Last(s))
    BY <1>4, <1>5, SeqEq
  <1> QED BY <1>1, <1>2, <1>3, <1>6

LEMMA ConcatLaws ==
  ASSUME NEW X, NEW s \in Seq(X), NEW t \in Seq(X), NEW u \in Seq(X), NEW x \in X
  PROVE  /\ s \o t \in Seq(X) /\ Append(s, x) \in Seq(X) /\ <<x>> \in Seq(X) /\ <<>> \in Seq(X)
         /\ s \o <<>> = s /\ <<>> \o s = s
         /\ (s \o t) \o u = s \o (t \o u)
         /\ s \o <<x>> = Append(s, x)
         /\ s \o Append(t, x) = Append(s \o t, x)
  <1>1. s \o t \in Seq(X) /\ Append(s, x) \in Seq(X) /\ <<x>> \in Seq(X) /\ <<>> \in Seq(X)
    OBVIOUS
  <1>2. s \o <<>> = s /\ <<>> \o s = s
    OBVIOUS
  <1>3. (s \o t) \o u = s \o (t \o u)
    <2>1. (s \o t) \o u \in Seq(X) /\ s \o (t \o u) \in Seq(X)
      OBVIOUS
    <2>2. Len((s \o t) \o u) = Len(s) + Len(t) + Len(u) /\ Len(s \o (t \o u)) = Len(s) + Len(t) + Len(u)
      OBVIOUS
    <2>3. ASSUME NEW i \in 1 .. Len(s) + Len(t) + Len(u)
          PROVE  ((s \o t) \o u)[i] = (s \o (t \o u))[i]
      OBVIOUS
    <2> QED BY <2>1, <2>2, <2>3, SeqEq
  <1>4. s \o <<x>> = Append(s, x)
    OBVIOUS
  <1>5. s \o Append(t, x) = Append(s \o t, x)
    <2>1. s \o Append(t, x) \in Seq(X) /\ Append(s \o t, x) \in Seq(X)
      OBVIOUS
    <2>2. Len(s \o Append(t, x)) = Len(s) + Len(t) + 1 /\ Len(Append(s \o t, x)) = Len(s) + Len(t) + 1
      OBVIOUS
    <2>3. ASSUME NEW i \in 1 .. Len(s) + Len(t) + 1
          PROVE  (s \o Append(t, x))[i] = Append(s \o t, x)[i]
      OBVIOUS
    <2> QED BY <2>1, <2>2, <2>3, SeqEq
  <1> QED BY <1>1, <1>2, <1>3, <1>4, <1>5

LEMMA FlattenEmpty == FlattenSeq(<<>>) = <<>>
  BY EmptyIs DEF FlattenSeq

LEMMA FlattenAppend ==
  ASSUME NEW X, NEW gs \in Seq(Seq(X)), NEW g \in Seq(X)
  PROVE  /\ FlattenSeq(gs) \in Seq(X) /\ Append(gs, g) \in Seq(Seq(X))
         /\ FlattenSeq(Append(gs, g)) = FlattenSeq(gs) \o g
  <1> DEFINE hs == Append(gs, g)
             N == Len(gs)
  <1>1. /\ N \in Nat /\ hs \in Seq(Seq(X)) /\ Len(hs) = N + 1 /\ hs[N + 1] = g
        /\ \A i \in 1 .. N : hs[i] = gs[i] /\ gs[i] \in Seq(X)
    OBVIOUS
  <1> HIDE DEF hs
  <1>2. PICK f : /\ f = [i \in 1 .. N + 1 |-> IF i = 1 THEN hs[i] ELSE f[i - 1] \o hs[i]]
                 /\ FlattenSeq(hs) = f[N + 1]
    <2>1. Len(hs) \in Nat \ {0}
      BY <1>1
    <2> QED BY <1>1, <2>1, FlattenSteps
  <1>3. CASE N = 0
    <2>1. FlattenSeq(hs) = g
      BY <1>1, <1>2, <1>3
    <2>2. gs = <<>>
      BY <1>3
    <2>3. FlattenSeq(gs) = <<>>
      BY <2>2, FlattenEmpty
    <2> QED BY <1>1, <2>1, <2>3 DEF hs
  <1>4. CASE N # 0
    <2>1. PICK e : /\ e = [i \in 1 .. N |-> IF i = 1 THEN gs[i] ELSE e[i - 1] \o gs[i]]
                   /\ FlattenSeq(gs) = e[N]
      BY <1>1, <1>4, FlattenSteps
    <2> DEFINE G == {n \in Nat : n \in 1 .. N => e[n] = f[n] /\ e[n] \in Seq(X)}
    <2>2. 0 \in G
      OBVIOUS
    <2>3. ASSUME NEW n \in Nat, n \in G PROVE n + 1 \in G
      <3>1. SUFFICES ASSUME n + 1 \in 1 .. N PROVE e[n + 1] = f[n + 1] /\ e[n + 1] \in Seq(X)
        OBVIOUS
      <3>2. n + 1 \in 1 .. N + 1 /\ hs[n + 1] = gs[n + 1] /\ gs[n + 1] \in Seq(X)
        BY <1>1, <3>1
      <3>3. CASE n = 0
        <4>1. e[n + 1] = gs[n + 1] /\ f[n + 1] = hs[n + 1]
          BY <1>2, <2>1, <3>1, <3>2, <3>3
        <4> QED BY <3>2, <4>1
      <3>4. CASE n # 0
        <4>1. n \in 1 .. N /\ (n + 1) - 1 = n /\ n + 1 # 1
          BY <1>1, <3>1, <3>4
        <4>2. e[n + 1] = e[n] \o gs[n + 1] /\ f[n + 1] = f[n] \o hs[n + 1]
          BY <1>2, <2>1, <3>1, <3>2, <4>1
        <4>3. e[n] = f[n] /\ e[n] \in Seq(X)
          BY <2>3, <4>1
        <4> QED BY <3>2, <4>2, <4>3
      <3> QED BY <3>3, <3>4
    <2>4. N \in G
      <3> HIDE DEF G
      <3> QED BY <1>1, <2>2, <2>3, SetInduction
    <2>5. e[N] = f[N] /\ e[N] \in Seq(X)
      BY <1>1, <1>4, <2>4
    <2>6. N + 1 \in 1 .. N + 1 /\ N + 1 # 1 /\ (N + 1) - 1 = N
      BY <1>1, <1>4
    <2>7. f[N + 1] = f[N] \o g
      BY <1>1, <1>2, <2>6
    <2> QED BY <1>1, <1>2, <2>1, <2>5, <2>7 DEF hs
  <1> QED BY <1>1, <1>3, <1>4

\* The last of some sequences grows.
LEMMA FlattenGrow ==
  ASSUME NEW X, NEW gs \in Seq(Seq(X)), gs # <<>>, NEW g \in Seq(X)
  PROVE  /\ Front(gs) \o <<Last(gs) \o g>> \in Seq(Seq(X))
         /\ Front(gs) \o <<Last(gs) \o g>> = Append(Front(gs), Last(gs) \o g)
         /\ FlattenSeq(Front(gs) \o <<Last(gs) \o g>>) = FlattenSeq(gs) \o g
  <1> DEFINE f == Front(gs)
             l == Last(gs)
  <1>1. f \in Seq(Seq(X)) /\ l \in Seq(X) /\ gs = Append(f, l)
    BY LastIs
  <1> HIDE DEF f, l
  <1>2. l \o g \in Seq(X)
    BY <1>1
  <1>3. f \o <<l \o g>> = Append(f, l \o g)
    BY <1>1, <1>2, ConcatLaws
  <1>4. FlattenSeq(Append(f, l \o g)) = FlattenSeq(f) \o (l \o g) /\ Append(f, l \o g) \in Seq(Seq(X))
    BY <1>1, <1>2, FlattenAppend
  <1>5. FlattenSeq(gs) = FlattenSeq(f) \o l /\ FlattenSeq(f) \in Seq(X)
    BY <1>1, FlattenAppend
  <1>6. FlattenSeq(f) \o (l \o g) = (FlattenSeq(f) \o l) \o g
    BY <1>1, <1>5, ConcatLaws
  <1> QED BY <1>3, <1>4, <1>5, <1>6 DEF f, l

LEMMA SubSeqMore ==
  ASSUME NEW X, NEW s \in Seq(X), NEW n \in Nat, n < Len(s)
  PROVE  /\ SubSeq(s, 1, 0) = <<>> /\ SubSeq(s, 1, Len(s)) = s
         /\ SubSeq(s, 1, n) \in Seq(X) /\ SubSeq(s, 1, n + 1) \in Seq(X) /\ s[n + 1] \in X
         /\ SubSeq(s, 1, n + 1) = Append(SubSeq(s, 1, n), s[n + 1])
  <1>1. /\ SubSeq(s, 1, n) \in Seq(X) /\ Len(SubSeq(s, 1, n)) = n
        /\ \A i \in 1 .. n : SubSeq(s, 1, n)[i] = s[i]
    BY SubSeqIs
  <1>2. /\ SubSeq(s, 1, n + 1) \in Seq(X) /\ Len(SubSeq(s, 1, n + 1)) = n + 1
        /\ \A i \in 1 .. n + 1 : SubSeq(s, 1, n + 1)[i] = s[i]
    BY SubSeqIs
  <1>3. s[n + 1] \in X
    OBVIOUS
  <1>4. SubSeq(s, 1, n + 1) = Append(SubSeq(s, 1, n), s[n + 1])
    BY <1>1, <1>2, <1>3, SeqEq
  <1>5. SubSeq(s, 1, Len(s)) = s /\ SubSeq(s, 1, 0) = <<>>
    OBVIOUS
  <1> QED BY <1>1, <1>2, <1>3, <1>4, <1>5

\* The words of a sequence, one by one.
LEMMA WordsChain ==
  ASSUME NEW N \in Nat, NEW s, DOMAIN s = 1 .. N
  PROVE  \E w : /\ w[0] = 0 /\ w[N] = WordsOf(s)
                /\ \A n \in 1 .. N : w[n] = w[n - 1] + s[n].words
  <1> DEFINE e == 0
             seq == s
             base == 0
             iter[t \in SUBSET (1 .. N)] ==
               IF t = {} THEN base ELSE iter[t \ {Max(t)}] + seq[Max(t)].words
             Is(f) == f = [t \in SUBSET (1 .. N) |->
                       IF t = {} THEN base ELSE f[t \ {Max(t)}] + seq[Max(t)].words]
  <1>1. WordsOf(s) = iter[1 .. N]
    BY DEF WordsOf, FoldLeft, MapThenFoldSet
  <1>2. \A r, x : Step("words", e, r, x) = r + x.words
    BY DEF Step
  <1> HIDE DEF e, seq, base
  <1>3. PICK g : Folds(g, "words", e, base, seq, N)
    BY FoldExists
  <1>4. Is(g)
    BY <1>2, <1>3 DEF Folds
  <1>5. Is(iter)
    BY <1>4, Zenon
  <1> HIDE DEF iter
  <1>6. Folds(iter, "words", e, base, seq, N)
    BY <1>2, <1>5 DEF Folds
  <1>7. PICK w : Chain(w, "words", e, base, seq, N) /\ w[N] = iter[1 .. N]
    BY <1>6, FoldChain
  <1>8. \A n \in 1 .. N : w[n] = w[n - 1] + seq[n].words
    BY <1>2, <1>7 DEF Chain
  <1> QED BY <1>1, <1>7, <1>8 DEF Chain, seq, base

\* The items, kept one by one.
LEMMA CleanedChain ==
  ASSUME NEW N \in Nat, NEW given, DOMAIN given = 1 .. N
  PROVE  \E w : /\ w[0] = <<>> /\ w[N] = Cleaned(given)
                /\ \A n \in 1 .. N : w[n] = Kept(w[n - 1], given[n])
  <1> DEFINE e == 0
             seq == given
             base == <<>>
             iter[t \in SUBSET (1 .. N)] ==
               IF t = {} THEN base ELSE Kept(iter[t \ {Max(t)}], seq[Max(t)])
             Is(f) == f = [t \in SUBSET (1 .. N) |->
                       IF t = {} THEN base ELSE Kept(f[t \ {Max(t)}], seq[Max(t)])]
  <1>1. Cleaned(given) = iter[1 .. N]
    BY DEF Cleaned, FoldLeft, MapThenFoldSet
  <1>2. \A r, x : Step("clean", e, r, x) = Kept(r, x)
    BY DEF Step
  <1> HIDE DEF e, seq, base
  <1>3. PICK g : Folds(g, "clean", e, base, seq, N)
    BY FoldExists
  <1>4. Is(g)
    BY <1>2, <1>3 DEF Folds
  <1>5. Is(iter)
    BY <1>4, Zenon
  <1> HIDE DEF iter
  <1>6. Folds(iter, "clean", e, base, seq, N)
    BY <1>2, <1>5 DEF Folds
  <1>7. PICK w : Chain(w, "clean", e, base, seq, N) /\ w[N] = iter[1 .. N]
    BY <1>6, FoldChain
  <1>8. \A n \in 1 .. N : w[n] = Kept(w[n - 1], seq[n])
    BY <1>2, <1>7 DEF Chain
  <1> QED BY <1>1, <1>7, <1>8 DEF Chain, seq, base

\* The units, placed one by one.
LEMMA SplitChain ==
  ASSUME NEW N \in Nat, NEW units, NEW cuts, DOMAIN units = 1 .. N
  PROVE  \E w : /\ w[0] = <<>> /\ w[N] = Split(units, cuts)
                /\ \A n \in 1 .. N : w[n] = Placed(w[n - 1], units[n], n \in cuts)
  <1> DEFINE e == [units |-> units, cuts |-> cuts]
             seq == [i \in 1 .. N |-> i]
             base == <<>>
             iter[t \in SUBSET (1 .. N)] ==
               IF t = {} THEN base
               ELSE Placed(iter[t \ {Max(t)}], units[seq[Max(t)]], seq[Max(t)] \in cuts)
             Is(f) == f = [t \in SUBSET (1 .. N) |->
                       IF t = {} THEN base ELSE Placed(f[t \ {Max(t)}], units[seq[Max(t)]], seq[Max(t)] \in cuts)]
  <1>1. Split(units, cuts) = iter[1 .. N]
    BY DEF Split, FoldLeftDomain, FoldLeft, MapThenFoldSet
  <1>2. \A r, x : Step("split", e, r, x) = Placed(r, units[x], x \in cuts)
    BY DEF Step
  <1> HIDE DEF e, seq, base
  <1>3. PICK g : Folds(g, "split", e, base, seq, N)
    BY FoldExists
  <1>4. Is(g)
    BY <1>2, <1>3 DEF Folds
  <1>5. Is(iter)
    BY <1>4, Zenon
  <1> HIDE DEF iter
  <1>6. Folds(iter, "split", e, base, seq, N)
    BY <1>2, <1>5 DEF Folds
  <1>7. PICK w : Chain(w, "split", e, base, seq, N) /\ w[N] = iter[1 .. N]
    BY <1>6, FoldChain
  <1>8. \A n \in 1 .. N : w[n] = Placed(w[n - 1], units[seq[n]], seq[n] \in cuts)
    BY <1>2, <1>7 DEF Chain
  <1>9. \A n \in 1 .. N : seq[n] = n
    BY DEF seq
  <1>10. \A n \in 1 .. N : w[n] = Placed(w[n - 1], units[n], n \in cuts)
    BY <1>8, <1>9, Zenon
  <1> QED BY <1>1, <1>7, <1>10 DEF Chain, seq, base

LEMMA JoinChain ==
  ASSUME NEW N \in Nat, NEW groups, DOMAIN groups = 1 .. N
  PROVE  \E w : /\ w[0] = <<>> /\ w[N] = FoldLeft(Joined, <<>>, groups)
                /\ \A n \in 1 .. N : w[n] = Joined(w[n - 1], groups[n])
  <1> DEFINE e == 0
             seq == groups
             base == <<>>
             iter[t \in SUBSET (1 .. N)] ==
               IF t = {} THEN base ELSE Joined(iter[t \ {Max(t)}], seq[Max(t)])
             Is(f) == f = [t \in SUBSET (1 .. N) |->
                       IF t = {} THEN base ELSE Joined(f[t \ {Max(t)}], seq[Max(t)])]
  <1>1. FoldLeft(Joined, <<>>, groups) = iter[1 .. N]
    BY DEF FoldLeft, MapThenFoldSet
  <1>2. \A r, x : Step("join", e, r, x) = Joined(r, x)
    BY DEF Step
  <1> HIDE DEF e, seq, base
  <1>3. PICK g : Folds(g, "join", e, base, seq, N)
    BY FoldExists
  <1>4. Is(g)
    BY <1>2, <1>3 DEF Folds
  <1>5. Is(iter)
    BY <1>4, Zenon
  <1> HIDE DEF iter
  <1>6. Folds(iter, "join", e, base, seq, N)
    BY <1>2, <1>5 DEF Folds
  <1>7. PICK w : Chain(w, "join", e, base, seq, N) /\ w[N] = iter[1 .. N]
    BY <1>6, FoldChain
  <1>8. \A n \in 1 .. N : w[n] = Joined(w[n - 1], seq[n])
    BY <1>2, <1>7 DEF Chain
  <1> QED BY <1>1, <1>7, <1>8 DEF Chain, seq, base

\* The packs of units, filled one by one.
InPack(packs, u, max, alone) ==
  Placed(packs, u, packs # <<>> /\ Full(Last(packs), u, max, alone))

LEMMA PackChain ==
  ASSUME NEW N \in Nat, NEW units, NEW max, NEW alone, DOMAIN units = 1 .. N
  PROVE  \E w : /\ w[0] = <<>> /\ w[N] = Packed(units, max, alone)
                /\ \A n \in 1 .. N : w[n] = InPack(w[n - 1], units[n], max, alone)
  <1> DEFINE e == [max |-> max, alone |-> alone]
             seq == units
             base == <<>>
             iter[t \in SUBSET (1 .. N)] ==
               IF t = {} THEN base
               ELSE Placed(iter[t \ {Max(t)}], seq[Max(t)], iter[t \ {Max(t)}] # <<>>
                                       /\ Full(Last(iter[t \ {Max(t)}]), seq[Max(t)], max, alone))
             Is(f) == f = [t \in SUBSET (1 .. N) |->
                       IF t = {} THEN base ELSE Placed(f[t \ {Max(t)}], seq[Max(t)], f[t \ {Max(t)}] # <<>>
                                                /\ Full(Last(f[t \ {Max(t)}]), seq[Max(t)], max, alone))]
  <1>1. Packed(units, max, alone) = iter[1 .. N]
    BY DEF Packed, FoldLeft, MapThenFoldSet
  <1>2. \A r, x : Step("pack", e, r, x) = Placed(r, x, r # <<>> /\ Full(Last(r), x, max, alone))
    BY DEF Step
  <1> HIDE DEF e, seq, base
  <1>3. PICK g : Folds(g, "pack", e, base, seq, N)
    BY FoldExists
  <1>4. Is(g)
    BY <1>2, <1>3 DEF Folds
  <1>5. Is(iter)
    BY <1>4, Zenon
  <1> HIDE DEF iter
  <1>6. Folds(iter, "pack", e, base, seq, N)
    BY <1>2, <1>5 DEF Folds
  <1>7. PICK w : Chain(w, "pack", e, base, seq, N) /\ w[N] = iter[1 .. N]
    BY <1>6, FoldChain
  <1>8. \A n \in 1 .. N : w[n] = Placed(w[n - 1], seq[n], w[n - 1] # <<>> /\ Full(Last(w[n - 1]), seq[n], max, alone))
    BY <1>2, <1>7 DEF Chain
  <1>9. \A n \in 1 .. N : w[n] = InPack(w[n - 1], seq[n], max, alone)
    BY <1>8, Zenon DEF InPack
  <1> QED BY <1>1, <1>7, <1>9 DEF Chain, seq, base

\* The sentences of a parent, said one by one.
LEMMA SaidChain ==
  ASSUME NEW N \in Nat, NEW parent, DOMAIN Content(parent, "plain") = 1 .. N
  PROVE  \E w : /\ w[0] = <<>> /\ w[N] = Sentences(parent)
                /\ \A n \in 1 .. N : w[n] = Said(w[n - 1], Content(parent, "plain")[n])
  <1> DEFINE e == 0
             seq == Content(parent, "plain")
             base == <<>>
             iter[t \in SUBSET (1 .. N)] ==
               IF t = {} THEN base ELSE Said(iter[t \ {Max(t)}], seq[Max(t)])
             Is(f) == f = [t \in SUBSET (1 .. N) |->
                       IF t = {} THEN base ELSE Said(f[t \ {Max(t)}], seq[Max(t)])]
  <1>1. Sentences(parent) = iter[1 .. N]
    BY DEF Sentences, FoldLeft, MapThenFoldSet
  <1>2. \A r, x : Step("say", e, r, x) = Said(r, x)
    BY DEF Step
  <1> HIDE DEF e, seq, base
  <1>3. PICK g : Folds(g, "say", e, base, seq, N)
    BY FoldExists
  <1>4. Is(g)
    BY <1>2, <1>3 DEF Folds
  <1>5. Is(iter)
    BY <1>4, Zenon
  <1> HIDE DEF iter
  <1>6. Folds(iter, "say", e, base, seq, N)
    BY <1>2, <1>5 DEF Folds
  <1>7. PICK w : Chain(w, "say", e, base, seq, N) /\ w[N] = iter[1 .. N]
    BY <1>6, FoldChain
  <1>8. \A n \in 1 .. N : w[n] = Said(w[n - 1], seq[n])
    BY <1>2, <1>7 DEF Chain
  <1> QED BY <1>1, <1>7, <1>8 DEF Chain, seq, base

\* What the child under construction may have become.
MetBy(cs, s) == UNION {Meets(c, s) : c \in cs}
Met(first, said) == FoldLeft(LAMBDA cs, s : UNION {Meets(c, s) : c \in cs}, first, said)

\* The children under construction, after each sentence.
LEMMA MeetChain ==
  ASSUME NEW N \in Nat, NEW first, NEW said, DOMAIN said = 1 .. N
  PROVE  \E w : /\ w[0] = first /\ w[N] = Met(first, said)
                /\ \A n \in 1 .. N : w[n] = MetBy(w[n - 1], said[n])
  <1> DEFINE e == 0
             seq == said
             base == first
             iter[t \in SUBSET (1 .. N)] ==
               IF t = {} THEN base ELSE UNION {Meets(c, seq[Max(t)]) : c \in iter[t \ {Max(t)}]}
             Is(f) == f = [t \in SUBSET (1 .. N) |->
                       IF t = {} THEN base ELSE UNION {Meets(c, seq[Max(t)]) : c \in f[t \ {Max(t)}]}]
  <1>1. Met(first, said) = iter[1 .. N]
    BY DEF Met, FoldLeft, MapThenFoldSet
  <1>2. \A r, x : Step("meet", e, r, x) = UNION {Meets(c, x) : c \in r}
    BY DEF Step
  <1> HIDE DEF e, seq, base
  <1>3. PICK g : Folds(g, "meet", e, base, seq, N)
    BY FoldExists
  <1>4. Is(g)
    <2>1. \A t : (IF t = {} THEN base ELSE Step("meet", e, g[t \ {Max(t)}], seq[Max(t)]))
                 = (IF t = {} THEN base ELSE UNION {Meets(c, seq[Max(t)]) : c \in g[t \ {Max(t)}]})
      BY <1>2, Zenon
    <2>2. g = [t \in SUBSET (1 .. N) |->
                 IF t = {} THEN base ELSE Step("meet", e, g[t \ {Max(t)}], seq[Max(t)])]
      BY <1>3 DEF Folds
    <2> QED BY <2>1, <2>2, Zenon
  <1>5. Is(iter)
    BY <1>4, Zenon
  <1> HIDE DEF iter
  <1>6. Folds(iter, "meet", e, base, seq, N)
    <2>1. \A t : (IF t = {} THEN base ELSE Step("meet", e, iter[t \ {Max(t)}], seq[Max(t)]))
                 = (IF t = {} THEN base ELSE UNION {Meets(c, seq[Max(t)]) : c \in iter[t \ {Max(t)}]})
      BY <1>2, Zenon
    <2>2. iter = [t \in SUBSET (1 .. N) |->
                    IF t = {} THEN base ELSE Step("meet", e, iter[t \ {Max(t)}], seq[Max(t)])]
      BY <1>5, <2>1, Zenon
    <2> QED BY <2>2 DEF Folds
  <1>7. PICK w : Chain(w, "meet", e, base, seq, N) /\ w[N] = iter[1 .. N]
    BY <1>6, FoldChain
  <1>8. \A n \in 1 .. N : w[n] = UNION {Meets(c, seq[n]) : c \in w[n - 1]}
    BY <1>2, <1>7 DEF Chain
  <1> QED BY <1>1, <1>7, <1>8 DEF Chain, seq, base, MetBy

RaisedAll(groups) == FoldLeft(Raised, <<>>, groups)

\* The small groups, joined one by one.
LEMMA RaisedChain ==
  ASSUME NEW N \in Nat, NEW groups, DOMAIN groups = 1 .. N
  PROVE  \E w : /\ w[0] = <<>> /\ w[N] = RaisedAll(groups)
                /\ \A n \in 1 .. N : w[n] = Raised(w[n - 1], groups[n])
  <1> DEFINE e == 0
             seq == groups
             base == <<>>
             iter[t \in SUBSET (1 .. N)] ==
               IF t = {} THEN base ELSE Raised(iter[t \ {Max(t)}], seq[Max(t)])
             Is(f) == f = [t \in SUBSET (1 .. N) |->
                       IF t = {} THEN base ELSE Raised(f[t \ {Max(t)}], seq[Max(t)])]
  <1>1. RaisedAll(groups) = iter[1 .. N]
    BY DEF RaisedAll, FoldLeft, MapThenFoldSet
  <1>2. \A r, x : Step("raise", e, r, x) = Raised(r, x)
    BY DEF Step
  <1> HIDE DEF e, seq, base
  <1>3. PICK g : Folds(g, "raise", e, base, seq, N)
    BY FoldExists
  <1>4. Is(g)
    BY <1>2, <1>3 DEF Folds
  <1>5. Is(iter)
    BY <1>4, Zenon
  <1> HIDE DEF iter
  <1>6. Folds(iter, "raise", e, base, seq, N)
    BY <1>2, <1>5 DEF Folds
  <1>7. PICK w : Chain(w, "raise", e, base, seq, N) /\ w[N] = iter[1 .. N]
    BY <1>6, FoldChain
  <1>8. \A n \in 1 .. N : w[n] = Raised(w[n - 1], seq[n])
    BY <1>2, <1>7 DEF Chain
  <1> QED BY <1>1, <1>7, <1>8 DEF Chain, seq, base

HeadedAll(groups) == FoldLeft(Headed, [out |-> <<>>, open |-> TRUE], groups)

\* The headings, joined one by one.
LEMMA HeadedChain ==
  ASSUME NEW N \in Nat, NEW groups, DOMAIN groups = 1 .. N
  PROVE  \E w : /\ w[0] = [out |-> <<>>, open |-> TRUE] /\ w[N] = HeadedAll(groups)
                /\ \A n \in 1 .. N : w[n] = Headed(w[n - 1], groups[n])
  <1> DEFINE e == 0
             seq == groups
             base == [out |-> <<>>, open |-> TRUE]
             iter[t \in SUBSET (1 .. N)] ==
               IF t = {} THEN base ELSE Headed(iter[t \ {Max(t)}], seq[Max(t)])
             Is(f) == f = [t \in SUBSET (1 .. N) |->
                       IF t = {} THEN base ELSE Headed(f[t \ {Max(t)}], seq[Max(t)])]
  <1>1. HeadedAll(groups) = iter[1 .. N]
    BY DEF HeadedAll, FoldLeft, MapThenFoldSet
  <1>2. \A r, x : Step("head", e, r, x) = Headed(r, x)
    BY DEF Step
  <1> HIDE DEF e, seq, base
  <1>3. PICK g : Folds(g, "head", e, base, seq, N)
    BY FoldExists
  <1>4. Is(g)
    BY <1>2, <1>3 DEF Folds
  <1>5. Is(iter)
    BY <1>4, Zenon
  <1> HIDE DEF iter
  <1>6. Folds(iter, "head", e, base, seq, N)
    BY <1>2, <1>5 DEF Folds
  <1>7. PICK w : Chain(w, "head", e, base, seq, N) /\ w[N] = iter[1 .. N]
    BY <1>6, FoldChain
  <1>8. \A n \in 1 .. N : w[n] = Headed(w[n - 1], seq[n])
    BY <1>2, <1>7 DEF Chain
  <1> QED BY <1>1, <1>7, <1>8 DEF Chain, seq, base

\* The titles offered for some labels, one by one.
LEMMA OfferedChain ==
  ASSUME NEW N \in Nat, NEW named, NEW labels, NEW offer, DOMAIN labels = 1 .. N
  PROVE  \E w : /\ w[0] = named /\ w[N] = Offered(named, labels, offer)
                /\ \A n \in 1 .. N : w[n] = Accepted(w[n - 1], labels[n], offer[labels[n]])
  <1> DEFINE e == offer
             seq == labels
             base == named
             iter[t \in SUBSET (1 .. N)] ==
               IF t = {} THEN base ELSE Accepted(iter[t \ {Max(t)}], seq[Max(t)], offer[seq[Max(t)]])
             Is(f) == f = [t \in SUBSET (1 .. N) |->
                       IF t = {} THEN base ELSE Accepted(f[t \ {Max(t)}], seq[Max(t)], offer[seq[Max(t)]])]
  <1>1. Offered(named, labels, offer) = iter[1 .. N]
    BY DEF Offered, FoldLeft, MapThenFoldSet
  <1>2. \A r, x : Step("offer", e, r, x) = Accepted(r, x, offer[x])
    BY DEF Step
  <1> HIDE DEF e, seq, base
  <1>3. PICK g : Folds(g, "offer", e, base, seq, N)
    BY FoldExists
  <1>4. Is(g)
    <2>1. \A t : (IF t = {} THEN base ELSE Step("offer", e, g[t \ {Max(t)}], seq[Max(t)]))
                 = (IF t = {} THEN base ELSE Accepted(g[t \ {Max(t)}], seq[Max(t)], offer[seq[Max(t)]]))
      BY <1>2, Zenon
    <2>2. g = [t \in SUBSET (1 .. N) |->
                 IF t = {} THEN base ELSE Step("offer", e, g[t \ {Max(t)}], seq[Max(t)])]
      BY <1>3 DEF Folds
    <2> QED BY <2>1, <2>2, Zenon
  <1>5. Is(iter)
    BY <1>4, Zenon
  <1> HIDE DEF iter
  <1>6. Folds(iter, "offer", e, base, seq, N)
    <2>1. \A t : (IF t = {} THEN base ELSE Step("offer", e, iter[t \ {Max(t)}], seq[Max(t)]))
                 = (IF t = {} THEN base ELSE Accepted(iter[t \ {Max(t)}], seq[Max(t)], offer[seq[Max(t)]]))
      BY <1>2, Zenon
    <2>2. iter = [t \in SUBSET (1 .. N) |->
                    IF t = {} THEN base ELSE Step("offer", e, iter[t \ {Max(t)}], seq[Max(t)])]
      BY <1>5, <2>1, Zenon
    <2> QED BY <2>2 DEF Folds
  <1>7. PICK w : Chain(w, "offer", e, base, seq, N) /\ w[N] = iter[1 .. N]
    BY <1>6, FoldChain
  <1>8. \A n \in 1 .. N : w[n] = Accepted(w[n - 1], seq[n], offer[seq[n]])
    BY <1>2, <1>7 DEF Chain
  <1> QED BY <1>1, <1>7, <1>8 DEF Chain, seq, base

\* What holds of the empty sequence, and of a sequence when it holds without its last.
LEMMA SeqInduction ==
  ASSUME NEW X, NEW P, <<>> \in P, \A s \in Seq(X), x \in X : s \in P => Append(s, x) \in P
  PROVE  Seq(X) \subseteq P
  <1> DEFINE G == {n \in Nat : \A s \in Seq(X) : Len(s) = n => s \in P}
  <1>1. 0 \in G
    <2>1. \A s \in Seq(X) : Len(s) = 0 => s = <<>>
      OBVIOUS
    <2> QED BY <2>1
  <1>2. ASSUME NEW n \in Nat, n \in G PROVE n + 1 \in G
    <2>1. SUFFICES ASSUME NEW s \in Seq(X), Len(s) = n + 1 PROVE s \in P
      OBVIOUS
    <2>2. s # <<>>
      BY <2>1
    <2>3. Front(s) \in Seq(X) /\ Last(s) \in X /\ Len(Front(s)) = n /\ s = Append(Front(s), Last(s))
      BY <2>1, <2>2, LastIs
    <2> QED BY <1>2, <2>3
  <1>3. Nat \subseteq G
    <2> HIDE DEF G
    <2> QED BY <1>1, <1>2, SetInduction
  <1> QED BY <1>3

LEMMA AppendEnds ==
  ASSUME NEW X, NEW s \in Seq(X), NEW x \in X
  PROVE  /\ Append(s, x) # <<>> /\ Last(Append(s, x)) = x /\ Front(Append(s, x)) = s
         /\ (s = <<>> => Append(s, x)[1] = x) /\ (s # <<>> => Append(s, x)[1] = s[1])
         /\ <<x>> # <<>> /\ Last(<<x>>) = x /\ <<x>>[1] = x
         /\ Append(<<>>, x) = <<x>>
  <1>1. /\ Append(s, x) \in Seq(X) /\ Len(Append(s, x)) = Len(s) + 1 /\ Len(s) \in Nat
        /\ Append(s, x)[Len(s) + 1] = x /\ \A i \in 1 .. Len(s) : Append(s, x)[i] = s[i]
    <2>1. Append(s, x) \in Seq(X)
      OBVIOUS
    <2>2. /\ Len(Append(s, x)) = Len(s) + 1 /\ Len(s) \in Nat
          /\ Append(s, x)[Len(s) + 1] = x /\ \A i \in 1 .. Len(s) : Append(s, x)[i] = s[i]
      OBVIOUS
    <2> QED BY <2>1, <2>2, Zenon
  <1>2. Append(s, x) # <<>>
    BY <1>1, EmptyIs
  <1>3. Last(Append(s, x)) = x
    BY <1>1 DEF Last
  <1>4. Front(Append(s, x)) = s
    <2>1. PICK a : a = Append(s, x)
      OBVIOUS
    <2>2. a \in Seq(X) /\ a # <<>> /\ Len(a) = Len(s) + 1
      BY <1>1, <1>2, <2>1
    <2>3. Front(a) \in Seq(X) /\ Len(Front(a)) = Len(a) - 1 /\ \A i \in 1 .. Len(a) - 1 : Front(a)[i] = a[i]
      BY <2>2, LastIs
    <2>4. Len(a) - 1 = Len(s) /\ \A i \in 1 .. Len(s) : a[i] = s[i]
      BY <1>1, <2>1, <2>2
    <2>5. Front(a) = s
      BY <2>3, <2>4, SeqEq
    <2> QED BY <2>1, <2>5
  <1>5. (s = <<>> => Append(s, x)[1] = x) /\ (s # <<>> => Append(s, x)[1] = s[1])
    <2>1. CASE s = <<>>
      BY <1>1, <2>1, EmptyIs
    <2>2. CASE s # <<>>
      <3>1. 1 \in 1 .. Len(s)
        BY <2>2, LastIs
      <3> QED BY <1>1, <2>2, <3>1
    <2> QED BY <2>1, <2>2
  <1>6. Append(<<>>, x) = <<x>>
    OBVIOUS
  <1>7. <<x>> # <<>> /\ Last(<<x>>) = x /\ <<x>>[1] = x
    BY DEF Last
  <1> QED BY <1>2, <1>3, <1>4, <1>5, <1>6, <1>7, Zenon

LEMMA ConcatEnds ==
  ASSUME NEW X, NEW s \in Seq(X), NEW t \in Seq(X)
  PROVE  /\ t # <<>> => Last(s \o t) = Last(t)
         /\ s # <<>> => (s \o t)[1] = s[1]
         /\ s # <<>> \/ t # <<>> => s \o t # <<>>
  <1>1. /\ s \o t \in Seq(X) /\ Len(s \o t) = Len(s) + Len(t) /\ Len(s) \in Nat /\ Len(t) \in Nat
        /\ \A i \in 1 .. Len(s) : (s \o t)[i] = s[i]
        /\ \A i \in 1 .. Len(t) : (s \o t)[Len(s) + i] = t[i]
    OBVIOUS
  <1>2. /\ s # <<>> => Len(s) \in Nat \ {0} /\ Last(s) = s[Len(s)]
        /\ t # <<>> => Len(t) \in Nat \ {0} /\ Last(t) = t[Len(t)]
    BY LastIs
  <1>3. s # <<>> \/ t # <<>> => s \o t # <<>>
    BY <1>1, <1>2, EmptyIs
  <1>4. t # <<>> => Last(s \o t) = Last(t)
    BY <1>1, <1>2 DEF Last
  <1> QED BY <1>1, <1>2, <1>3, <1>4

\* Neighbours in a sequence are in the relation R.
Linked(s, R) == \A i \in 1 .. Len(s) - 1 : <<s[i], s[i + 1]>> \in R

LEMMA LinkedAppend ==
  ASSUME NEW X, NEW s \in Seq(X), NEW x \in X, NEW R
  PROVE  /\ Linked(<<>>, R) /\ Linked(<<x>>, R)
         /\ Linked(Append(s, x), R) <=> Linked(s, R) /\ (s # <<>> => <<Last(s), x>> \in R)
  <1>1. /\ Len(Append(s, x)) = Len(s) + 1 /\ Len(s) \in Nat
        /\ Append(s, x)[Len(s) + 1] = x /\ \A i \in 1 .. Len(s) : Append(s, x)[i] = s[i]
    OBVIOUS
  <1>2. s # <<>> => Len(s) \in Nat \ {0} /\ Last(s) = s[Len(s)]
    BY LastIs
  <1>3. s = <<>> => Len(s) = 0
    BY EmptyIs
  <1>4. Linked(<<>>, R) /\ Linked(<<x>>, R)
    BY DEF Linked
  <1>5. ASSUME Linked(Append(s, x), R) PROVE Linked(s, R) /\ (s # <<>> => <<Last(s), x>> \in R)
    <2>1. \A i \in 1 .. Len(s) : <<Append(s, x)[i], Append(s, x)[i + 1]>> \in R
      BY <1>1, <1>5 DEF Linked
    <2>2. \A i \in 1 .. Len(s) - 1 : i \in 1 .. Len(s) /\ i + 1 \in 1 .. Len(s)
      BY <1>1
    <2>3. Linked(s, R)
      BY <1>1, <2>1, <2>2 DEF Linked
    <2> QED BY <1>1, <1>2, <2>1, <2>3
  <1>6. ASSUME Linked(s, R), s # <<>> => <<Last(s), x>> \in R PROVE Linked(Append(s, x), R)
    <2>1. SUFFICES ASSUME NEW i \in 1 .. Len(s) PROVE <<Append(s, x)[i], Append(s, x)[i + 1]>> \in R
      BY <1>1 DEF Linked
    <2>2. CASE i = Len(s)
      <3>1. s # <<>>
        BY <1>3, <2>2
      <3> QED BY <1>1, <1>2, <1>6, <2>2, <3>1
    <2>3. CASE i # Len(s)
      <3>1. i \in 1 .. Len(s) - 1 /\ i + 1 \in 1 .. Len(s)
        BY <1>1, <2>3
      <3> QED BY <1>1, <1>6, <3>1 DEF Linked
    <2> QED BY <2>2, <2>3
  <1> QED BY <1>4, <1>5, <1>6

LEMMA LinkedConcat ==
  ASSUME NEW X, NEW s \in Seq(X), NEW t \in Seq(X), NEW R
  PROVE  Linked(s \o t, R) <=> /\ Linked(s, R) /\ Linked(t, R)
                               /\ s # <<>> /\ t # <<>> => <<Last(s), t[1]>> \in R
  <1> DEFINE Law(u) == Linked(s \o u, R) <=> /\ Linked(s, R) /\ Linked(u, R)
                                             /\ s # <<>> /\ u # <<>> => <<Last(s), u[1]>> \in R
             P == {u \in Seq(X) : Law(u)}
  <1>1. <<>> \in P
    <2>1. s \o <<>> = s /\ <<>> \in Seq(X) /\ Linked(<<>>, R)
      BY DEF Linked
    <2> QED BY <2>1
  <1>2. ASSUME NEW u \in Seq(X), NEW x \in X, u \in P PROVE Append(u, x) \in P
    <2>1. s \o Append(u, x) = Append(s \o u, x) /\ s \o u \in Seq(X)
      BY ConcatLaws
    <2>2. Linked(s \o Append(u, x), R) <=> Linked(s \o u, R) /\ (s \o u # <<>> => <<Last(s \o u), x>> \in R)
      BY <2>1, LinkedAppend
    <2>3. Linked(Append(u, x), R) <=> Linked(u, R) /\ (u # <<>> => <<Last(u), x>> \in R)
      BY LinkedAppend
    <2>4. /\ Append(u, x) # <<>> /\ (u = <<>> => Append(u, x)[1] = x) /\ (u # <<>> => Append(u, x)[1] = u[1])
          /\ Append(u, x) \in Seq(X)
      <3>1. Append(u, x) # <<>> /\ (u = <<>> => Append(u, x)[1] = x) /\ (u # <<>> => Append(u, x)[1] = u[1])
        BY AppendEnds, Zenon
      <3>2. Append(u, x) \in Seq(X)
        OBVIOUS
      <3> QED BY <3>1, <3>2, Zenon
    <2>5. CASE u = <<>>
      <3>1. s \o u = s
        BY <2>5
      <3> QED BY <1>2, <2>2, <2>3, <2>4, <2>5, <3>1
    <2>6. CASE u # <<>>
      <3>1. Last(s \o u) = Last(u) /\ s \o u # <<>>
        BY <2>6, ConcatEnds
      <3> QED BY <1>2, <2>2, <2>3, <2>4, <2>6, <3>1
    <2> QED BY <2>5, <2>6
  <1>3. Seq(X) \subseteq P
    <2> HIDE DEF P
    <2> QED BY <1>1, <1>2, SeqInduction
  <1> QED BY <1>3

\* Sequences that are not empty, in sequence.
Groups(X) == Seq(Seq(X) \ {<<>>})

LEMMA GroupsAre ==
  ASSUME NEW X, NEW gs \in Groups(X), NEW g \in Seq(X) \ {<<>>}
  PROVE  /\ gs \in Seq(Seq(X)) /\ Append(gs, g) \in Groups(X) /\ <<>> \in Groups(X)
         /\ gs # <<>> => /\ Front(gs) \in Groups(X) /\ Last(gs) \in Seq(X) \ {<<>>}
                         /\ gs = Append(Front(gs), Last(gs))
  <1> DEFINE Y == Seq(X) \ {<<>>}
  <1>1. gs \in Seq(Y) /\ g \in Y
    BY DEF Groups
  <1>2. gs # <<>> => Front(gs) \in Seq(Y) /\ Last(gs) \in Y /\ gs = Append(Front(gs), Last(gs))
    <2> HIDE DEF Y
    <2> QED BY <1>1, LastIs
  <1>3. gs \in Seq(Seq(X))
    BY <1>1
  <1>4. Append(gs, g) \in Seq(Y) /\ <<>> \in Seq(Y)
    <2> HIDE DEF Y
    <2> QED BY <1>1
  <1> QED BY <1>2, <1>3, <1>4 DEF Groups

\* The whole is linked if its parts are, and the ends at which they meet.
LEMMA FlattenLinked ==
  ASSUME NEW X, NEW gs \in Groups(X), NEW R
  PROVE  /\ Linked(FlattenSeq(gs), R) <=>
              /\ \A p \in 1 .. Len(gs) : Linked(gs[p], R)
              /\ \A p \in 1 .. Len(gs) - 1 : <<Last(gs[p]), gs[p + 1][1]>> \in R
         /\ gs # <<>> => /\ FlattenSeq(gs) # <<>> /\ Last(FlattenSeq(gs)) = Last(Last(gs))
                         /\ FlattenSeq(gs)[1] = gs[1][1]
  <1> DEFINE Law(hs) ==
               /\ Linked(FlattenSeq(hs), R) <=>
                    /\ \A p \in 1 .. Len(hs) : Linked(hs[p], R)
                    /\ \A p \in 1 .. Len(hs) - 1 : <<Last(hs[p]), hs[p + 1][1]>> \in R
               /\ hs # <<>> => /\ FlattenSeq(hs) # <<>> /\ Last(FlattenSeq(hs)) = Last(Last(hs))
                               /\ FlattenSeq(hs)[1] = hs[1][1]
             P == {hs \in Groups(X) : Law(hs)}
             Y == Seq(X) \ {<<>>}
  <1>1. <<>> \in P
    <2>1. FlattenSeq(<<>>) = <<>> /\ <<>> \in Groups(X)
      BY FlattenEmpty DEF Groups
    <2>2. Len(<<>>) = 0 /\ Linked(<<>>, R)
      BY DEF Linked
    <2> QED BY <2>1, <2>2
  <1>2. ASSUME NEW hs \in Seq(Y), NEW g \in Y, hs \in P PROVE Append(hs, g) \in P
    <2>1. hs \in Groups(X) /\ Append(hs, g) \in Groups(X) /\ hs \in Seq(Seq(X)) /\ g \in Seq(X)
      BY GroupsAre DEF Groups
    <2>2. FlattenSeq(Append(hs, g)) = FlattenSeq(hs) \o g /\ FlattenSeq(hs) \in Seq(X)
      BY <2>1, FlattenAppend
    <2> DEFINE N == Len(hs)
               ks == Append(hs, g)
    <2>3. /\ N \in Nat /\ Len(ks) = N + 1 /\ ks[N + 1] = g
          /\ \A i \in 1 .. N : ks[i] = hs[i] /\ ks[i] \in Seq(X)
      BY <2>1
    <2>4. ks # <<>> /\ Last(ks) = g /\ (hs = <<>> => ks[1] = g) /\ (hs # <<>> => ks[1] = hs[1])
      <3> HIDE DEF Y
      <3>1. /\ Append(hs, g) # <<>> /\ Last(Append(hs, g)) = g
            /\ (hs = <<>> => Append(hs, g)[1] = g) /\ (hs # <<>> => Append(hs, g)[1] = hs[1])
        BY <1>2, AppendEnds, Zenon
      <3> QED BY <3>1, Zenon
    <2>5. hs = <<>> => N = 0
      BY EmptyIs
    <2>6. hs # <<>> => N # 0 /\ Last(hs) = hs[N]
      BY <1>2, LastIs
    <2> HIDE DEF N, ks, Y
    <2>7. Linked(FlattenSeq(ks), R) <=>
            /\ Linked(FlattenSeq(hs), R) /\ Linked(g, R)
            /\ FlattenSeq(hs) # <<>> /\ g # <<>> => <<Last(FlattenSeq(hs)), g[1]>> \in R
      BY <2>1, <2>2, LinkedConcat DEF ks
    <2>8. Law(hs) /\ g # <<>>
      BY <1>2 DEF Y
    <2>9. CASE hs = <<>>
      <3>1. FlattenSeq(hs) = <<>> /\ Linked(<<>>, R)
        BY <2>9, FlattenEmpty DEF Linked
      <3>2. FlattenSeq(ks) = g
        BY <2>1, <2>2, <3>1 DEF ks
      <3>3. Linked(FlattenSeq(ks), R) <=> Linked(g, R)
        BY <2>7, <3>1
      <3>4. Len(ks) = 1 /\ ks[1] = g
        BY <2>3, <2>5, <2>9
      <3>5. 1 .. 1 = {1} /\ 1 .. 1 - 1 = {}
        OBVIOUS
      <3>6. Law(ks)
        BY <2>4, <2>8, <3>2, <3>3, <3>4, <3>5
      <3> QED BY <2>1, <3>6 DEF ks
    <2>10. CASE hs # <<>>
      <3>1. /\ FlattenSeq(hs) # <<>> /\ Last(FlattenSeq(hs)) = Last(hs[N])
            /\ FlattenSeq(hs)[1] = hs[1][1]
        BY <2>6, <2>8, <2>10
      <3>2. FlattenSeq(ks) # <<>> /\ Last(FlattenSeq(ks)) = Last(g) /\ FlattenSeq(ks)[1] = hs[1][1]
        BY <2>1, <2>2, <2>8, <3>1, ConcatEnds DEF ks
      <3>3. 1 .. N + 1 = (1 .. N) \cup {N + 1} /\ N \in 1 .. N
        BY <2>3, <2>6, <2>10
      <3>4. (\A p \in 1 .. N + 1 : Linked(ks[p], R)) <=> (\A p \in 1 .. N : Linked(hs[p], R)) /\ Linked(g, R)
        BY <2>3, <3>3
      <3>5. (\A p \in 1 .. N : <<Last(ks[p]), ks[p + 1][1]>> \in R) <=>
              (\A p \in 1 .. N - 1 : <<Last(hs[p]), hs[p + 1][1]>> \in R) /\ <<Last(hs[N]), g[1]>> \in R
        <4>1. 1 .. N = (1 .. N - 1) \cup {N}
          BY <2>3, <2>6, <2>10
        <4>2. \A p \in 1 .. N - 1 : p \in 1 .. N /\ p + 1 \in 1 .. N
          BY <2>3
        <4>3. \A p \in 1 .. N - 1 : ks[p] = hs[p] /\ ks[p + 1] = hs[p + 1]
          BY <2>3, <4>2
        <4>4. ks[N] = hs[N] /\ ks[N + 1] = g
          BY <2>3, <3>3
        <4> QED BY <4>1, <4>3, <4>4
      <3>6. N + 1 - 1 = N
        BY <2>3
      <3>7. Linked(FlattenSeq(ks), R) <=>
              /\ \A p \in 1 .. Len(ks) : Linked(ks[p], R)
              /\ \A p \in 1 .. Len(ks) - 1 : <<Last(ks[p]), ks[p + 1][1]>> \in R
        <4>1. Linked(FlattenSeq(hs), R) <=>
                /\ \A p \in 1 .. N : Linked(hs[p], R)
                /\ \A p \in 1 .. N - 1 : <<Last(hs[p]), hs[p + 1][1]>> \in R
          BY <2>8 DEF N
        <4>2. Linked(FlattenSeq(ks), R) <=>
                /\ Linked(FlattenSeq(hs), R) /\ Linked(g, R) /\ <<Last(hs[N]), g[1]>> \in R
          BY <2>7, <2>8, <3>1
        <4>3. Len(ks) = N + 1 /\ Len(ks) - 1 = N
          BY <2>3, <3>6
        <4> HIDE DEF Law
        <4> QED BY <3>4, <3>5, <4>1, <4>2, <4>3
      <3>8. Law(ks)
        BY <2>4, <2>10, <3>2, <3>7
      <3> QED BY <2>1, <3>8 DEF ks
    <2> QED BY <2>9, <2>10
  <1>3. Seq(Y) \subseteq P
    <2> HIDE DEF P, Y
    <2> QED BY <1>1, <1>2, SeqInduction
  <1> QED BY <1>3 DEF Groups

-----------------------------------------------------------------------------
(* What the elements of a sequence are turned into, joined; and words.     *)

\* What turns each element into a sequence.
Maps(X, Y) == [X -> Seq(Y)]

Spread(us, f) == FlattenSeq([i \in DOMAIN us |-> f[us[i]]])

LEMMA MappedIs ==
  ASSUME NEW X, NEW Y, NEW f \in Maps(X, Y), NEW us \in Seq(X)
  PROVE  /\ [i \in DOMAIN us |-> f[us[i]]] \in Seq(Seq(Y))
         /\ Len([i \in DOMAIN us |-> f[us[i]]]) = Len(us)
         /\ DOMAIN us = 1 .. Len(us)
         /\ \A i \in 1 .. Len(us) : [j \in DOMAIN us |-> f[us[j]]][i] = f[us[i]] /\ us[i] \in X
  <1>1. DOMAIN us = 1 .. Len(us) /\ Len(us) \in Nat /\ \A i \in 1 .. Len(us) : us[i] \in X
    OBVIOUS
  <1>2. \A i \in DOMAIN us : f[us[i]] \in Seq(Y)
    BY <1>1 DEF Maps
  <1>3. [i \in DOMAIN us |-> f[us[i]]] \in [1 .. Len(us) -> Seq(Y)]
    BY <1>1, <1>2
  <1>4. [i \in DOMAIN us |-> f[us[i]]] \in Seq(Seq(Y))
    BY <1>1, <1>3
  <1>5. Len([i \in DOMAIN us |-> f[us[i]]]) = Len(us)
    BY <1>1, <1>3, <1>4
  <1> QED BY <1>1, <1>4, <1>5

LEMMA SpreadEmpty ==
  ASSUME NEW f
  PROVE  Spread(<<>>, f) = <<>>
  <1>1. [i \in DOMAIN <<>> |-> f[<<>>[i]]] = <<>>
    OBVIOUS
  <1>2. FlattenSeq([i \in DOMAIN <<>> |-> f[<<>>[i]]]) = FlattenSeq(<<>>)
    BY <1>1, Zenon
  <1> QED BY <1>2, FlattenEmpty, Zenon DEF Spread

LEMMA SpreadIs ==
  ASSUME NEW X, NEW Y, NEW f \in Maps(X, Y), NEW us \in Seq(X), NEW u \in X
  PROVE  /\ Spread(us, f) \in Seq(Y) /\ Spread(<<>>, f) = <<>>
         /\ Spread(Append(us, u), f) = Spread(us, f) \o f[u]
  <1> DEFINE vs == Append(us, u)
             m == [i \in DOMAIN us |-> f[us[i]]]
             n == [i \in DOMAIN vs |-> f[vs[i]]]
  <1>1. /\ m \in Seq(Seq(Y)) /\ Len(m) = Len(us) /\ DOMAIN us = 1 .. Len(us)
        /\ \A i \in 1 .. Len(us) : m[i] = f[us[i]] /\ us[i] \in X
    BY MappedIs
  <1>2. vs \in Seq(X) /\ Len(vs) = Len(us) + 1 /\ vs[Len(us) + 1] = u /\ Len(us) \in Nat
    OBVIOUS
  <1>3. \A i \in 1 .. Len(us) : vs[i] = us[i]
    OBVIOUS
  <1>4. /\ n \in Seq(Seq(Y)) /\ Len(n) = Len(vs) /\ DOMAIN vs = 1 .. Len(vs)
        /\ \A i \in 1 .. Len(vs) : n[i] = f[vs[i]] /\ vs[i] \in X
    <2> HIDE DEF vs
    <2>1. PICK ws \in Seq(X) : ws = vs
      BY <1>2
    <2>2. /\ [i \in DOMAIN ws |-> f[ws[i]]] \in Seq(Seq(Y))
          /\ Len([i \in DOMAIN ws |-> f[ws[i]]]) = Len(ws)
          /\ DOMAIN ws = 1 .. Len(ws)
          /\ \A i \in 1 .. Len(ws) : [j \in DOMAIN ws |-> f[ws[j]]][i] = f[ws[i]] /\ ws[i] \in X
      BY MappedIs
    <2> QED BY <2>1, <2>2, Zenon
  <1> HIDE DEF m, n, vs
  <1>5. f[u] \in Seq(Y)
    BY DEF Maps
  <1>6. n = Append(m, f[u])
    <2>1. Append(m, f[u]) \in Seq(Seq(Y)) /\ Len(Append(m, f[u])) = Len(n)
      BY <1>1, <1>2, <1>4, <1>5
    <2>2. \A i \in 1 .. Len(us) : Append(m, f[u])[i] = m[i] /\ n[i] = m[i]
      <3>1. \A i \in 1 .. Len(us) : Append(m, f[u])[i] = m[i]
        BY <1>1, <1>5
      <3>2. \A i \in 1 .. Len(us) : i \in 1 .. Len(vs)
        BY <1>2
      <3>3. \A i \in 1 .. Len(us) : n[i] = f[vs[i]] /\ m[i] = f[us[i]]
        BY <1>1, <1>4, <3>2
      <3> QED BY <1>3, <3>1, <3>3
    <2>3. Append(m, f[u])[Len(us) + 1] = f[u] /\ n[Len(us) + 1] = f[u]
      <3>1. Append(m, f[u])[Len(us) + 1] = f[u]
        BY <1>1, <1>5
      <3>2. Len(us) + 1 \in 1 .. Len(vs)
        BY <1>2
      <3>3. n[Len(us) + 1] = f[vs[Len(us) + 1]]
        BY <1>4, <3>2
      <3> QED BY <1>2, <3>1, <3>3
    <2>4. \A i \in 1 .. Len(n) : i \in 1 .. Len(us) \/ i = Len(us) + 1
      BY <1>2, <1>4
    <2>5. \A i \in 1 .. Len(n) : Append(m, f[u])[i] = n[i]
      BY <2>2, <2>3, <2>4
    <2> QED BY <1>4, <2>1, <2>5, SeqEq
  <1>7. FlattenSeq(m) \in Seq(Y) /\ FlattenSeq(n) = FlattenSeq(m) \o f[u]
    BY <1>1, <1>5, <1>6, FlattenAppend
  <1>8. Spread(<<>>, f) = <<>>
    BY SpreadEmpty
  <1> QED BY <1>7, <1>8 DEF Spread, m, n, vs

LEMMA ConcatAssociative ==
  ASSUME NEW X, NEW s \in Seq(X), NEW t \in Seq(X), NEW u \in Seq(X)
  PROVE  (s \o t) \o u = s \o (t \o u)
  <1>1. (s \o t) \o u \in Seq(X) /\ s \o (t \o u) \in Seq(X)
    OBVIOUS
  <1>2. /\ Len((s \o t) \o u) = Len(s) + Len(t) + Len(u)
        /\ Len(s \o (t \o u)) = Len(s) + Len(t) + Len(u)
    OBVIOUS
  <1>3. ASSUME NEW i \in 1 .. Len(s) + Len(t) + Len(u)
        PROVE  ((s \o t) \o u)[i] = (s \o (t \o u))[i]
    OBVIOUS
  <1> QED BY <1>1, <1>2, <1>3, SeqEq

LEMMA SpreadConcat ==
  ASSUME NEW X, NEW Y, NEW f \in Maps(X, Y), NEW us \in Seq(X), NEW vs \in Seq(X)
  PROVE  Spread(us \o vs, f) = Spread(us, f) \o Spread(vs, f)
  <1> DEFINE P == {s \in Seq(X) : Spread(us \o s, f) = Spread(us, f) \o Spread(s, f)}
  <1>1. <<>> \in P
    <2>1. us \o <<>> = us /\ <<>> \in Seq(X)
      OBVIOUS
    <2>2. PICK x : x = Spread(us, f)
      OBVIOUS
    <2>3. x \in Seq(Y) /\ Spread(<<>>, f) = <<>>
      <3>1. CASE X = {}
        <4>1. us = <<>>
          BY <3>1
        <4>2. Spread(<<>>, f) = <<>>
          BY SpreadEmpty
        <4>3. <<>> \in Seq(Y)
          OBVIOUS
        <4> QED BY <2>2, <4>1, <4>2, <4>3, Zenon
      <3>2. CASE X # {}
        BY <2>2, <3>2, SpreadIs
      <3> QED BY <3>1, <3>2
    <2>4. x \o <<>> = x
      BY <2>3
    <2> QED BY <2>1, <2>2, <2>3, <2>4
  <1>2. ASSUME NEW s \in Seq(X), NEW x \in X, s \in P PROVE Append(s, x) \in P
    <2>1. us \o Append(s, x) = Append(us \o s, x) /\ us \o s \in Seq(X) /\ Append(s, x) \in Seq(X)
      BY ConcatLaws
    <2>2. Spread(Append(us \o s, x), f) = Spread(us \o s, f) \o f[x]
      <3>1. PICK t \in Seq(X) : t = us \o s
        BY <2>1
      <3>2. Spread(Append(t, x), f) = Spread(t, f) \o f[x]
        BY SpreadIs
      <3> QED BY <3>1, <3>2
    <2>3. Spread(Append(s, x), f) = Spread(s, f) \o f[x] /\ Spread(s, f) \in Seq(Y)
      BY SpreadIs
    <2>4. Spread(us, f) \in Seq(Y) /\ f[x] \in Seq(Y)
      <3>1. Spread(us, f) \in Seq(Y)
        BY SpreadIs
      <3> QED BY <3>1 DEF Maps
    <2>5. (Spread(us, f) \o Spread(s, f)) \o f[x] = Spread(us, f) \o (Spread(s, f) \o f[x])
      <3>1. PICK a \in Seq(Y), b \in Seq(Y), c \in Seq(Y) : a = Spread(us, f) /\ b = Spread(s, f) /\ c = f[x]
        BY <2>3, <2>4
      <3>2. (a \o b) \o c = a \o (b \o c)
        BY ConcatAssociative
      <3> QED BY <3>1, <3>2
    <2> QED BY <1>2, <2>1, <2>2, <2>3, <2>5
  <1>3. Seq(X) \subseteq P
    <2> HIDE DEF P
    <2> QED BY <1>1, <1>2, SeqInduction
  <1> QED BY <1>3

\* The words of a sequence are those of its parts.
LEMMA WordsAre ==
  ASSUME NEW X, \A x \in X : x.words \in Nat, NEW s \in Seq(X), NEW x \in X
  PROVE  /\ WordsOf(<<>>) = 0 /\ WordsOf(s) \in Nat
         /\ WordsOf(Append(s, x)) = WordsOf(s) + x.words /\ WordsOf(<<x>>) = x.words
  <1>1. \A t : t \in Seq(X) => Len(t) \in Nat /\ DOMAIN t = 1 .. Len(t) /\ \A i \in 1 .. Len(t) : t[i].words \in Nat
    OBVIOUS
  <1>2. WordsOf(<<>>) = 0
    <2>1. DOMAIN <<>> = 1 .. 0 /\ 0 \in Nat
      OBVIOUS
    <2>2. PICK w : w[0] = 0 /\ w[0] = WordsOf(<<>>)
      BY <2>1, WordsChain
    <2> QED BY <2>2
  <1>3. ASSUME NEW t \in Seq(X), NEW y \in X
        PROVE  WordsOf(t) \in Nat /\ WordsOf(Append(t, y)) = WordsOf(t) + y.words
    <2>1. PICK N \in Nat : N = Len(t)
      BY <1>1
    <2>2. PICK r : r = Append(t, y)
      OBVIOUS
    <2>3. DOMAIN t = 1 .. N /\ \A i \in 1 .. N : t[i].words \in Nat
      BY <1>1, <2>1
    <2>4. N + 1 \in Nat /\ DOMAIN r = 1 .. N + 1 /\ r[N + 1] = y /\ \A i \in 1 .. N : r[i] = t[i]
      BY <2>1, <2>2
    <2>5. PICK w : w[0] = 0 /\ w[N] = WordsOf(t) /\ \A n \in 1 .. N : w[n] = w[n - 1] + t[n].words
      BY <2>3, WordsChain
    <2>6. PICK v : v[0] = 0 /\ v[N + 1] = WordsOf(r) /\ \A n \in 1 .. N + 1 : v[n] = v[n - 1] + r[n].words
      BY <2>4, WordsChain
    <2> DEFINE G == {n \in Nat : n \in 0 .. N => v[n] = w[n] /\ w[n] \in Nat}
    <2>7. 0 \in G
      BY <2>5, <2>6
    <2>8. ASSUME NEW n \in Nat, n \in G PROVE n + 1 \in G
      <3>1. SUFFICES ASSUME n + 1 \in 0 .. N PROVE v[n + 1] = w[n + 1] /\ w[n + 1] \in Nat
        OBVIOUS
      <3>2. n + 1 \in 1 .. N /\ n + 1 \in 1 .. N + 1 /\ n + 1 - 1 = n /\ n \in 0 .. N
        BY <3>1
      <3>3. v[n] = w[n] /\ w[n] \in Nat
        BY <2>8, <3>2
      <3>4. v[n + 1] = v[n] + r[n + 1].words /\ w[n + 1] = w[n] + t[n + 1].words
        BY <2>5, <2>6, <3>2
      <3> QED BY <2>3, <2>4, <3>2, <3>3, <3>4
    <2>9. N \in G
      <3> HIDE DEF G
      <3> QED BY <2>7, <2>8, SetInduction
    <2>10. v[N] = w[N] /\ w[N] \in Nat
      BY <2>9
    <2>11. v[N + 1] = v[N] + r[N + 1].words
      <3>1. N + 1 \in 1 .. N + 1 /\ N + 1 - 1 = N
        OBVIOUS
      <3>2. v[N + 1] = v[N + 1 - 1] + r[N + 1].words
        BY <2>6, <3>1
      <3> QED BY <3>1, <3>2
    <2> QED BY <2>2, <2>4, <2>5, <2>6, <2>10, <2>11
  <1>4. WordsOf(<<x>>) = x.words
    <2>1. <<>> \in Seq(X) /\ Append(<<>>, x) = <<x>> /\ x.words \in Nat
      OBVIOUS
    <2>2. WordsOf(Append(<<>>, x)) = WordsOf(<<>>) + x.words
      BY <1>3, <2>1
    <2> QED BY <1>2, <2>1, <2>2
  <1> QED BY <1>2, <1>3, <1>4

LEMMA NoWords == WordsOf(<<>>) = 0
  <1>1. DOMAIN <<>> = 1 .. 0 /\ 0 \in Nat
    OBVIOUS
  <1>2. PICK w : w[0] = 0 /\ w[0] = WordsOf(<<>>)
    BY <1>1, WordsChain
  <1> QED BY <1>2

LEMMA WordsAll ==
  ASSUME NEW X, \A x \in X : x.words \in Nat, NEW s \in Seq(X)
  PROVE  WordsOf(s) \in Nat
  <1>1. CASE s = <<>>
    <2>3. WordsOf(<<>>) = 0
      BY NoWords
    <2> QED BY <1>1, <2>3
  <1>2. CASE s # <<>>
    <2>1. Last(s) \in X
      BY <1>2, LastIs
    <2> QED BY <2>1, WordsAre
  <1> QED BY <1>1, <1>2

LEMMA WordsConcat ==
  ASSUME NEW X, \A x \in X : x.words \in Nat, NEW s \in Seq(X), NEW t \in Seq(X)
  PROVE  WordsOf(s \o t) = WordsOf(s) + WordsOf(t)
  <1> DEFINE P == {u \in Seq(X) : WordsOf(s \o u) = WordsOf(s) + WordsOf(u)}
  <1>1. <<>> \in P
    <2>1. s \o <<>> = s /\ <<>> \in Seq(X)
      OBVIOUS
    <2>2. WordsOf(s) \in Nat
      BY WordsAll
    <2>3. WordsOf(<<>>) = 0
      BY NoWords
    <2> QED BY <2>1, <2>2, <2>3
  <1>2. ASSUME NEW u \in Seq(X), NEW x \in X, u \in P PROVE Append(u, x) \in P
    <2>1. s \o Append(u, x) = Append(s \o u, x) /\ s \o u \in Seq(X) /\ Append(u, x) \in Seq(X)
      BY ConcatLaws
    <2>2. WordsOf(Append(s \o u, x)) = WordsOf(s \o u) + x.words
      BY <2>1, WordsAre
    <2>3. WordsOf(Append(u, x)) = WordsOf(u) + x.words /\ WordsOf(u) \in Nat
      BY WordsAre
    <2>4. WordsOf(s) \in Nat /\ x.words \in Nat
      BY WordsAll
    <2>5. WordsOf(s \o u) = WordsOf(s) + WordsOf(u)
      BY <1>2
    <2>6. WordsOf(s \o Append(u, x)) = WordsOf(s) + WordsOf(Append(u, x))
      BY <2>1, <2>2, <2>3, <2>4, <2>5
    <2> QED BY <2>1, <2>6
  <1>3. Seq(X) \subseteq P
    <2> HIDE DEF P
    <2> QED BY <1>1, <1>2, SeqInduction
  <1> QED BY <1>3

LEMMA MinExists ==
  ASSUME NEW S \in SUBSET Nat, S # {}
  PROVE  Min(S) \in S /\ \A y \in S : Min(S) <= y
  <1>1. PICK x \in S : \A y \in S : ~(<<y, x>> \in OpToRel(<, Nat))
    BY WFMin, NatLessThanWellFounded, Zenon
  <1>2. \A y \in S : y \in Nat /\ ~(y < x)
    BY <1>1 DEF OpToRel
  <1>3. x \in S /\ \A y \in S : x <= y
    BY <1>2
  <1> QED BY <1>3 DEF Min

LEMMA MaxExists ==
  ASSUME NEW n \in Nat, NEW S \in SUBSET (0 .. n), S # {}
  PROVE  Max(S) \in S /\ \A y \in S : y <= Max(S)
  <1> DEFINE T == {n - y : y \in S}
  <1>1. T \in SUBSET Nat /\ T # {}
    <2>1. \A y \in S : y \in 0 .. n /\ n - y \in Nat
      OBVIOUS
    <2> QED BY <2>1
  <1>2. Min(T) \in T /\ \A t \in T : Min(T) <= t
    <2> HIDE DEF T
    <2> QED BY <1>1, MinExists
  <1>3. PICK x \in S : Min(T) = n - x
    BY <1>2
  <1>4. \A y \in S : n - y \in T
    OBVIOUS
  <1>5. \A y \in S : n - x <= n - y
    <2> HIDE DEF T
    <2> QED BY <1>2, <1>3, <1>4
  <1>6. x \in S /\ \A y \in S : x >= y /\ x \in Nat /\ y \in Nat
    BY <1>5
  <1>7. Max(S) \in S /\ \A y \in S : Max(S) >= y
    BY <1>6 DEF Max
  <1> QED BY <1>7

-----------------------------------------------------------------------------
(* What the units of a document are, and how one follows another.          *)

\* A unit that is not cut has its own text, which no sentence of it has.
Spoken == {Refrain} \cup (Nat \X (Nat \ {0}))
Clauses == [text : Spoken, words : Nat]

Units ==
  {u \in [kind : DOMAIN Shape, at : Nat \ {0}, atom : Nat, sents : Seq(Clauses) \ {<<>>}] :
     u.kind = "heading" => u.atom = 0}

\* The order of the document; behind an exercise only a heading is free, and a table
\* belongs to nothing before it.
Follows(u, v) ==
  /\ u.at <= v.at
  /\ u.atom # 0 /\ u.kind \notin Tables /\ v.atom = 0 => v.kind = "heading"
  /\ Bound(u, v) => v.kind \notin Tables

Neighbours(X) == {x \in X \X X : Follows(x[1], x[2])}

\* A part of the document, and parts next to each other: bound or not; with what is bound
\* only where both are too large for one parent.
Parts == {g \in Seq(Units) \ {<<>>} : Linked(g, Neighbours(Units))}

Adjoin == {x \in Parts \X Parts : <<Last(x[1]), x[2][1]>> \in Neighbours(Units)}
Free == {x \in Adjoin : ~Bound(Last(x[1]), x[2][1])}
Large == {x \in Adjoin : Whole(x[1]) + Whole(x[2]) > ParentMax}
Apart == {x \in Adjoin : x \in Free \/ x \in Large}

LEMMA CleanedAre ==
  ASSUME NEW K, NEW given \in Seq(K)
  PROVE  Cleaned(given) \in Seq(K)
  <1>1. PICK N \in Nat : N = Len(given) /\ DOMAIN given = 1 .. N /\ \A n \in 1 .. N : given[n] \in K
    OBVIOUS
  <1>2. PICK w : /\ w[0] = <<>> /\ w[N] = Cleaned(given)
                 /\ \A n \in 1 .. N : w[n] = Kept(w[n - 1], given[n])
    BY <1>1, CleanedChain
  <1> DEFINE G == {n \in Nat : n \in 0 .. N => w[n] \in Seq(K)}
  <1>3. 0 \in G
    <2>1. w[0] \in Seq(K)
      BY <1>2
    <2> QED BY <2>1
  <1>4. ASSUME NEW n \in Nat, n \in G PROVE n + 1 \in G
    <2>1. SUFFICES ASSUME n + 1 \in 0 .. N PROVE w[n + 1] \in Seq(K)
      OBVIOUS
    <2>2. n + 1 \in 1 .. N /\ n + 1 - 1 = n /\ n \in 0 .. N
      BY <2>1
    <2>3. w[n + 1] = Kept(w[n], given[n + 1]) /\ w[n] \in Seq(K) /\ given[n + 1] \in K
      BY <1>1, <1>2, <1>4, <2>2
    <2> QED BY <2>3 DEF Kept
  <1>5. N \in G
    <2> HIDE DEF G
    <2> QED BY <1>3, <1>4, SetInduction
  <1> QED BY <1>2, <1>5

LEMMA AtomIs ==
  ASSUME NEW K, NEW given \in Seq(K), NEW i \in 1 .. Len(given)
  PROVE  /\ Atom(given, i) \in Nat /\ Atom(given, i) <= i
         /\ given[i] = "heading" => Atom(given, i) = 0
         /\ given[i] \in Tables => Atom(given, i) = i
         /\ i + 1 \in 1 .. Len(given) =>
              /\ Atom(given, i) # 0 /\ given[i] \notin Tables /\ Atom(given, i + 1) = 0
                   => given[i + 1] = "heading"
              /\ given[i + 1] \in Tables => Atom(given, i + 1) # Atom(given, i)
  <1> DEFINE Begin(j) == {k \in 1 .. j : given[k] \in Starts /\ \A l \in k .. j : given[l] # "heading"}
  <1>1. ASSUME NEW j \in 1 .. Len(given)
        PROVE  /\ Atom(given, j) = IF given[j] \in Tables THEN j
                                   ELSE IF given[j] # "heading" /\ Begin(j) # {} THEN Max(Begin(j)) ELSE 0
               /\ Begin(j) # {} => Max(Begin(j)) \in Nat \ {0} /\ Max(Begin(j)) <= j
    <2>1. Begin(j) \in SUBSET (0 .. j) /\ j \in Nat
      OBVIOUS
    <2>2. Begin(j) # {} => Max(Begin(j)) \in Begin(j)
      <3> HIDE DEF Begin
      <3> QED BY <2>1, MaxExists
    <2>3. Begin(j) # {} => Max(Begin(j)) \in 1 .. j
      BY <2>2
    <2>4. Begin(j) # {} => Max(Begin(j)) \in Nat \ {0} /\ Max(Begin(j)) <= j
      <3> HIDE DEF Begin
      <3> QED BY <2>3
    <2>5. Atom(given, j) = IF given[j] \in Tables THEN j
                           ELSE IF given[j] # "heading" /\ Begin(j) # {} THEN Max(Begin(j)) ELSE 0
      BY Zenon DEF Atom
    <2> QED BY <2>4, <2>5
  <1>2. "heading" \notin Tables
    BY DEF Tables
  <1>3. ASSUME i + 1 \in 1 .. Len(given), Begin(i) # {}, given[i + 1] # "heading"
        PROVE  Begin(i + 1) # {}
    <2>1. PICK k \in Begin(i) : TRUE
      BY <1>3
    <2>2. \A l \in k .. i + 1 : l \in k .. i \/ l = i + 1
      OBVIOUS
    <2>3. k \in 1 .. i + 1 /\ given[k] \in Starts /\ \A l \in k .. i + 1 : given[l] # "heading"
      BY <1>3, <2>1, <2>2
    <2> QED BY <2>3
  <1> HIDE DEF Begin
  <1>4. Atom(given, i) \in Nat /\ Atom(given, i) <= i
    BY <1>1
  <1>5. (given[i] = "heading" => Atom(given, i) = 0) /\ (given[i] \in Tables => Atom(given, i) = i)
    BY <1>1, <1>2
  <1>6. ASSUME i + 1 \in 1 .. Len(given), Atom(given, i) # 0, given[i] \notin Tables, Atom(given, i + 1) = 0
        PROVE  given[i + 1] = "heading"
    <2>1. Begin(i) # {}
      BY <1>1, <1>6
    <2>2. SUFFICES ASSUME given[i + 1] # "heading" PROVE FALSE
      OBVIOUS
    <2>3. Begin(i + 1) # {}
      BY <1>3, <1>6, <2>1, <2>2
    <2>4. i + 1 # 0
      OBVIOUS
    <2> QED BY <1>1, <1>6, <2>2, <2>3, <2>4
  <1>7. ASSUME i + 1 \in 1 .. Len(given), given[i + 1] \in Tables
        PROVE  Atom(given, i + 1) # Atom(given, i)
    <2>1. Atom(given, i + 1) = i + 1
      BY <1>1, <1>7
    <2> QED BY <1>4, <2>1
  <1> QED BY <1>4, <1>5, <1>6, <1>7

LEMMA UnitIs ==
  ASSUME NEW kind \in DOMAIN Shape, NEW i \in Nat \ {0}, NEW a \in Nat, kind = "heading" => a = 0
  PROVE  Unit(kind, i, a) \in Units /\ Unit(kind, i, a).kind = kind
         /\ Unit(kind, i, a).at = i /\ Unit(kind, i, a).atom = a
  <1> DEFINE ss == [j \in DOMAIN Shape[kind] |-> [text |-> Text(kind, i, j), words |-> Shape[kind][j]]]
  <1>1. PICK N \in Nat \ {0} : DOMAIN Shape[kind] = 1 .. N /\ \A j \in 1 .. N : Shape[kind][j] \in Nat
    <2>1. Shape[kind] \in Seq(Nat \ {0}) /\ Shape[kind] # <<>>
      BY SizesAssumption
    <2>2. Len(Shape[kind]) \in Nat \ {0}
      BY <2>1, LastIs
    <2> QED BY <2>1, <2>2
  <1>2. \A j \in 1 .. N : Text(kind, i, j) \in Spoken
    BY DEF Text, Spoken
  <1>3. \A j \in 1 .. N : [text |-> Text(kind, i, j), words |-> Shape[kind][j]] \in Clauses
    BY <1>1, <1>2 DEF Clauses
  <1>4. ss \in [1 .. N -> Clauses]
    BY <1>1, <1>3
  <1>5. ss \in Seq(Clauses) /\ Len(ss) = N
    <2> HIDE DEF ss
    <2> QED BY <1>4
  <1>6. ss # <<>>
    <2> HIDE DEF ss
    <2> QED BY <1>5
  <1>7. Unit(kind, i, a) = [kind |-> kind, at |-> i, atom |-> a, sents |-> ss]
    BY DEF Unit
  <1> HIDE DEF ss
  <1> QED BY <1>5, <1>6, <1>7 DEF Units

LEMMA ParagraphsAre ==
  ASSUME NEW given \in Seq(DOMAIN Shape), given # <<>>
  PROVE  Paragraphs(given) \in Parts
  <1> DEFINE ps == Paragraphs(given)
             N == Len(given)
  <1>1. N \in Nat \ {0} /\ DOMAIN given = 1 .. N /\ \A i \in 1 .. N : given[i] \in DOMAIN Shape
    BY LastIs
  <1>2. ps = [i \in 1 .. N |-> Unit(given[i], i, Atom(given, i))]
    BY <1>1 DEF Paragraphs
  <1> HIDE DEF ps
  <1>3. \A i \in 1 .. N : /\ ps[i] \in Units /\ ps[i].kind = given[i] /\ ps[i].at = i
                          /\ ps[i].atom = Atom(given, i)
    <2>1. TAKE i \in 1 .. N
    <2>2. ps[i] = Unit(given[i], i, Atom(given, i))
      BY <1>2
    <2>3. Atom(given, i) \in Nat /\ (given[i] = "heading" => Atom(given, i) = 0)
      BY AtomIs
    <2>4. given[i] \in DOMAIN Shape /\ i \in Nat \ {0}
      BY <1>1
    <2> QED BY <2>2, <2>3, <2>4, UnitIs
  <1>4. ps \in [1 .. N -> Units]
    BY <1>2, <1>3
  <1>5. ps \in Seq(Units) /\ Len(ps) = N
    BY <1>1, <1>4
  <1>6. ASSUME NEW i \in 1 .. N - 1 PROVE <<ps[i], ps[i + 1]>> \in Neighbours(Units)
    <2>1. i \in 1 .. N /\ i + 1 \in 1 .. N
      BY <1>1
    <2>2. /\ Atom(given, i) # 0 /\ given[i] \notin Tables /\ Atom(given, i + 1) = 0
                   => given[i + 1] = "heading"
          /\ given[i + 1] \in Tables => Atom(given, i + 1) # Atom(given, i)
      BY <2>1, AtomIs
    <2>3. Follows(ps[i], ps[i + 1])
      BY <1>3, <2>1, <2>2 DEF Follows, Bound
    <2> QED BY <1>3, <2>1, <2>3 DEF Neighbours
  <1>7. ps # <<>>
    BY <1>1, <1>5
  <1> QED BY <1>5, <1>6, <1>7 DEF Parts, Linked, ps

-----------------------------------------------------------------------------
(* The parents.                                                            *)

\* The last element of a sequence is changed to one that may follow what it followed.
LEMMA LinkedLast ==
  ASSUME NEW X, NEW R, NEW gs \in Seq(X), gs # <<>>, Linked(gs, R), NEW h \in X,
         \A x \in X : <<x, Last(gs)>> \in R => <<x, h>> \in R
  PROVE  /\ Front(gs) \o <<h>> \in Seq(X) /\ Front(gs) \o <<h>> = Append(Front(gs), h)
         /\ Linked(Front(gs) \o <<h>>, R) /\ Last(Front(gs) \o <<h>>) = h
         /\ Front(gs) \o <<h>> # <<>>
         /\ (Front(gs) \o <<h>>)[1] = h \/ (Front(gs) \o <<h>>)[1] = gs[1]
         /\ Len(gs) = 1 => (Front(gs) \o <<h>>)[1] = h
  <1>1. PICK f \in Seq(X), l \in X : /\ f = Front(gs) /\ l = Last(gs) /\ gs = Append(f, l)
                                     /\ Len(f) = Len(gs) - 1
    BY LastIs
  <1>2. Linked(f, R) /\ (f # <<>> => <<Last(f), l>> \in R)
    <2>1. Linked(Append(f, l), R)
      BY <1>1
    <2> QED BY <2>1, LinkedAppend
  <1>3. f # <<>> => <<Last(f), h>> \in R
    <2>1. f # <<>> => Last(f) \in X
      BY LastIs
    <2> QED BY <1>1, <1>2, <2>1
  <1>4. f \o <<h>> = Append(f, h) /\ Append(f, h) \in Seq(X)
    BY ConcatLaws
  <1>5. Linked(Append(f, h), R)
    BY <1>2, <1>3, LinkedAppend
  <1>6. /\ Append(f, h) # <<>> /\ Last(Append(f, h)) = h
        /\ (f = <<>> => Append(f, h)[1] = h) /\ (f # <<>> => Append(f, h)[1] = f[1])
    BY AppendEnds
  <1>7. f # <<>> => f[1] = gs[1]
    <2>1. f # <<>> => Append(f, l)[1] = f[1]
      BY AppendEnds
    <2> QED BY <1>1, <2>1
  <1>8. Len(gs) = 1 => f = <<>>
    <2>1. Len(gs) = 1 => Len(f) = 0
      BY <1>1
    <2> QED BY <2>1, EmptyIs, TypedIs
  <1> QED BY <1>1, <1>4, <1>5, <1>6, <1>7, <1>8

LEMMA PartsAre ==
  ASSUME NEW g \in Parts
  PROVE  /\ g \in Seq(Units) /\ g # <<>> /\ Linked(g, Neighbours(Units))
         /\ Last(g) \in Units /\ g[1] \in Units
         /\ \A u \in Units : /\ <<u>> \in Parts /\ <<u>>[1] = u /\ Last(<<u>>) = u
                             /\ <<Last(g), u>> \in Neighbours(Units) =>
                                  /\ Append(g, u) \in Parts /\ Append(g, u)[1] = g[1]
                                  /\ Last(Append(g, u)) = u
         /\ \A h \in Parts : <<Last(g), h[1]>> \in Neighbours(Units) =>
                               /\ g \o h \in Parts /\ (g \o h)[1] = g[1]
                               /\ Last(g \o h) = Last(h)
  <1>1. g \in Seq(Units) /\ g # <<>> /\ Linked(g, Neighbours(Units))
    BY DEF Parts
  <1>2. Last(g) \in Units /\ g[1] \in Units
    <2>1. Len(g) \in Nat \ {0} /\ Last(g) \in Units
      BY <1>1, LastIs
    <2> QED BY <1>1, <2>1
  <1>3. ASSUME NEW u \in Units
        PROVE  /\ <<u>> \in Parts /\ <<u>>[1] = u /\ Last(<<u>>) = u
               /\ <<Last(g), u>> \in Neighbours(Units) =>
                                  /\ Append(g, u) \in Parts /\ Append(g, u)[1] = g[1]
                                  /\ Last(Append(g, u)) = u
    <2>1. /\ Append(g, u) # <<>> /\ Last(Append(g, u)) = u /\ Append(g, u)[1] = g[1]
          /\ <<u>> # <<>> /\ Last(<<u>>) = u /\ <<u>>[1] = u
      BY <1>1, AppendEnds
    <2>2. /\ Linked(<<u>>, Neighbours(Units))
          /\ <<Last(g), u>> \in Neighbours(Units) => Linked(Append(g, u), Neighbours(Units))
      BY <1>1, LinkedAppend
    <2>3. Append(g, u) \in Seq(Units) /\ <<u>> \in Seq(Units)
      BY <1>1, ConcatLaws
    <2> QED BY <2>1, <2>2, <2>3 DEF Parts
  <1>4. ASSUME NEW h \in Parts, <<Last(g), h[1]>> \in Neighbours(Units)
        PROVE  g \o h \in Parts /\ (g \o h)[1] = g[1] /\ Last(g \o h) = Last(h)
    <2>1. h \in Seq(Units) /\ h # <<>> /\ Linked(h, Neighbours(Units))
      BY DEF Parts
    <2>2. g \o h \in Seq(Units)
      BY <1>1, <2>1
    <2>3. Last(g \o h) = Last(h) /\ (g \o h)[1] = g[1] /\ g \o h # <<>>
      BY <1>1, <2>1, ConcatEnds
    <2>4. Linked(g \o h, Neighbours(Units))
      BY <1>1, <1>4, <2>1, LinkedConcat
    <2> QED BY <2>2, <2>3, <2>4 DEF Parts
  <1> QED BY <1>1, <1>2, <1>3, <1>4

\* What may come next is known by its first unit.
ByFirst(R) ==
  /\ R \subseteq Adjoin
  /\ \A a, g, h \in Parts : <<a, g>> \in R /\ h[1] = g[1] => <<a, h>> \in R

LEMMA UnitAlone ==
  ASSUME NEW u \in Units
  PROVE  <<u>> \in Parts /\ <<u>>[1] = u /\ Last(<<u>>) = u
  <1>1. <<u>> \in Seq(Units) /\ <<u>> # <<>> /\ Last(<<u>>) = u /\ <<u>>[1] = u
    <2>1. <<>> \in Seq(Units) /\ <<u>> \in Seq(Units)
      OBVIOUS
    <2> QED BY <2>1, AppendEnds
  <1>2. Linked(<<u>>, Neighbours(Units))
    <2>1. <<>> \in Seq(Units)
      OBVIOUS
    <2> QED BY <2>1, LinkedAppend
  <1> QED BY <1>1, <1>2 DEF Parts

\* A part more, or more in the last one.
LEMMA PartNew ==
  ASSUME NEW R, NEW gs \in Seq(Parts), Linked(gs, R), NEW v \in Parts,
         gs # <<>> => <<Last(gs), v>> \in R
  PROVE  /\ Append(gs, v) \in Seq(Parts) /\ Linked(Append(gs, v), R) /\ Append(gs, v) # <<>>
         /\ Last(Append(gs, v)) = v
         /\ gs = <<>> => Append(gs, v)[1] = v
         /\ gs # <<>> => Append(gs, v)[1] = gs[1]
  <1>1. /\ Append(gs, v) # <<>> /\ Last(Append(gs, v)) = v /\ (gs = <<>> => Append(gs, v)[1] = v)
        /\ (gs # <<>> => Append(gs, v)[1] = gs[1])
    BY AppendEnds
  <1>2. Linked(Append(gs, v), R)
    BY LinkedAppend
  <1>3. Append(gs, v) \in Seq(Parts)
    OBVIOUS
  <1> QED BY <1>1, <1>2, <1>3

LEMMA PartMore ==
  ASSUME NEW R, ByFirst(R), NEW gs \in Seq(Parts), gs # <<>>, Linked(gs, R), NEW h \in Parts,
         h[1] = Last(gs)[1]
  PROVE  /\ Front(gs) \o <<h>> \in Seq(Parts) /\ Linked(Front(gs) \o <<h>>, R)
         /\ Front(gs) \o <<h>> # <<>> /\ Last(Front(gs) \o <<h>>) = h
         /\ Front(gs) \o <<h>> = Append(Front(gs), h)
         /\ (Front(gs) \o <<h>>)[1][1] = gs[1][1]
  <1>1. PICK l \in Parts : l = Last(gs)
    BY LastIs
  <1>2. \A x \in Parts : <<x, Last(gs)>> \in R => <<x, h>> \in R
    BY <1>1 DEF ByFirst
  <1>3. /\ Front(gs) \o <<h>> \in Seq(Parts) /\ Front(gs) \o <<h>> = Append(Front(gs), h)
        /\ Linked(Front(gs) \o <<h>>, R) /\ Last(Front(gs) \o <<h>>) = h
        /\ Front(gs) \o <<h>> # <<>>
        /\ (Front(gs) \o <<h>>)[1] = h \/ (Front(gs) \o <<h>>)[1] = gs[1]
        /\ Len(gs) = 1 => (Front(gs) \o <<h>>)[1] = h
    BY <1>2, LinkedLast
  <1>4. (Front(gs) \o <<h>>)[1][1] = gs[1][1]
    <2>1. CASE Len(gs) = 1
      <3>1. l = gs[1]
        BY <1>1, <2>1, LastIs
      <3> QED BY <1>1, <1>3, <2>1, <3>1
    <2>2. CASE Len(gs) # 1
      <3>1. PICK f \in Seq(Parts) : /\ f = Front(gs) /\ Len(f) = Len(gs) - 1 /\ gs = Append(f, l)
                                    /\ Len(gs) \in Nat \ {0}
        BY <1>1, LastIs
      <3>2. f # <<>>
        BY <2>2, <3>1, EmptyIs
      <3>3. Append(f, h)[1] = f[1] /\ Append(f, l)[1] = f[1]
        BY <3>2, AppendEnds
      <3> QED BY <1>3, <3>1, <3>3
    <2> QED BY <2>1, <2>2
  <1> QED BY <1>3, <1>4

LEMMA FreeByFirst == ByFirst(Free) /\ ByFirst(Adjoin)
  BY DEF ByFirst, Free, Adjoin

LEMMA SplitIs ==
  ASSUME NEW units \in Parts, NEW cuts \in Cuts(units)
  PROVE  Split(units, cuts) \in Seq(Parts) /\ Linked(Split(units, cuts), Free)
  <1>1. PICK N \in Nat \ {0} : /\ N = Len(units) /\ DOMAIN units = 1 .. N
                               /\ \A n \in 1 .. N : units[n] \in Units
                               /\ \A n \in 1 .. N - 1 : <<units[n], units[n + 1]>> \in Neighbours(Units)
    <2>1. units \in Seq(Units) /\ units # <<>> /\ Linked(units, Neighbours(Units))
      BY PartsAre
    <2>2. Len(units) \in Nat \ {0}
      BY <2>1, LastIs
    <2> QED BY <2>1, <2>2 DEF Linked
  <1>2. PICK w : /\ w[0] = <<>> /\ w[N] = Split(units, cuts)
                 /\ \A n \in 1 .. N : w[n] = Placed(w[n - 1], units[n], n \in cuts)
    <2>1. N \in Nat /\ DOMAIN units = 1 .. N
      BY <1>1
    <2> QED BY <2>1, SplitChain, Zenon
  <1>4. \A n \in cuts : n \in 2 .. N /\ ~Bound(units[n - 1], units[n])
    BY <1>1 DEF Cuts
  <1> DEFINE Good(n) == /\ w[n] \in Seq(Parts) /\ Linked(w[n], Free)
                        /\ n # 0 => w[n] # <<>> /\ Last(Last(w[n])) = units[n]
             G == {n \in Nat : n \in 0 .. N => Good(n)}
  <1>5. 0 \in G
    <2>1. w[0] \in Seq(Parts) /\ Linked(w[0], Free)
      BY <1>2 DEF Linked
    <2> QED BY <2>1
  <1>6. ASSUME NEW n \in Nat, n \in G PROVE n + 1 \in G
    <2>1. SUFFICES ASSUME n + 1 \in 0 .. N PROVE Good(n + 1)
      OBVIOUS
    <2>2. n + 1 \in 1 .. N /\ n + 1 - 1 = n /\ n \in 0 .. N /\ n + 1 # 0
      BY <2>1
    <2>3. Good(n)
      BY <1>6, <2>2
    <2>4. w[n + 1] = Placed(w[n], units[n + 1], n + 1 \in cuts) /\ units[n + 1] \in Units
      BY <1>1, <1>2, <2>2
    <2>5. w[n] # <<>> => n # 0
      BY <1>2
    <2>6. n # 0 => <<units[n], units[n + 1]>> \in Neighbours(Units)
      BY <1>1, <2>2
    <2>7. w[n] # <<>> => <<Last(Last(w[n])), units[n + 1]>> \in Neighbours(Units)
      BY <2>3, <2>5, <2>6
    <2>8. PICK gs \in Seq(Parts), u \in Units : gs = w[n] /\ u = units[n + 1] /\ Linked(gs, Free)
      BY <2>3, <2>4
    <2>9. CASE gs = <<>> \/ n + 1 \in cuts
      <3>1. PICK v \in Parts : v = <<u>> /\ v[1] = u /\ Last(v) = u
        BY UnitAlone
      <3>2. ASSUME gs # <<>> PROVE <<Last(gs), v>> \in Free
        <4>1. PICK l \in Parts : l = Last(gs)
          BY <3>2, LastIs
        <4>2. ~Bound(Last(l), u)
          BY <1>4, <2>2, <2>3, <2>5, <2>8, <2>9, <3>2, <4>1
        <4> QED BY <2>7, <2>8, <3>1, <3>2, <4>1, <4>2 DEF Free, Adjoin
      <3>3. /\ Append(gs, v) \in Seq(Parts) /\ Linked(Append(gs, v), Free) /\ Append(gs, v) # <<>>
            /\ Last(Append(gs, v)) = v
        BY <2>8, <3>2, PartNew
      <3>4. w[n + 1] = Append(gs, v)
        BY <2>4, <2>8, <2>9, <3>1 DEF Placed
      <3> QED BY <2>8, <3>1, <3>3, <3>4
    <2>10. CASE ~(gs = <<>> \/ n + 1 \in cuts)
      <3>1. PICK l \in Parts : l = Last(gs)
        BY <2>10, LastIs
      <3>2. PICK h \in Parts : h = Append(l, u) /\ h[1] = l[1] /\ Last(h) = u
        <4>1. <<Last(l), u>> \in Neighbours(Units)
          BY <2>7, <2>8, <2>10, <3>1
        <4> QED BY <4>1, PartsAre
      <3>3. /\ Front(gs) \o <<h>> \in Seq(Parts) /\ Linked(Front(gs) \o <<h>>, Free)
            /\ Front(gs) \o <<h>> # <<>> /\ Last(Front(gs) \o <<h>>) = h
        BY <2>8, <2>10, <3>1, <3>2, PartMore, FreeByFirst
      <3>4. w[n + 1] = Front(gs) \o <<h>>
        BY <2>4, <2>8, <2>10, <3>1, <3>2 DEF Placed
      <3> QED BY <2>8, <3>2, <3>3, <3>4
    <2> QED BY <2>9, <2>10
  <1>7. N \in G
    <2> HIDE DEF G
    <2> QED BY <1>5, <1>6, SetInduction
  <1> QED BY <1>1, <1>2, <1>7

LEMMA MergedIs ==
  ASSUME NEW groups \in Seq(Parts), Linked(groups, Free)
  PROVE  Merged(groups) \in Seq(Parts) /\ Linked(Merged(groups), Free)
  <1> DEFINE N == Len(groups)
             joined == FoldLeft(Joined, <<>>, groups)
  <1>1. /\ N \in Nat /\ DOMAIN groups = 1 .. N /\ \A n \in 1 .. N : groups[n] \in Parts
        /\ \A n \in 1 .. N - 1 : <<groups[n], groups[n + 1]>> \in Free
    BY DEF Linked
  <1>2. PICK w : /\ w[0] = <<>> /\ w[N] = joined
                 /\ \A n \in 1 .. N : w[n] = Joined(w[n - 1], groups[n])
    <2>1. N \in Nat /\ DOMAIN groups = 1 .. N
      BY <1>1
    <2> QED BY <2>1, JoinChain
  <1> DEFINE Good(n) == /\ w[n] \in Seq(Parts) /\ Linked(w[n], Free)
                        /\ n # 0 => w[n] # <<>> /\ Last(Last(w[n])) = Last(groups[n])
             G == {n \in Nat : n \in 0 .. N => Good(n)}
  <1> HIDE DEF N, joined
  <1>3. 0 \in G
    <2>1. w[0] \in Seq(Parts) /\ Linked(w[0], Free)
      BY <1>2 DEF Linked
    <2> QED BY <2>1
  <1>4. ASSUME NEW n \in Nat, n \in G PROVE n + 1 \in G
    <2>1. SUFFICES ASSUME n + 1 \in 0 .. N PROVE Good(n + 1)
      OBVIOUS
    <2>2. n + 1 \in 1 .. N /\ n + 1 - 1 = n /\ n \in 0 .. N /\ n + 1 # 0
      BY <1>1, <2>1
    <2>3. Good(n)
      BY <1>4, <2>2
    <2>4. w[n + 1] = Joined(w[n], groups[n + 1])
      BY <1>2, <2>2
    <2>5. PICK gs \in Seq(Parts), g \in Parts : gs = w[n] /\ g = groups[n + 1] /\ Linked(gs, Free)
      BY <1>1, <2>2, <2>3
    <2>6. gs # <<>> => n # 0
      BY <1>2, <2>5
    <2>7. n # 0 => n \in 1 .. N - 1
      BY <1>1, <2>2
    <2>8. ASSUME gs # <<>>
          PROVE  /\ Last(gs) \in Parts /\ <<Last(gs), g>> \in Free
                 /\ <<Last(Last(gs)), g[1]>> \in Neighbours(Units)
      <3>1. <<groups[n], groups[n + 1]>> \in Free /\ Last(Last(gs)) = Last(groups[n])
        BY <1>1, <2>3, <2>5, <2>6, <2>7, <2>8
      <3>2. Last(gs) \in Parts
        BY <2>8, LastIs
      <3> QED BY <2>5, <3>1, <3>2 DEF Free, Adjoin
    <2>9. CASE gs # <<>> /\ Whole(g) < ParentMin
      <3>1. PICK l \in Parts : l = Last(gs)
        BY <2>8, <2>9
      <3>2. PICK h \in Parts : h = l \o g /\ h[1] = l[1] /\ Last(h) = Last(g)
        <4>1. <<Last(l), g[1]>> \in Neighbours(Units)
          BY <2>8, <2>9, <3>1
        <4> QED BY <4>1, PartsAre
      <3>3. /\ Front(gs) \o <<h>> \in Seq(Parts) /\ Linked(Front(gs) \o <<h>>, Free)
            /\ Front(gs) \o <<h>> # <<>> /\ Last(Front(gs) \o <<h>>) = h
        BY <2>5, <2>9, <3>1, <3>2, PartMore, FreeByFirst
      <3>4. w[n + 1] = Front(gs) \o <<h>>
        BY <2>4, <2>5, <2>9, <3>1, <3>2 DEF Joined, LastTakes
      <3> QED BY <2>5, <3>2, <3>3, <3>4
    <2>10. CASE ~(gs # <<>> /\ Whole(g) < ParentMin)
      <3>1. /\ Append(gs, g) \in Seq(Parts) /\ Linked(Append(gs, g), Free) /\ Append(gs, g) # <<>>
            /\ Last(Append(gs, g)) = g
        BY <2>5, <2>8, PartNew
      <3>2. w[n + 1] = Append(gs, g)
        BY <2>4, <2>5, <2>10 DEF Joined
      <3> QED BY <2>5, <3>1, <3>2
    <2> QED BY <2>9, <2>10
  <1>5. N \in G
    <2> HIDE DEF G
    <2> QED BY <1>1, <1>3, <1>4, SetInduction
  <1>6. PICK gs \in Seq(Parts) : gs = joined /\ Linked(gs, Free)
    BY <1>1, <1>2, <1>5
  <1>7. ASSUME Len(gs) >= 2
        PROVE  FirstTakes(gs) \in Seq(Parts) /\ Linked(FirstTakes(gs), Free)
    <2>1. /\ Len(gs) \in Nat /\ gs[1] \in Parts /\ gs[2] \in Parts
          /\ \A i \in 1 .. Len(gs) - 1 : <<gs[i], gs[i + 1]>> \in Free
      BY <1>6, <1>7 DEF Linked
    <2>2. 1 \in 1 .. Len(gs) - 1 /\ 1 + 1 = 2
      BY <1>7, <2>1
    <2>3. <<gs[1], gs[2]>> \in Free
      BY <2>1, <2>2
    <2>4. PICK h \in Parts : h = gs[1] \o gs[2] /\ Last(h) = Last(gs[2])
      <3>1. <<Last(gs[1]), gs[2][1]>> \in Neighbours(Units)
        BY <2>3 DEF Free, Adjoin
      <3>2. PICK a \in Parts, b \in Parts : a = gs[1] /\ b = gs[2]
        BY <2>1
      <3>3. a \o b \in Parts /\ Last(a \o b) = Last(b)
        BY <3>1, <3>2, PartsAre
      <3> QED BY <3>2, <3>3
    <2>5. PICK rest \in Seq(Parts) : /\ rest = SubSeq(gs, 3, Len(gs)) /\ Len(rest) = Len(gs) - 2
                                     /\ \A i \in 1 .. Len(gs) - 2 : rest[i] = gs[i + 2]
      <3>1. 3 \in Nat \ {0} /\ 3 <= Len(gs) + 1 /\ Len(gs) <= Len(gs) /\ Len(gs) + 1 - 3 = Len(gs) - 2
        BY <1>7, <2>1
      <3>2. /\ SubSeq(gs, 3, Len(gs)) \in Seq(Parts) /\ Len(SubSeq(gs, 3, Len(gs))) = Len(gs) + 1 - 3
            /\ \A i \in 1 .. Len(gs) + 1 - 3 : SubSeq(gs, 3, Len(gs))[i] = gs[3 + i - 1]
        BY <2>1, <3>1, SubSeqIs
      <3>3. \A i \in 1 .. Len(gs) - 2 : 3 + i - 1 = i + 2
        BY <2>1
      <3>4. \A i \in 1 .. Len(gs) - 2 : SubSeq(gs, 3, Len(gs))[i] = gs[i + 2]
        BY <3>1, <3>2, <3>3
      <3> QED BY <3>1, <3>2, <3>4
    <2>6. FirstTakes(gs) = <<h>> \o rest
      BY <2>4, <2>5 DEF FirstTakes
    <2>7. \A i \in 1 .. Len(rest) - 1 : <<rest[i], rest[i + 1]>> \in Free
      <3>1. \A i \in 1 .. Len(rest) - 1 : i \in 1 .. Len(gs) - 2 /\ i + 1 \in 1 .. Len(gs) - 2 /\ i + 2 \in 1 .. Len(gs) - 1
                                          /\ i + 1 + 2 = i + 2 + 1
        BY <2>1, <2>5
      <3> QED BY <2>1, <2>5, <3>1
    <2>8. rest # <<>> => <<h, rest[1]>> \in Free
      <3>1. ASSUME rest # <<>> PROVE 2 \in 1 .. Len(gs) - 1 /\ rest[1] = gs[3]
        <4>1. Len(rest) \in Nat \ {0}
          BY <3>1, LastIs
        <4>2. 1 \in 1 .. Len(gs) - 2 /\ 1 + 2 = 3 /\ 2 \in 1 .. Len(gs) - 1
          BY <2>1, <2>5, <4>1
        <4> QED BY <2>5, <4>2
      <3>2. rest # <<>> => <<gs[2], gs[3]>> \in Free
        <4>1. 2 + 1 = 3
          OBVIOUS
        <4> QED BY <2>1, <3>1, <4>1
      <3>3. \A x \in Parts : <<gs[2], x>> \in Free => <<h, x>> \in Free
        BY <2>4 DEF Free, Adjoin
      <3>4. rest # <<>> => rest[1] \in Parts
        BY LastIs
      <3> QED BY <3>1, <3>2, <3>3, <3>4
    <2>9. Linked(rest, Free)
      BY <2>7 DEF Linked
    <2>10. <<h>> \in Seq(Parts) /\ Linked(<<h>>, Free) /\ <<h>> # <<>> /\ Last(<<h>>) = h
      <3>1. <<>> \in Seq(Parts)
        OBVIOUS
      <3> QED BY <3>1, LinkedAppend, AppendEnds, ConcatLaws
    <2>11. <<h>> \o rest \in Seq(Parts)
      BY <2>10
    <2>12. Linked(<<h>> \o rest, Free)
      BY <2>8, <2>9, <2>10, LinkedConcat
    <2> QED BY <2>6, <2>11, <2>12
  <1>8. Merged(groups) = IF Len(joined) >= 2 /\ Whole(joined[1]) < ParentMin THEN FirstTakes(joined) ELSE joined
    BY DEF Merged, joined
  <1> QED BY <1>6, <1>7, <1>8

\* The neighbours in what the elements of a sequence are turned into.
LEMMA SpreadLinked ==
  ASSUME NEW X, NEW Y, NEW f \in Maps(X, Y), \A x \in X : f[x] # <<>>, NEW us \in Seq(X), NEW R
  PROVE  /\ Linked(Spread(us, f), R) <=>
              /\ \A p \in 1 .. Len(us) : Linked(f[us[p]], R)
              /\ \A p \in 1 .. Len(us) - 1 : <<Last(f[us[p]]), f[us[p + 1]][1]>> \in R
         /\ us # <<>> => /\ Spread(us, f) # <<>> /\ Last(Spread(us, f)) = Last(f[Last(us)])
                         /\ Spread(us, f)[1] = f[us[1]][1]
         /\ \A p \in 1 .. Len(us) : ToSet(f[us[p]]) \subseteq ToSet(Spread(us, f))
  <1>1. PICK m : m = [i \in DOMAIN us |-> f[us[i]]]
    OBVIOUS
  <1>2. /\ m \in Seq(Seq(Y)) /\ Len(m) = Len(us) /\ DOMAIN us = 1 .. Len(us) /\ Len(us) \in Nat
        /\ \A i \in 1 .. Len(us) : m[i] = f[us[i]] /\ us[i] \in X
    BY <1>1, MappedIs
  <1>3. m \in Groups(Y)
    <2>1. \A i \in 1 .. Len(us) : m[i] \in Seq(Y) \ {<<>>}
      <3>1. \A i \in 1 .. Len(us) : m[i] \in Seq(Y)
        BY <1>2
      <3>2. \A i \in 1 .. Len(us) : m[i] # <<>>
        BY <1>2, Zenon
      <3> QED BY <3>1, <3>2
    <2>2. DOMAIN m = 1 .. Len(us) /\ m = [i \in 1 .. Len(us) |-> m[i]]
      BY <1>1, <1>2
    <2> QED BY <1>2, <2>1, <2>2 DEF Groups
  <1>4. Spread(us, f) = FlattenSeq(m)
    BY <1>1 DEF Spread
  <1>5. /\ Linked(FlattenSeq(m), R) <=>
              /\ \A p \in 1 .. Len(m) : Linked(m[p], R)
              /\ \A p \in 1 .. Len(m) - 1 : <<Last(m[p]), m[p + 1][1]>> \in R
        /\ m # <<>> => /\ FlattenSeq(m) # <<>> /\ Last(FlattenSeq(m)) = Last(Last(m))
                       /\ FlattenSeq(m)[1] = m[1][1]
    BY <1>3, FlattenLinked
  <1>6. \A p \in 1 .. Len(us) - 1 : p \in 1 .. Len(us) /\ p + 1 \in 1 .. Len(us)
    BY <1>2
  <1>7. Linked(Spread(us, f), R) <=>
          /\ \A p \in 1 .. Len(us) : Linked(f[us[p]], R)
          /\ \A p \in 1 .. Len(us) - 1 : <<Last(f[us[p]]), f[us[p + 1]][1]>> \in R
    <2>1. (\A p \in 1 .. Len(us) : Linked(m[p], R)) <=> (\A p \in 1 .. Len(us) : Linked(f[us[p]], R))
      BY <1>2
    <2>2. (\A p \in 1 .. Len(us) - 1 : <<Last(m[p]), m[p + 1][1]>> \in R) <=>
          (\A p \in 1 .. Len(us) - 1 : <<Last(f[us[p]]), f[us[p + 1]][1]>> \in R)
      BY <1>2, <1>6
    <2> QED BY <1>2, <1>4, <1>5, <2>1, <2>2, Zenon
  <1>8. ASSUME us # <<>>
        PROVE  /\ Spread(us, f) # <<>> /\ Last(Spread(us, f)) = Last(f[Last(us)])
               /\ Spread(us, f)[1] = f[us[1]][1]
    <2>1. Len(us) \in Nat \ {0} /\ Last(us) = us[Len(us)]
      BY <1>8, LastIs
    <2>2. m # <<>>
      BY <1>2, <2>1, EmptyIs
    <2>3. Last(m) = m[Len(m)]
      BY <1>2, <2>2, LastIs
    <2>4. 1 \in 1 .. Len(us) /\ Len(us) \in 1 .. Len(us)
      BY <2>1
    <2>5. Last(m) = f[Last(us)] /\ m[1] = f[us[1]]
      BY <1>2, <2>1, <2>3, <2>4
    <2> QED BY <1>4, <1>5, <2>2, <2>5, Zenon
  <1>9. ASSUME NEW p \in 1 .. Len(us) PROVE ToSet(f[us[p]]) \subseteq ToSet(Spread(us, f))
    <2>1. IsSeq(m) /\ DOMAIN m = 1 .. Len(us) /\ \A i \in DOMAIN m : IsSeq(m[i])
      <3>1. \A i \in 1 .. Len(us) : m[i] \in Seq(Y)
        BY <1>2
      <3>2. DOMAIN m = 1 .. Len(us)
        BY <1>1, <1>2
      <3> QED BY <1>2, <3>1, <3>2, TypedIs
    <2>2. ToSet(FlattenSeq(m)) = UNION {ToSet(m[i]) : i \in DOMAIN m}
      BY <2>1, FlattenIs
    <2>3. ToSet(m[p]) \subseteq ToSet(FlattenSeq(m))
      BY <2>1, <2>2
    <2> QED BY <1>2, <1>4, <2>3
  <1> QED BY <1>7, <1>8, <1>9

\* The words of units.
SentsOf == [u \in Units |-> u.sents]

LEMMA SentsAre ==
  /\ SentsOf \in Maps(Units, Clauses) /\ \A u \in Units : SentsOf[u] = u.sents /\ u.sents # <<>>
  /\ \A c \in Clauses : c.words \in Nat
  BY DEF SentsOf, Maps, Units, Clauses

LEMMA WholeIs ==
  ASSUME NEW g \in Seq(Units)
  PROVE  /\ Whole(g) \in Nat
         /\ \A u \in Units : /\ WordsOf(u.sents) \in Nat /\ Whole(<<u>>) = WordsOf(u.sents)
                             /\ Whole(Append(g, u)) = Whole(g) + WordsOf(u.sents)
         /\ \A h \in Seq(Units) : Whole(g \o h) = Whole(g) + Whole(h)
  <1>1. ASSUME NEW s \in Seq(Units) PROVE Whole(s) = WordsOf(Spread(s, SentsOf))
    <2>1. \A i \in DOMAIN s : s[i].sents = SentsOf[s[i]]
      <3>1. \A i \in DOMAIN s : s[i] \in Units
        OBVIOUS
      <3> QED BY <3>1, SentsAre
    <2>2. [i \in DOMAIN s |-> s[i].sents] = [i \in DOMAIN s |-> SentsOf[s[i]]]
      BY <2>1, Zenon
    <2> QED BY <2>2, Zenon DEF Whole, Spread
  <1>2. ASSUME NEW s \in Seq(Units) PROVE Spread(s, SentsOf) \in Seq(Clauses)
    <2>1. CASE Units = {}
      <3>1. s = <<>> /\ <<>> \in Seq(Clauses)
        BY <2>1
      <3> QED BY <3>1, SpreadEmpty
    <2>2. CASE Units # {}
      BY <2>2, SentsAre, SpreadIs
    <2> QED BY <2>1, <2>2
  <1>3. ASSUME NEW u \in Units
        PROVE  /\ WordsOf(u.sents) \in Nat /\ Whole(<<u>>) = WordsOf(u.sents)
               /\ Whole(Append(g, u)) = Whole(g) + WordsOf(u.sents)
    <2>1. u.sents \in Seq(Clauses) /\ SentsOf[u] = u.sents
      BY SentsAre DEF Units
    <2>2. ASSUME NEW s \in Seq(Units)
          PROVE  Whole(Append(s, u)) = Whole(s) + WordsOf(u.sents)
      <3>1. Append(s, u) \in Seq(Units)
        OBVIOUS
      <3>2. Spread(Append(s, u), SentsOf) = Spread(s, SentsOf) \o SentsOf[u]
        BY SentsAre, SpreadIs
      <3>3. WordsOf(Spread(s, SentsOf) \o u.sents) = WordsOf(Spread(s, SentsOf)) + WordsOf(u.sents)
        BY <1>2, <2>1, SentsAre, WordsConcat
      <3> QED BY <1>1, <2>1, <3>1, <3>2, <3>3
    <2>3. <<>> \in Seq(Units) /\ Append(<<>>, u) = <<u>>
      OBVIOUS
    <2>4. Whole(<<>>) = 0
      <3>1. Whole(<<>>) = WordsOf(<<>>)
        BY <1>1, <2>3, SpreadEmpty
      <3>2. <<>> \in Seq(Clauses) /\ u.sents # <<>>
        BY SentsAre
      <3>3. Last(u.sents) \in Clauses
        BY <2>1, <3>2, LastIs
      <3> QED BY <3>1, <3>2, <3>3, SentsAre, WordsAre
    <2>5. WordsOf(u.sents) \in Nat
      BY <2>1, SentsAre, WordsAll
    <2>6. Whole(<<u>>) = WordsOf(u.sents)
      <3>1. Whole(Append(<<>>, u)) = Whole(<<>>) + WordsOf(u.sents)
        BY <2>2, <2>3
      <3> QED BY <2>3, <2>4, <2>5, <3>1
    <2> QED BY <2>2, <2>5, <2>6
  <1>4. ASSUME NEW h \in Seq(Units) PROVE Whole(g \o h) = Whole(g) + Whole(h)
    <2>1. g \o h \in Seq(Units)
      OBVIOUS
    <2>2. Spread(g \o h, SentsOf) = Spread(g, SentsOf) \o Spread(h, SentsOf)
      BY SentsAre, SpreadConcat
    <2>3. WordsOf(Spread(g, SentsOf) \o Spread(h, SentsOf)) = WordsOf(Spread(g, SentsOf)) + WordsOf(Spread(h, SentsOf))
      BY <1>2, SentsAre, WordsConcat
    <2> QED BY <1>1, <2>1, <2>2, <2>3
  <1>5. Whole(g) \in Nat
    BY <1>1, <1>2, SentsAre, WordsAll
  <1> QED BY <1>3, <1>4, <1>5

LEMMA FirstCounts ==
  ASSUME NEW g \in Parts
  PROVE  WordsOf(g[1].sents) <= Whole(g) /\ WordsOf(g[1].sents) \in Nat /\ Whole(g) \in Nat
  <1> DEFINE P == {s \in Seq(Units) : s # <<>> => WordsOf(s[1].sents) <= Whole(s)}
  <1>1. <<>> \in P
    OBVIOUS
  <1>2. ASSUME NEW s \in Seq(Units), NEW u \in Units, s \in P PROVE Append(s, u) \in P
    <2>1. /\ Whole(s) \in Nat /\ WordsOf(u.sents) \in Nat /\ Whole(<<u>>) = WordsOf(u.sents)
          /\ Whole(Append(s, u)) = Whole(s) + WordsOf(u.sents)
      BY WholeIs
    <2>2. /\ s = <<>> => Append(s, u)[1] = u
          /\ s # <<>> => Append(s, u)[1] = s[1]
      BY AppendEnds
    <2>3. CASE s = <<>>
      BY <2>1, <2>2, <2>3
    <2>4. CASE s # <<>>
      <3>1. s[1] \in Units
        <4>1. Len(s) \in Nat \ {0}
          BY <2>4, LastIs
        <4> QED BY <4>1
      <3>2. WordsOf(s[1].sents) \in Nat
        BY <3>1, WholeIs
      <3>3. WordsOf(s[1].sents) <= Whole(s)
        BY <1>2, <2>4
      <3>4. WordsOf(s[1].sents) <= Whole(s) + WordsOf(u.sents)
        BY <2>1, <3>2, <3>3
      <3>5. Append(s, u) \in Seq(Units) /\ Append(s, u)[1] = s[1]
        BY <2>2, <2>4
      <3>6. WordsOf(Append(s, u)[1].sents) <= Whole(Append(s, u))
        BY <2>1, <3>4, <3>5, Zenon
      <3> QED BY <3>5, <3>6
    <2> QED BY <2>3, <2>4
  <1>3. Seq(Units) \subseteq P
    <2> HIDE DEF P
    <2> QED BY <1>1, <1>2, SeqInduction
  <1>4. g \in Seq(Units) /\ g # <<>> /\ g[1] \in Units
    BY PartsAre
  <1>5. WordsOf(g[1].sents) <= Whole(g)
    BY <1>3, <1>4
  <1> QED BY <1>4, <1>5, WholeIs

\* Units that follow alike and are followed alike.
Alike(u, v) == u.kind = v.kind /\ u.at = v.at /\ u.atom = v.atom

LEMMA SomeWords ==
  ASSUME NEW s \in Seq(Clauses), WordsOf(s) > 0
  PROVE  \E i \in 1 .. Len(s) : s[i].words > 0
  <1> DEFINE P == {t \in Seq(Clauses) : WordsOf(t) = 0 \/ \E i \in 1 .. Len(t) : t[i].words > 0}
  <1>1. <<>> \in P
    <2>1. WordsOf(<<>>) = 0 /\ <<>> \in Seq(Clauses)
      BY NoWords
    <2> QED BY <2>1
  <1>2. ASSUME NEW t \in Seq(Clauses), NEW c \in Clauses, t \in P PROVE Append(t, c) \in P
    <2>1. /\ Append(t, c) \in Seq(Clauses) /\ Len(Append(t, c)) = Len(t) + 1 /\ Len(t) \in Nat
          /\ Append(t, c)[Len(t) + 1] = c /\ \A i \in 1 .. Len(t) : Append(t, c)[i] = t[i]
      OBVIOUS
    <2>2. WordsOf(t) \in Nat /\ WordsOf(Append(t, c)) = WordsOf(t) + c.words /\ c.words \in Nat
      BY SentsAre, WordsAre
    <2>3. CASE \E i \in 1 .. Len(t) : t[i].words > 0
      <3>1. \A i \in 1 .. Len(t) : i \in 1 .. Len(t) + 1
        BY <2>1
      <3> QED BY <2>1, <2>3, <3>1
    <2>4. CASE WordsOf(t) = 0 /\ c.words > 0
      <3>1. Len(t) + 1 \in 1 .. Len(t) + 1
        BY <2>1
      <3> QED BY <2>1, <2>4, <3>1
    <2>5. CASE WordsOf(t) = 0 /\ c.words = 0
      BY <2>1, <2>2, <2>5
    <2> QED BY <1>2, <2>2, <2>3, <2>4, <2>5
  <1>3. Seq(Clauses) \subseteq P
    <2> HIDE DEF P
    <2> QED BY <1>1, <1>2, SeqInduction
  <1> QED BY <1>3

LEMMA SlicesAre ==
  ASSUME NEW c \in Clauses
  PROVE  /\ Slices(c) \in Seq(Clauses)
         /\ c.words > 0 => Slices(c) # <<>>
  <1>1. ParentMax \in Nat \ {0} /\ c.words \in Nat /\ c.text \in Spoken /\ c = [text |-> c.text, words |-> c.words]
    BY SizesAssumption DEF Clauses
  <1> DEFINE N == (c.words + ParentMax - 1) \div ParentMax
             words(k) == IF c.words >= k * ParentMax THEN ParentMax ELSE c.words % ParentMax
  <1>2. N \in Nat
    BY <1>1
  <1>3. c.words > 0 => N > 0
    BY <1>1
  <1>4. \A k \in 1 .. N : [c EXCEPT !.words = words(k)] \in Clauses
    <2>1. \A k \in 1 .. N : words(k) \in Nat
      BY <1>1
    <2> HIDE DEF words
    <2> QED BY <1>1, <2>1 DEF Clauses
  <1>5. Slices(c) = [k \in 1 .. N |-> [c EXCEPT !.words = words(k)]]
    BY Zenon DEF Slices
  <1> HIDE DEF N, words
  <1>6. Slices(c) \in Seq(Clauses) /\ Len(Slices(c)) = N
    BY <1>2, <1>4, <1>5
  <1> QED BY <1>3, <1>6, EmptyIs

LEMMA PiecesAre ==
  ASSUME NEW u \in Units
  PROVE  Pieces(u) \in Parts /\ Alike(u, Pieces(u)[1]) /\ Alike(u, Last(Pieces(u)))
  <1>1. CASE u.atom # 0 \/ WordsOf(u.sents) <= ParentMax
    BY <1>1, UnitAlone DEF Pieces, Alike
  <1>2. CASE ~(u.atom # 0 \/ WordsOf(u.sents) <= ParentMax)
    <2> DEFINE cut == [j \in DOMAIN u.sents |-> Slices(u.sents[j])]
               slices == FlattenSeq(cut)
               ps == [k \in DOMAIN slices |->
                        [u EXCEPT !.sents = <<IF slices[k].text = Refrain THEN slices[k]
                                              ELSE [slices[k] EXCEPT !.text = <<u.at, k>>]>>]]
    <2>1. /\ u.sents \in Seq(Clauses) /\ Len(u.sents) \in Nat /\ DOMAIN u.sents = 1 .. Len(u.sents)
          /\ \A j \in 1 .. Len(u.sents) : u.sents[j] \in Clauses
      BY DEF Units
    <2>2. cut \in Seq(Seq(Clauses)) /\ DOMAIN cut = 1 .. Len(u.sents)
      <3>1. cut \in [1 .. Len(u.sents) -> Seq(Clauses)]
        BY <2>1, SlicesAre
      <3> HIDE DEF cut
      <3> QED BY <2>1, <3>1
    <2>3. slices \in Seq(Clauses) /\ Len(slices) \in Nat \ {0} /\ DOMAIN slices = 1 .. Len(slices)
      <3>1. slices \in Seq(Clauses)
        <4>1. <<>> \in Seq(Clauses)
          OBVIOUS
        <4> HIDE DEF cut
        <4> QED BY <2>2, <4>1, FlattenAppend
      <3>2. slices # <<>>
        <4>1. WordsOf(u.sents) > 0
          <5>1. WordsOf(u.sents) \in Nat /\ ParentMax \in Nat
            BY <2>1, SentsAre, WordsAll, SizesAssumption
          <5> QED BY <1>2, <5>1
        <4>2. PICK i \in 1 .. Len(u.sents) : u.sents[i].words > 0
          BY <2>1, <4>1, SomeWords
        <4>3. cut[i] \in Seq(Clauses) /\ cut[i] # <<>>
          BY <2>1, <4>2, SlicesAre
        <4> HIDE DEF cut
        <4>4. ToSet(cut[i]) # {}
          <5>1. Len(cut[i]) \in Nat \ {0} /\ DOMAIN cut[i] = 1 .. Len(cut[i])
            BY <4>3, LastIs
          <5>2. cut[i][1] \in ToSet(cut[i])
            BY <5>1 DEF ToSet
          <5> QED BY <5>2
        <4>5. IsSeq(cut) /\ \A j \in DOMAIN cut : IsSeq(cut[j])
          <5>1. \A j \in DOMAIN cut : cut[j] \in Seq(Clauses)
            BY <2>2
          <5> QED BY <2>2, <5>1, TypedIs
        <4>6. ToSet(slices) = UNION {ToSet(cut[j]) : j \in DOMAIN cut}
          BY <4>5, FlattenIs
        <4>7. ToSet(slices) # {}
          BY <2>2, <4>2, <4>4, <4>6
        <4> QED BY <4>7, EmptyIs
      <3> HIDE DEF slices
      <3> QED BY <3>1, <3>2, LastIs
    <2>4. Pieces(u) = ps
      BY <1>2, Zenon DEF Pieces
    <2>5. PICK M \in Nat \ {0} : M = Len(slices) /\ DOMAIN slices = 1 .. M /\ \A k \in 1 .. M : slices[k] \in Clauses
      <3> HIDE DEF slices
      <3>1. PICK M \in Nat \ {0} : M = Len(slices)
        BY <2>3
      <3>2. DOMAIN slices = 1 .. M
        BY <2>3, <3>1
      <3>3. \A k \in 1 .. M : slices[k] \in Clauses
        BY <2>3, <3>1
      <3> QED BY <3>1, <3>2, <3>3, Zenon
    <2> HIDE DEF cut, slices
    <2>6. /\ u.kind \in DOMAIN Shape /\ u.at \in Nat \ {0} /\ u.atom = 0
          /\ u = [kind |-> u.kind, at |-> u.at, atom |-> u.atom, sents |-> u.sents]
      BY <1>2 DEF Units
    <2>7. ASSUME NEW k \in 1 .. M
          PROVE  ps[k] \in Units /\ ps[k].kind = u.kind /\ ps[k].at = u.at /\ ps[k].atom = 0
      <3>1. PICK c : c = IF slices[k].text = Refrain THEN slices[k] ELSE [slices[k] EXCEPT !.text = <<u.at, k>>]
        OBVIOUS
      <3>2. c \in Clauses
        BY <2>5, <2>6, <3>1 DEF Clauses, Spoken
      <3>3. <<c>> \in Seq(Clauses) /\ <<c>> # <<>>
        BY <3>2
      <3>4. ps[k] = [u EXCEPT !.sents = <<c>>]
        BY <2>5, <3>1
      <3>5. ps[k] = [kind |-> u.kind, at |-> u.at, atom |-> u.atom, sents |-> <<c>>]
        BY <2>6, <3>4
      <3>6. ps[k].kind = u.kind /\ ps[k].at = u.at /\ ps[k].atom = 0
        BY <2>6, <3>5
      <3>7. <<c>> \in Seq(Clauses) \ {<<>>}
        BY <3>3
      <3>8. [kind |-> u.kind, at |-> u.at, atom |-> u.atom, sents |-> <<c>>] \in Units
        <4>1. PICK ss \in Seq(Clauses) \ {<<>>} : ss = <<c>>
          BY <3>7
        <4>2. u.kind = "heading" => u.atom = 0
          BY <2>6
        <4>3. [kind |-> u.kind, at |-> u.at, atom |-> u.atom, sents |-> ss] \in Units
          BY <2>6, <4>2 DEF Units
        <4> QED BY <4>1, <4>3
      <3> QED BY <3>5, <3>6, <3>8
    <2>8. ps = [k \in 1 .. M |-> ps[k]]
      BY <2>5
    <2> HIDE DEF ps
    <2>9. ps \in Seq(Units) /\ Len(ps) = M
      BY <2>7, <2>8
    <2>10. \A i \in 1 .. M - 1 : <<ps[i], ps[i + 1]>> \in Neighbours(Units)
      <3>1. \A i \in 1 .. M - 1 : i \in 1 .. M /\ i + 1 \in 1 .. M
        BY <2>5
      <3> QED BY <2>6, <2>7, <3>1 DEF Neighbours, Follows, Bound
    <2>11. ps # <<>> /\ Last(ps) = ps[M]
      BY <2>5, <2>9, EmptyIs DEF Last
    <2>12. ps \in Parts
      BY <2>9, <2>10, <2>11 DEF Parts, Linked
    <2>13. 1 \in 1 .. M /\ M \in 1 .. M
      BY <2>5
    <2> QED BY <2>4, <2>6, <2>7, <2>11, <2>12, <2>13 DEF Alike
  <1> QED BY <1>1, <1>2

\* Units, each in pieces.
LEMMA AlikeFollows ==
  ASSUME NEW u \in Units, NEW v \in Units, NEW a \in Units, NEW b \in Units, Alike(u, a), Alike(v, b)
  PROVE  /\ <<u, v>> \in Neighbours(Units) => <<a, b>> \in Neighbours(Units)
         /\ Bound(u, v) <=> Bound(a, b)
  BY DEF Alike, Neighbours, Follows, Bound

InPieces == [u \in Units |-> Pieces(u)]

LEMMA InPiecesAre ==
  ASSUME NEW g \in Parts
  PROVE  /\ FlattenSeq([j \in DOMAIN g |-> Pieces(g[j])]) \in Parts
         /\ Alike(g[1], FlattenSeq([j \in DOMAIN g |-> Pieces(g[j])])[1])
         /\ Alike(Last(g), Last(FlattenSeq([j \in DOMAIN g |-> Pieces(g[j])])))
  <1>1. g \in Seq(Units) /\ g # <<>> /\ Linked(g, Neighbours(Units)) /\ Last(g) \in Units /\ g[1] \in Units
    BY PartsAre
  <1>2. InPieces \in Maps(Units, Units) /\ \A u \in Units : InPieces[u] = Pieces(u) /\ InPieces[u] # <<>>
    <2>1. \A u \in Units : Pieces(u) \in Seq(Units) /\ Pieces(u) # <<>>
      BY PiecesAre, PartsAre
    <2> QED BY <2>1 DEF InPieces, Maps
  <1>3. FlattenSeq([j \in DOMAIN g |-> Pieces(g[j])]) = Spread(g, InPieces)
    <2>1. \A j \in DOMAIN g : Pieces(g[j]) = InPieces[g[j]]
      <3>1. \A j \in DOMAIN g : g[j] \in Units
        BY <1>1
      <3> QED BY <1>2, <3>1
    <2>2. [j \in DOMAIN g |-> Pieces(g[j])] = [j \in DOMAIN g |-> InPieces[g[j]]]
      BY <2>1, Zenon
    <2> QED BY <2>2, Zenon DEF Spread
  <1>4. Spread(g, InPieces) \in Seq(Units)
    BY <1>1, <1>2, SpreadIs
  <1>5. /\ Linked(Spread(g, InPieces), Neighbours(Units)) <=>
              /\ \A p \in 1 .. Len(g) : Linked(InPieces[g[p]], Neighbours(Units))
              /\ \A p \in 1 .. Len(g) - 1 : <<Last(InPieces[g[p]]), InPieces[g[p + 1]][1]>> \in Neighbours(Units)
        /\ Spread(g, InPieces) # <<>> /\ Last(Spread(g, InPieces)) = Last(InPieces[Last(g)])
        /\ Spread(g, InPieces)[1] = InPieces[g[1]][1]
    BY <1>1, <1>2, SpreadLinked
  <1>6. \A u \in Units : Linked(InPieces[u], Neighbours(Units))
    BY <1>2, PiecesAre DEF Parts
  <1>7. ASSUME NEW p \in 1 .. Len(g) - 1
        PROVE  <<Last(InPieces[g[p]]), InPieces[g[p + 1]][1]>> \in Neighbours(Units)
    <2>1. PICK u \in Units, v \in Units : u = g[p] /\ v = g[p + 1] /\ <<u, v>> \in Neighbours(Units)
      <3>1. p \in 1 .. Len(g) /\ p + 1 \in 1 .. Len(g) /\ Len(g) \in Nat
        BY <1>1
      <3>2. <<g[p], g[p + 1]>> \in Neighbours(Units)
        BY <1>1 DEF Linked
      <3>3. g[p] \in Units /\ g[p + 1] \in Units
        BY <1>1, <3>1
      <3> QED BY <3>2, <3>3
    <2>2. PICK a \in Units, b \in Units : a = Last(Pieces(u)) /\ b = Pieces(v)[1]
      BY PiecesAre, PartsAre
    <2>3. Alike(u, a) /\ Alike(v, b)
      BY <2>2, PiecesAre
    <2> QED BY <1>2, <2>1, <2>2, <2>3, AlikeFollows
  <1>8. Linked(Spread(g, InPieces), Neighbours(Units))
    <2>1. \A p \in 1 .. Len(g) : g[p] \in Units
      BY <1>1
    <2> QED BY <1>5, <1>6, <1>7, <2>1
  <1>9. Spread(g, InPieces) \in Parts
    BY <1>4, <1>5, <1>8 DEF Parts
  <1> QED BY <1>1, <1>2, <1>3, <1>5, <1>9, PiecesAre

\* A pack was closed because the next unit did not fit; alone may close it too.
Tight(max, alone) ==
  {x \in Adjoin : alone = {} => Whole(x[1]) + WordsOf(x[2][1].sents) > max}

LEMMA TightByFirst ==
  ASSUME NEW max, NEW alone
  PROVE  ByFirst(Tight(max, alone))
  BY DEF ByFirst, Tight, Adjoin

LEMMA PackedIs ==
  ASSUME NEW units \in Parts, NEW max \in Nat, NEW alone
  PROVE  /\ Packed(units, max, alone) \in Seq(Parts) /\ Packed(units, max, alone) # <<>>
         /\ Linked(Packed(units, max, alone), Tight(max, alone))
         /\ Packed(units, max, alone)[1][1] = units[1]
         /\ Last(Last(Packed(units, max, alone))) = Last(units)
         /\ \A p \in 1 .. Len(Packed(units, max, alone)) :
              Whole(Packed(units, max, alone)[p]) <= max \/ Len(Packed(units, max, alone)[p]) = 1
  <1> DEFINE R == Tight(max, alone)
             small(g) == Whole(g) <= max \/ Len(g) = 1
  <1>1. PICK N \in Nat \ {0} : /\ N = Len(units) /\ DOMAIN units = 1 .. N
                               /\ \A n \in 1 .. N : units[n] \in Units
                               /\ \A n \in 1 .. N - 1 : <<units[n], units[n + 1]>> \in Neighbours(Units)
                               /\ Last(units) = units[N]
    <2>1. units \in Seq(Units) /\ units # <<>> /\ Linked(units, Neighbours(Units))
      BY PartsAre
    <2>2. Len(units) \in Nat \ {0} /\ Last(units) = units[Len(units)]
      BY <2>1, LastIs
    <2> QED BY <2>1, <2>2 DEF Linked
  <1>2. PICK w : /\ w[0] = <<>> /\ w[N] = Packed(units, max, alone)
                 /\ \A n \in 1 .. N : w[n] = InPack(w[n - 1], units[n], max, alone)
    <2>1. N \in Nat /\ DOMAIN units = 1 .. N
      BY <1>1
    <2>2. PICK x : x = Packed(units, max, alone)
      OBVIOUS
    <2>3. \E w : /\ w[0] = <<>> /\ w[N] = x
                 /\ \A n \in 1 .. N : w[n] = InPack(w[n - 1], units[n], max, alone)
      BY <2>1, <2>2, PackChain
    <2> QED BY <2>2, <2>3
  <1> DEFINE Good(n) == /\ w[n] \in Seq(Parts) /\ Linked(w[n], R)
                        /\ n # 0 => w[n] # <<>> /\ Last(Last(w[n])) = units[n] /\ w[n][1][1] = units[1]
                        /\ \A p \in 1 .. Len(w[n]) : small(w[n][p])
             G == {n \in Nat : n \in 0 .. N => Good(n)}
  <1> HIDE DEF R, small
  <1>3. 0 \in G
    <2>1. w[0] = <<>> /\ Len(w[0]) = 0 /\ w[0] \in Seq(Parts)
      BY <1>2
    <2>2. Linked(w[0], R) /\ \A p \in 1 .. Len(w[0]) : small(w[0][p])
      BY <2>1 DEF Linked
    <2> QED BY <2>1, <2>2
  <1>4. ASSUME NEW n \in Nat, n \in G PROVE n + 1 \in G
    <2>1. SUFFICES ASSUME n + 1 \in 0 .. N PROVE Good(n + 1)
      OBVIOUS
    <2>2. n + 1 \in 1 .. N /\ n + 1 - 1 = n /\ n \in 0 .. N /\ n + 1 # 0
      BY <2>1
    <2>3. Good(n)
      BY <1>4, <2>2
    <2>4. w[n + 1] = InPack(w[n], units[n + 1], max, alone)
      BY <1>2, <2>2
    <2>5. PICK gs \in Seq(Parts), u \in Units : /\ gs = w[n] /\ u = units[n + 1] /\ Linked(gs, R)
                                                /\ \A p \in 1 .. Len(gs) : small(gs[p])
      BY <1>1, <2>2, <2>3
    <2>6. /\ gs # <<>> => n # 0 /\ <<Last(Last(gs)), u>> \in Neighbours(Units) /\ gs[1][1] = units[1]
          /\ gs = <<>> => n = 0
      <3>1. gs # <<>> => n # 0
        BY <1>2, <2>5
      <3>2. n # 0 => n \in 1 .. N - 1
        BY <1>1, <2>2
      <3> QED BY <1>1, <2>3, <2>5, <3>1, <3>2
    <2>7. CASE gs = <<>> \/ Full(Last(gs), u, max, alone)
      <3>1. PICK v \in Parts : v = <<u>> /\ v[1] = u /\ Last(v) = u
        BY UnitAlone
      <3>2. ASSUME gs # <<>> PROVE <<Last(gs), v>> \in R
        <4>1. PICK l \in Parts : l = Last(gs)
          BY <3>2, LastIs
        <4>2. <<l, v>> \in Adjoin
          BY <2>6, <3>1, <3>2, <4>1 DEF Adjoin
        <4>3. alone = {} => Whole(Append(l, u)) > max
          BY <2>7, <3>2, <4>1 DEF Full
        <4>4. Whole(Append(l, u)) = Whole(l) + WordsOf(u.sents)
          <5>1. l \in Seq(Units)
            BY PartsAre
          <5> QED BY <5>1, WholeIs
        <4> QED BY <3>1, <4>1, <4>2, <4>3, <4>4 DEF R, Tight
      <3>3. /\ Append(gs, v) \in Seq(Parts) /\ Linked(Append(gs, v), R) /\ Append(gs, v) # <<>>
            /\ Last(Append(gs, v)) = v
            /\ gs = <<>> => Append(gs, v)[1] = v
            /\ gs # <<>> => Append(gs, v)[1] = gs[1]
        BY <2>5, <3>2, PartNew
      <3>4. w[n + 1] = Append(gs, v)
        BY <2>4, <2>5, <2>7, <3>1 DEF InPack, Placed
      <3>5. small(v)
        BY <3>1 DEF small
      <3>6. \A p \in 1 .. Len(Append(gs, v)) : small(Append(gs, v)[p])
        <4>1. /\ Len(Append(gs, v)) = Len(gs) + 1 /\ Append(gs, v)[Len(gs) + 1] = v /\ Len(gs) \in Nat
              /\ \A p \in 1 .. Len(gs) : Append(gs, v)[p] = gs[p]
          OBVIOUS
        <4>2. \A p \in 1 .. Len(gs) + 1 : p \in 1 .. Len(gs) \/ p = Len(gs) + 1
          BY <4>1
        <4> QED BY <2>5, <3>5, <4>1, <4>2
      <3>7. Append(gs, v)[1][1] = units[1]
        <4>1. gs = <<>> => u = units[1]
          BY <2>5, <2>6
        <4> QED BY <2>6, <3>1, <3>3, <4>1
      <3> QED BY <2>5, <3>1, <3>3, <3>4, <3>6, <3>7
    <2>8. CASE gs # <<>> /\ ~Full(Last(gs), u, max, alone)
      <3>1. PICK l \in Parts : l = Last(gs)
        BY <2>8, LastIs
      <3>2. PICK h \in Parts : h = Append(l, u) /\ h[1] = l[1] /\ Last(h) = u
        <4>1. <<Last(l), u>> \in Neighbours(Units)
          BY <2>6, <2>8, <3>1
        <4> QED BY <4>1, PartsAre
      <3>3. /\ Front(gs) \o <<h>> \in Seq(Parts) /\ Linked(Front(gs) \o <<h>>, R)
            /\ Front(gs) \o <<h>> # <<>> /\ Last(Front(gs) \o <<h>>) = h
            /\ Front(gs) \o <<h>> = Append(Front(gs), h)
            /\ (Front(gs) \o <<h>>)[1][1] = gs[1][1]
        <4>1. ByFirst(R)
          BY TightByFirst DEF R
        <4> QED BY <2>5, <2>8, <3>1, <3>2, <4>1, PartMore
      <3>4. w[n + 1] = Front(gs) \o <<h>>
        BY <2>4, <2>5, <2>8, <3>1, <3>2 DEF InPack, Placed
      <3>5. small(h)
        <4>1. ~(Whole(h) > max)
          BY <2>8, <3>1, <3>2 DEF Full
        <4>2. Whole(h) \in Nat
          BY FirstCounts
        <4> QED BY <4>1, <4>2 DEF small
      <3>6. \A p \in 1 .. Len(Append(Front(gs), h)) : small(Append(Front(gs), h)[p])
        <4>1. PICK f \in Seq(Parts) : /\ f = Front(gs) /\ Len(f) = Len(gs) - 1 /\ Len(gs) \in Nat \ {0}
                                      /\ \A p \in 1 .. Len(gs) - 1 : f[p] = gs[p]
          BY <2>8, LastIs
        <4>2. /\ Len(Append(f, h)) = Len(f) + 1 /\ Append(f, h)[Len(f) + 1] = h
              /\ \A p \in 1 .. Len(f) : Append(f, h)[p] = f[p]
          OBVIOUS
        <4>3. \A p \in 1 .. Len(f) + 1 : (p \in 1 .. Len(gs) - 1 /\ p \in 1 .. Len(gs)) \/ p = Len(f) + 1
          BY <4>1
        <4> QED BY <2>5, <3>5, <4>1, <4>2, <4>3
      <3> QED BY <2>5, <2>6, <2>8, <3>2, <3>3, <3>4, <3>6
    <2> QED BY <2>7, <2>8
  <1>5. N \in G
    <2> HIDE DEF G
    <2> QED BY <1>1, <1>3, <1>4, SetInduction
  <1>6. Good(N) /\ N # 0
    BY <1>1, <1>5
  <1> QED BY <1>1, <1>2, <1>6 DEF R, small

LEMMA TightLarge ==
  ASSUME NEW a \in Parts, NEW b \in Parts, <<a, b>> \in Tight(ParentMax, {})
  PROVE  <<a, b>> \in Large
  <1>1. <<a, b>> \in Adjoin /\ Whole(a) + WordsOf(b[1].sents) > ParentMax
    BY DEF Tight
  <1>2. WordsOf(b[1].sents) <= Whole(b) /\ WordsOf(b[1].sents) \in Nat /\ Whole(b) \in Nat /\ Whole(a) \in Nat
    BY FirstCounts
  <1>3. Whole(a) + Whole(b) > ParentMax
    BY <1>1, <1>2, SizesAssumption
  <1> QED BY <1>1, <1>3 DEF Large

\* A part in two.
LEMMA CutInTwo ==
  ASSUME NEW g \in Parts, NEW k \in 1 .. Len(g) - 1
  PROVE  /\ SubSeq(g, 1, k) \in Parts /\ SubSeq(g, k + 1, Len(g)) \in Parts
         /\ SubSeq(g, 1, k)[1] = g[1] /\ Last(SubSeq(g, k + 1, Len(g))) = Last(g)
         /\ <<SubSeq(g, 1, k), SubSeq(g, k + 1, Len(g))>> \in Adjoin
         /\ Whole(SubSeq(g, 1, k)) + Whole(SubSeq(g, k + 1, Len(g))) = Whole(g)
  <1>1. g \in Seq(Units) /\ g # <<>> /\ Linked(g, Neighbours(Units))
    BY PartsAre
  <1>2. PICK N \in Nat \ {0} : N = Len(g) /\ Last(g) = g[N] /\ k \in Nat \ {0} /\ k < N /\ k + 1 <= N
    <2>1. PICK N \in Nat \ {0} : N = Len(g) /\ Last(g) = g[N]
      BY <1>1, LastIs
    <2>2. k \in 1 .. N - 1
      BY <2>1
    <2>3. k \in Nat \ {0} /\ k < N /\ k + 1 <= N
      BY <2>1, <2>2
    <2> QED BY <2>1, <2>3
  <1>3. PICK s \in Seq(Units) : s = SubSeq(g, 1, k) /\ Len(s) = k /\ \A i \in 1 .. k : s[i] = g[i]
    <2>1. k <= N /\ 1 <= k + 1 /\ k + 1 - 1 = k /\ \A i \in 1 .. k : 1 + i - 1 = i
      BY <1>2
    <2>2. /\ SubSeq(g, 1, k) \in Seq(Units) /\ Len(SubSeq(g, 1, k)) = k + 1 - 1
          /\ \A i \in 1 .. k + 1 - 1 : SubSeq(g, 1, k)[i] = g[1 + i - 1]
      BY <1>1, <1>2, <2>1, SubSeqIs
    <2> QED BY <2>1, <2>2
  <1>4. PICK t \in Seq(Units) : /\ t = SubSeq(g, k + 1, N) /\ Len(t) = N - k
                                /\ \A i \in 1 .. N - k : t[i] = g[k + i]
    <2>1. k + 1 \in Nat \ {0} /\ k + 1 <= N + 1 /\ N <= N /\ N + 1 - (k + 1) = N - k /\ \A i \in 1 .. N - k : k + 1 + i - 1 = k + i
      BY <1>2
    <2>2. /\ SubSeq(g, k + 1, N) \in Seq(Units) /\ Len(SubSeq(g, k + 1, N)) = N + 1 - (k + 1)
          /\ \A i \in 1 .. N + 1 - (k + 1) : SubSeq(g, k + 1, N)[i] = g[k + 1 + i - 1]
      BY <1>1, <1>2, <2>1, SubSeqIs
    <2>3. \A i \in 1 .. N - k : SubSeq(g, k + 1, N)[i] = g[k + i]
      <3>1. TAKE i \in 1 .. N - k
      <3>2. SubSeq(g, k + 1, N)[i] = g[k + 1 + i - 1]
        BY <2>1, <2>2
      <3>3. k + 1 + i - 1 = k + i
        BY <1>2
      <3> QED BY <3>2, <3>3
    <2> QED BY <2>1, <2>2, <2>3
  <1>5. s # <<>> /\ t # <<>>
    <2>1. k # 0 /\ N - k # 0
      BY <1>2
    <2> QED BY <1>3, <1>4, <2>1, EmptyIs
  <1>6. g = s \o t
    <2>1. s \o t \in Seq(Units) /\ Len(s \o t) = N
      BY <1>2, <1>3, <1>4
    <2>2. ASSUME NEW i \in 1 .. N PROVE (s \o t)[i] = g[i]
      <3>1. CASE i <= k
        BY <1>2, <1>3, <1>4, <3>1
      <3>2. CASE i > k
        <4>1. i - k \in 1 .. N - k /\ k + (i - k) = i
          BY <1>2, <3>2
        <4>2. (s \o t)[Len(s) + (i - k)] = t[i - k]
          BY <1>3, <1>4, <4>1
        <4> QED BY <1>3, <1>4, <4>1, <4>2
      <3>3. i <= k \/ i > k
        BY <1>2
      <3> QED BY <3>1, <3>2, <3>3
    <2> QED BY <1>1, <1>2, <2>1, <2>2, SeqEq
  <1>7. Linked(s, Neighbours(Units)) /\ Linked(t, Neighbours(Units)) /\ <<Last(s), t[1]>> \in Neighbours(Units)
    <2>1. Linked(s \o t, Neighbours(Units))
      BY <1>1, <1>6
    <2> QED BY <1>5, <2>1, LinkedConcat
  <1>8. Last(s \o t) = Last(t) /\ (s \o t)[1] = s[1]
    BY <1>5, ConcatEnds
  <1>9. Whole(s \o t) = Whole(s) + Whole(t)
    BY WholeIs
  <1>10. s \in Parts /\ t \in Parts
    BY <1>5, <1>7 DEF Parts
  <1> QED BY <1>2, <1>3, <1>4, <1>6, <1>7, <1>8, <1>9, <1>10 DEF Adjoin

LEMMA BalancedIs ==
  ASSUME NEW packs \in Seq(Parts), packs # <<>>, Linked(packs, Tight(ParentMax, {}))
  PROVE  /\ Balanced(packs) \in Seq(Parts) /\ Balanced(packs) # <<>>
         /\ Linked(Balanced(packs), Large)
         /\ Balanced(packs)[1][1] = packs[1][1] /\ Last(Last(Balanced(packs))) = Last(Last(packs))
  <1>1. PICK n \in Nat \ {0} : /\ n = Len(packs) /\ Last(packs) = packs[n]
                               /\ \A i \in 1 .. n : packs[i] \in Parts
                               /\ \A i \in 1 .. n - 1 : <<packs[i], packs[i + 1]>> \in Tight(ParentMax, {})
    <2>1. Len(packs) \in Nat \ {0} /\ Last(packs) = packs[Len(packs)]
      BY LastIs
    <2> QED BY <2>1 DEF Linked
  <1>2. \A i \in 1 .. n - 1 : <<packs[i], packs[i + 1]>> \in Large
    <2>1. \A i \in 1 .. n - 1 : i \in 1 .. n /\ i + 1 \in 1 .. n
      BY <1>1
    <2> QED BY <1>1, <2>1, TightLarge
  <1>3. CASE n < 2
    <2>1. Balanced(packs) = packs
      BY <1>1, <1>3 DEF Balanced
    <2> QED BY <1>1, <1>2, <2>1 DEF Linked
  <1>4. CASE n >= 2
    <2>1. n - 1 \in 1 .. n /\ n \in 1 .. n /\ n - 1 \in 1 .. n - 1 /\ n - 1 + 1 = n /\ n - 2 \in Nat
      BY <1>1, <1>4
    <2>2. PICK a \in Parts, b \in Parts : a = packs[n - 1] /\ b = packs[n]
      BY <1>1, <2>1
    <2>3. <<a, b>> \in Adjoin /\ Whole(a) + Whole(b) > ParentMax
      <3>1. <<packs[n - 1], packs[n - 1 + 1]>> \in Large
        BY <1>2, <2>1
      <3> QED BY <2>1, <2>2, <3>1 DEF Large
    <2>4. PICK both \in Parts : /\ both = a \o b /\ both[1] = a[1] /\ Last(both) = Last(b)
                                /\ Len(both) = Len(a) + Len(b) /\ Len(a) \in Nat \ {0} /\ Len(b) \in Nat \ {0}
                                /\ Whole(both) = Whole(a) + Whole(b)
      <3>1. <<Last(a), b[1]>> \in Neighbours(Units)
        BY <2>3 DEF Adjoin
      <3>2. a \o b \in Parts /\ (a \o b)[1] = a[1] /\ Last(a \o b) = Last(b)
        BY <3>1, PartsAre
      <3>3. a \in Seq(Units) /\ a # <<>> /\ b \in Seq(Units) /\ b # <<>>
        BY PartsAre
      <3>4. Len(a \o b) = Len(a) + Len(b)
        BY <3>3
      <3>5. Len(a) \in Nat \ {0} /\ Len(b) \in Nat \ {0}
        BY <3>3, LastIs
      <3>6. Whole(a \o b) = Whole(a) + Whole(b)
        BY <3>3, WholeIs
      <3> QED BY <3>2, <3>4, <3>5, <3>6
    <2> DEFINE enough == {k \in 1 .. Len(packs[n - 1]) :
                            k = 1 \/ Whole(SubSeq(both, k + 1, Len(both))) >= ParentMin}
    <2>5. PICK k \in 1 .. Len(a) : k = Max(enough)
      <3>1. enough \in SUBSET (0 .. Len(a)) /\ 1 \in enough /\ enough \subseteq 1 .. Len(a) /\ Len(a) \in Nat
        <4>1. Len(packs[n - 1]) = Len(a)
          BY <2>2
        <4>2. enough \subseteq 1 .. Len(packs[n - 1])
          OBVIOUS
        <4>3. 1 \in 1 .. Len(packs[n - 1])
          BY <2>4, <4>1
        <4>4. 1 \in enough
          BY <4>3
        <4> HIDE DEF enough
        <4> QED BY <2>4, <4>1, <4>2, <4>4
      <3> HIDE DEF enough
      <3>2. Max(enough) \in enough
        BY <3>1, MaxExists
      <3> QED BY <3>1, <3>2
    <2>6. k \in 1 .. Len(both) - 1
      BY <2>4
    <2>7. PICK x \in Parts, y \in Parts :
            /\ x = SubSeq(both, 1, k) /\ y = SubSeq(both, k + 1, Len(both))
            /\ x[1] = a[1] /\ Last(y) = Last(b) /\ <<x, y>> \in Large
      <3>1. /\ SubSeq(both, 1, k) \in Parts /\ SubSeq(both, k + 1, Len(both)) \in Parts
            /\ SubSeq(both, 1, k)[1] = both[1] /\ Last(SubSeq(both, k + 1, Len(both))) = Last(both)
            /\ <<SubSeq(both, 1, k), SubSeq(both, k + 1, Len(both))>> \in Adjoin
            /\ Whole(SubSeq(both, 1, k)) + Whole(SubSeq(both, k + 1, Len(both))) = Whole(both)
        BY <2>6, CutInTwo
      <3>2. PICK x \in Parts, y \in Parts : x = SubSeq(both, 1, k) /\ y = SubSeq(both, k + 1, Len(both))
        BY <3>1
      <3>3. <<x, y>> \in Large
        BY <2>3, <2>4, <3>1, <3>2 DEF Large
      <3> QED BY <2>4, <3>1, <3>2, <3>3
    <2>8. Balanced(packs) = SubSeq(packs, 1, n - 2) \o <<x, y>>
      <3>1. ~(Len(packs) < 2)
        BY <1>1, <1>4
      <3>2. Balanced(packs) = SubSeq(packs, 1, n - 2) \o <<SubSeq(both, 1, k), SubSeq(both, k + 1, Len(both))>>
        BY <1>1, <2>2, <2>4, <2>5, <3>1, Zenon DEF Balanced
      <3> QED BY <2>7, <3>2
    <2>9. PICK f \in Seq(Parts) : /\ f = SubSeq(packs, 1, n - 2) /\ Len(f) = n - 2
                                  /\ \A i \in 1 .. n - 2 : f[i] = packs[i]
      <3>1. 1 \in Nat \ {0} /\ 1 <= n - 2 + 1 /\ n - 2 <= Len(packs) /\ n - 2 + 1 - 1 = n - 2
            /\ \A i \in 1 .. n - 2 : 1 + i - 1 = i
        BY <1>1, <2>1
      <3>2. /\ SubSeq(packs, 1, n - 2) \in Seq(Parts) /\ Len(SubSeq(packs, 1, n - 2)) = n - 2 + 1 - 1
            /\ \A i \in 1 .. n - 2 + 1 - 1 : SubSeq(packs, 1, n - 2)[i] = packs[1 + i - 1]
        BY <2>1, <3>1, SubSeqIs
      <3> QED BY <3>1, <3>2
    <2>10. Linked(f, Large)
      <3>1. \A i \in 1 .. n - 3 : i \in 1 .. n - 2 /\ i + 1 \in 1 .. n - 2 /\ i \in 1 .. n - 1
        BY <2>1
      <3>2. Len(f) - 1 = n - 3
        BY <2>1, <2>9
      <3> QED BY <1>2, <2>9, <3>1, <3>2 DEF Linked
    <2>11. f # <<>> => Len(f) \in Nat \ {0} /\ Last(f) = packs[n - 2] /\ f[1] = packs[1] /\ n - 2 \in 1 .. n - 1 /\ n - 2 + 1 = n - 1
      <3>1. ASSUME f # <<>> PROVE Len(f) \in Nat \ {0} /\ Last(f) = f[Len(f)]
        BY <3>1, LastIs
      <3>2. Len(f) \in Nat \ {0} => 1 \in 1 .. n - 2 /\ n - 2 \in 1 .. n - 2 /\ n - 2 \in 1 .. n - 1 /\ n - 2 + 1 = n - 1
        BY <2>1, <2>9
      <3> QED BY <2>9, <3>1, <3>2
    <2>12. f # <<>> => <<Last(f), x>> \in Large
      <3>1. SUFFICES ASSUME f # <<>> PROVE <<Last(f), x>> \in Large
        OBVIOUS
      <3>2. <<Last(f), a>> \in Tight(ParentMax, {}) /\ Last(f) \in Parts
        BY <1>1, <2>2, <2>11, <3>1, LastIs
      <3>3. <<Last(f), x>> \in Tight(ParentMax, {})
        BY <2>7, <3>2, TightByFirst DEF ByFirst
      <3> QED BY <3>2, <3>3, TightLarge
    <2>13. /\ Append(f, x) \in Seq(Parts) /\ Linked(Append(f, x), Large) /\ Last(Append(f, x)) = x
           /\ Append(f, x) # <<>> /\ (f = <<>> => Append(f, x)[1] = x) /\ (f # <<>> => Append(f, x)[1] = f[1])
      BY <2>10, <2>12, PartNew
    <2>14. PICK e \in Seq(Parts) : e = Append(f, x) /\ e # <<>> /\ Linked(e, Large) /\ Last(e) = x
      BY <2>13
    <2>15. /\ Append(e, y) \in Seq(Parts) /\ Linked(Append(e, y), Large) /\ Last(Append(e, y)) = y
           /\ Append(e, y) # <<>> /\ Append(e, y)[1] = e[1]
      <3>1. <<Last(e), y>> \in Large
        BY <2>7, <2>14
      <3>2. e # <<>> /\ Linked(e, Large)
        BY <2>14
      <3>3. /\ Append(e, y) \in Seq(Parts) /\ Linked(Append(e, y), Large)
            /\ Last(Append(e, y)) = y /\ Append(e, y) # <<>>
        BY <3>1, <3>2, PartNew
      <3>4. Append(e, y)[1] = e[1]
        BY <3>2, AppendEnds
      <3> QED BY <3>3, <3>4
    <2>16. f \o <<x, y>> = Append(e, y)
      <3>1. f \o <<x>> = Append(f, x) /\ f \o Append(<<x>>, y) = Append(f \o <<x>>, y)
        <4>1. <<x>> \in Seq(Parts)
          OBVIOUS
        <4> QED BY <4>1, ConcatLaws
      <3>2. Append(<<x>>, y) = <<x, y>>
        <4>1. <<x, y>> \in Seq(Parts) /\ Append(<<x>>, y) \in Seq(Parts)
          OBVIOUS
        <4>2. Len(<<x, y>>) = 2 /\ Len(Append(<<x>>, y)) = 2
          OBVIOUS
        <4>3. /\ <<x, y>>[1] = x /\ <<x, y>>[2] = y
              /\ Append(<<x>>, y)[1] = x /\ Append(<<x>>, y)[2] = y
          OBVIOUS
        <4>4. \A i \in 1 .. 2 : i = 1 \/ i = 2
          OBVIOUS
        <4>5. \A i \in 1 .. 2 : <<x, y>>[i] = Append(<<x>>, y)[i]
          BY <4>3, <4>4, Zenon
        <4> QED BY <4>1, <4>2, <4>5, SeqEq
      <3> QED BY <2>14, <3>1, <3>2
    <2>17. e[1][1] = packs[1][1]
      <3>1. CASE f = <<>>
        <4>1. n - 2 = 0
          BY <2>9, <3>1, EmptyIs
        <4>2. n - 1 = 1
          BY <2>1, <4>1
        <4> QED BY <2>2, <2>7, <2>13, <2>14, <3>1, <4>2
      <3>2. CASE f # <<>>
        BY <2>11, <2>13, <2>14, <3>2
      <3> QED BY <3>1, <3>2
    <2> QED BY <1>1, <2>2, <2>7, <2>8, <2>9, <2>15, <2>16, <2>17
  <1>5. n < 2 \/ n >= 2
    BY <1>1
  <1> QED BY <1>3, <1>4, <1>5

\* The parents of a group.
Sections(g) ==
  IF Whole(g) <= ParentMax THEN <<g>>
  ELSE Balanced(Packed(FlattenSeq([j \in DOMAIN g |-> Pieces(g[j])]), ParentMax, {}))

LEMMA SectionsAre ==
  ASSUME NEW g \in Parts
  PROVE  /\ Sections(g) \in Seq(Parts) /\ Sections(g) # <<>> /\ Linked(Sections(g), Apart)
         /\ Alike(g[1], Sections(g)[1][1]) /\ Alike(Last(g), Last(Last(Sections(g))))
  <1>1. CASE Whole(g) <= ParentMax
    <2>1. Sections(g) = <<g>>
      BY <1>1 DEF Sections
    <2>2. <<>> \in Seq(Parts) /\ <<g>> \in Seq(Parts)
      OBVIOUS
    <2>3. <<g>> # <<>> /\ Last(<<g>>) = g /\ <<g>>[1] = g /\ Linked(<<g>>, Apart)
      BY <2>2, AppendEnds, LinkedAppend
    <2> QED BY <2>1, <2>2, <2>3 DEF Alike
  <1>2. CASE ~(Whole(g) <= ParentMax)
    <2>1. PICK ps \in Parts : /\ ps = FlattenSeq([j \in DOMAIN g |-> Pieces(g[j])])
                              /\ Alike(g[1], ps[1]) /\ Alike(Last(g), Last(ps))
      BY InPiecesAre
    <2>2. ParentMax \in Nat
      BY SizesAssumption
    <2>3. PICK packs \in Seq(Parts) : /\ packs = Packed(ps, ParentMax, {}) /\ packs # <<>>
                                      /\ Linked(packs, Tight(ParentMax, {}))
                                      /\ packs[1][1] = ps[1] /\ Last(Last(packs)) = Last(ps)
      BY <2>2, PackedIs
    <2>4. Sections(g) = Balanced(packs)
      BY <1>2, <2>1, <2>3 DEF Sections
    <2>5. /\ Balanced(packs) \in Seq(Parts) /\ Balanced(packs) # <<>>
          /\ Linked(Balanced(packs), Large)
          /\ Balanced(packs)[1][1] = packs[1][1] /\ Last(Last(Balanced(packs))) = Last(Last(packs))
      BY <2>3, BalancedIs
    <2>6. Linked(Balanced(packs), Apart)
      <3>1. Large \subseteq Apart
        BY DEF Large, Apart
      <3> QED BY <2>5, <3>1 DEF Linked
    <2> QED BY <2>1, <2>3, <2>4, <2>5, <2>6
  <1> QED BY <1>1, <1>2

InSections == [g \in Parts |-> Sections(g)]

LEMMA ParentsAre ==
  ASSUME NEW groups \in Seq(Parts), Linked(groups, Free)
  PROVE  Parents(groups) \in Seq(Parts) /\ Linked(Parents(groups), Apart)
  <1>1. InSections \in Maps(Parts, Parts) /\ \A g \in Parts : InSections[g] = Sections(g) /\ InSections[g] # <<>>
    BY SectionsAre DEF InSections, Maps
  <1>2. Parents(groups) = Spread(groups, InSections)
    <2>1. \A i \in DOMAIN groups : Sections(groups[i]) = InSections[groups[i]]
      <3>1. \A i \in DOMAIN groups : groups[i] \in Parts
        OBVIOUS
      <3> QED BY <1>1, <3>1
    <2>2. [i \in DOMAIN groups |-> Sections(groups[i])] = [i \in DOMAIN groups |-> InSections[groups[i]]]
      BY <2>1, Zenon
    <2>3. Parents(groups) = FlattenSeq([i \in DOMAIN groups |-> Sections(groups[i])])
      BY Zenon DEF Parents, Sections
    <2> QED BY <2>2, <2>3, Zenon DEF Spread
  <1>3. Spread(groups, InSections) \in Seq(Parts)
    <2>1. CASE groups = <<>>
      <3>1. <<>> \in Seq(Parts)
        OBVIOUS
      <3> QED BY <2>1, <3>1, SpreadEmpty
    <2>2. CASE groups # <<>>
      <3>1. Last(groups) \in Parts
        BY <2>2, LastIs
      <3> QED BY <1>1, <3>1, SpreadIs
    <2> QED BY <2>1, <2>2
  <1>4. Linked(Spread(groups, InSections), Apart) <=>
              /\ \A p \in 1 .. Len(groups) : Linked(InSections[groups[p]], Apart)
              /\ \A p \in 1 .. Len(groups) - 1 : <<Last(InSections[groups[p]]), InSections[groups[p + 1]][1]>> \in Apart
    BY <1>1, SpreadLinked
  <1>5. \A p \in 1 .. Len(groups) : Linked(InSections[groups[p]], Apart)
    <2>1. \A p \in 1 .. Len(groups) : groups[p] \in Parts
      OBVIOUS
    <2> QED BY <1>1, <2>1, SectionsAre
  <1>6. ASSUME NEW p \in 1 .. Len(groups) - 1
        PROVE  <<Last(InSections[groups[p]]), InSections[groups[p + 1]][1]>> \in Apart
    <2>1. PICK g \in Parts, h \in Parts : g = groups[p] /\ h = groups[p + 1] /\ <<g, h>> \in Free
      <3>1. p \in 1 .. Len(groups) /\ p + 1 \in 1 .. Len(groups) /\ Len(groups) \in Nat
        OBVIOUS
      <3>2. <<groups[p], groups[p + 1]>> \in Free
        BY DEF Linked
      <3>3. groups[p] \in Parts /\ groups[p + 1] \in Parts
        BY <3>1
      <3> QED BY <3>2, <3>3
    <2>2. PICK a \in Parts, b \in Parts : a = Last(Sections(g)) /\ b = Sections(h)[1]
      <3>1. Last(Sections(g)) \in Parts
        BY SectionsAre, LastIs
      <3>2. Sections(h) \in Seq(Parts) /\ Len(Sections(h)) \in Nat \ {0}
        BY SectionsAre, LastIs
      <3>3. Sections(h)[1] \in Parts
        BY <3>2
      <3> QED BY <3>1, <3>3
    <2>3. Alike(Last(g), Last(a)) /\ Alike(h[1], b[1])
      BY <2>2, SectionsAre
    <2>4. /\ Last(g) \in Units /\ h[1] \in Units /\ Last(a) \in Units /\ b[1] \in Units
      BY PartsAre
    <2>5. <<Last(g), h[1]>> \in Neighbours(Units) /\ ~Bound(Last(g), h[1])
      BY <2>1 DEF Free, Adjoin
    <2>6. <<Last(a), b[1]>> \in Neighbours(Units) /\ ~Bound(Last(a), b[1])
      BY <2>3, <2>4, <2>5, AlikeFollows
    <2>7. <<a, b>> \in Apart
      BY <2>6 DEF Apart, Free, Adjoin
    <2> QED BY <1>1, <2>1, <2>2, <2>7
  <1> QED BY <1>2, <1>3, <1>4, <1>5, <1>6

-----------------------------------------------------------------------------
(* What is said: the sentences of units.                                   *)

Voices ==
  {s \in [text : Nat \X Nat, words : Nat, kind : DOMAIN Shape, at : Nat \ {0}, atom : Nat,
          own : BOOLEAN, form : {"plain", "raw"}, says : SUBSET (Nat \X Nat), end : Clauses] :
     /\ s.text \in s.says
     /\ s.atom # 0 => s.text = <<s.at, 0>>
     /\ s.atom = 0 => s.text \in Spoken
     /\ s.kind = "heading" => s.atom = 0}

Voice(u, text, words, sents, form) ==
  [text |-> text, words |-> words, kind |-> u.kind, at |-> u.at, atom |-> u.atom, own |-> TRUE,
   form |-> IF u.kind \in Listed THEN form ELSE "plain",
   says |-> {text} \cup {x.text : x \in Range(sents)}, end |-> Last(sents)]

LEMMA VoiceIs ==
  ASSUME NEW u \in Units, NEW text \in Nat \X Nat, NEW words \in Nat,
         NEW sents \in Seq(Clauses) \ {<<>>}, NEW form \in {"plain", "raw"},
         u.atom # 0 => text = <<u.at, 0>>, u.atom = 0 => text \in Spoken
  PROVE  /\ Voice(u, text, words, sents, form) \in Voices
         /\ Voice(u, text, words, sents, form).kind = u.kind
         /\ Voice(u, text, words, sents, form).at = u.at
         /\ Voice(u, text, words, sents, form).atom = u.atom
         /\ Voice(u, text, words, sents, form).words = words
         /\ Voice(u, text, words, sents, form).text = text
  <1>1. Last(sents) \in Clauses
    BY LastIs
  <1>2. /\ u.kind \in DOMAIN Shape /\ u.at \in Nat \ {0} /\ u.atom \in Nat
        /\ u.kind = "heading" => u.atom = 0
    BY DEF Units
  <1>3. {text} \cup {x.text : x \in Range(sents)} \subseteq Nat \X Nat
    <2>1. Range(sents) \subseteq Clauses
      BY DEF Range
    <2>2. \A x \in Range(sents) : x.text \in Nat \X Nat
      BY <2>1 DEF Clauses, Spoken, Refrain
    <2> QED BY <2>2
  <1>4. (IF u.kind \in Listed THEN form ELSE "plain") \in {"plain", "raw"}
    OBVIOUS
  <1>5. PICK f \in {"plain", "raw"}, says \in SUBSET (Nat \X Nat), last \in Clauses :
          /\ f = IF u.kind \in Listed THEN form ELSE "plain"
          /\ says = {text} \cup {x.text : x \in Range(sents)} /\ last = Last(sents)
    BY <1>1, <1>3, <1>4
  <1>6. Voice(u, text, words, sents, form) =
          [text |-> text, words |-> words, kind |-> u.kind, at |-> u.at, atom |-> u.atom,
           own |-> TRUE, form |-> f, says |-> says, end |-> last]
    BY <1>5, Zenon DEF Voice
  <1>7. text \in says
    BY <1>5
  <1> QED BY <1>2, <1>6, <1>7 DEF Voices

LEMMA RenderedIs ==
  ASSUME NEW u \in Units, NEW form \in {"plain", "raw"}
  PROVE  /\ Rendered(u, form) \in Seq(Voices) /\ Rendered(u, form) # <<>>
         /\ \A j \in 1 .. Len(Rendered(u, form)) :
              /\ Rendered(u, form)[j].kind = u.kind /\ Rendered(u, form)[j].at = u.at
              /\ Rendered(u, form)[j].atom = u.atom
         /\ u.atom # 0 => Len(Rendered(u, form)) = 1
         /\ Linked(Rendered(u, form), Neighbours(Voices))
         /\ WordsOf(Rendered(u, form)) = WordsOf(u.sents)
  <1>1. /\ u.sents \in Seq(Clauses) \ {<<>>} /\ u.atom \in Nat /\ u.at \in Nat \ {0}
        /\ Len(u.sents) \in Nat \ {0} /\ WordsOf(u.sents) \in Nat /\ DOMAIN u.sents = 1 .. Len(u.sents)
    <2>1. u.sents \in Seq(Clauses) /\ u.sents # <<>> /\ u.atom \in Nat /\ u.at \in Nat \ {0}
      BY DEF Units
    <2>2. Len(u.sents) \in Nat \ {0}
      BY <2>1, LastIs
    <2>3. WordsOf(u.sents) \in Nat
      BY <2>1, SentsAre, WordsAll
    <2> QED BY <2>1, <2>2, <2>3
  <1>2. CASE u.atom # 0
    <2>1. PICK x : x = Voice(u, <<u.at, 0>>, WordsOf(u.sents), u.sents, form)
      OBVIOUS
    <2>2. /\ x \in Voices /\ x.kind = u.kind /\ x.at = u.at /\ x.atom = u.atom
          /\ x.words = WordsOf(u.sents)
      <3>1. PICK t \in Nat \X Nat, n \in Nat, c \in Seq(Clauses) \ {<<>>} :
              t = <<u.at, 0>> /\ n = WordsOf(u.sents) /\ c = u.sents
        BY <1>1
      <3>2. x = Voice(u, t, n, c, form)
        BY <2>1, <3>1
      <3> QED BY <1>2, <3>1, <3>2, VoiceIs
    <2>3. Rendered(u, form) = <<x>>
      BY <1>2, <2>1, Zenon DEF Rendered, Voice
    <2>4. <<x>> \in Seq(Voices) /\ <<x>> # <<>> /\ Len(<<x>>) = 1 /\ <<x>>[1] = x
      BY <2>2
    <2>5. \A y \in Voices : y.words \in Nat
      BY DEF Voices
    <2>6. WordsOf(<<x>>) = x.words
      BY <2>2, <2>4, <2>5, WordsAre
    <2>7. Linked(<<x>>, Neighbours(Voices))
      BY <2>2, <2>4, LinkedAppend
    <2> QED BY <2>2, <2>3, <2>4, <2>6, <2>7
  <1>3. CASE u.atom = 0
    <2> DEFINE r == [j \in 1 .. Len(u.sents) |->
                       Voice(u, u.sents[j].text, u.sents[j].words, <<u.sents[j]>>, form)]
    <2>1. Rendered(u, form) = r
      BY <1>1, <1>3, Zenon DEF Rendered, Voice
    <2>2. ASSUME NEW j \in 1 .. Len(u.sents)
          PROVE  /\ r[j] \in Voices /\ r[j].kind = u.kind /\ r[j].at = u.at /\ r[j].atom = u.atom
                 /\ r[j].words = u.sents[j].words
      <3>1. u.sents[j] \in Clauses
        BY <1>1
      <3>2. PICK t \in Nat \X Nat, n \in Nat, c \in Seq(Clauses) \ {<<>>} :
              t = u.sents[j].text /\ n = u.sents[j].words /\ c = <<u.sents[j]>> /\ t \in Spoken
        <4>1. u.sents[j].text \in Spoken /\ u.sents[j].words \in Nat
          BY <3>1 DEF Clauses
        <4>2. Spoken \subseteq Nat \X Nat
          BY DEF Spoken, Refrain
        <4>3. <<u.sents[j]>> \in Seq(Clauses) \ {<<>>}
          BY <3>1
        <4> QED BY <4>1, <4>2, <4>3
      <3>3. r[j] = Voice(u, t, n, c, form)
        BY <3>2
      <3> HIDE DEF r
      <3>4. u.atom # 0 => t = <<u.at, 0>>
        BY <1>3
      <3>5. u.atom = 0 => t \in Spoken
        BY <3>2
      <3>6. PICK x : x = Voice(u, t, n, c, form)
        OBVIOUS
      <3>7. x \in Voices /\ x.kind = u.kind /\ x.at = u.at /\ x.atom = u.atom /\ x.words = n
        BY <3>4, <3>5, <3>6, VoiceIs
      <3> QED BY <3>2, <3>3, <3>6, <3>7
    <2>3. r \in [1 .. Len(u.sents) -> Voices]
      BY <2>2
    <2>4. r \in Seq(Voices) /\ Len(r) = Len(u.sents)
      <3>1. DOMAIN r = 1 .. Len(u.sents)
        OBVIOUS
      <3> HIDE DEF r
      <3> QED BY <1>1, <2>3, <3>1
    <2> HIDE DEF r
    <2>5. r # <<>>
      BY <1>1, <2>4, EmptyIs
    <2>6. Linked(r, Neighbours(Voices))
      <3>1. ASSUME NEW i \in 1 .. Len(r) - 1 PROVE <<r[i], r[i + 1]>> \in Neighbours(Voices)
        <4>1. i \in 1 .. Len(u.sents) /\ i + 1 \in 1 .. Len(u.sents)
          BY <1>1, <2>4
        <4>2. r[i].atom = 0 /\ r[i + 1].atom = 0 /\ r[i].at = u.at /\ r[i + 1].at = u.at
          BY <1>3, <2>2, <4>1
        <4>3. Follows(r[i], r[i + 1])
          BY <1>1, <4>2 DEF Follows, Bound
        <4> QED BY <2>2, <4>1, <4>3 DEF Neighbours
      <3> QED BY <3>1 DEF Linked
    <2>7. WordsOf(r) = WordsOf(u.sents)
      <3>1. DOMAIN r = 1 .. Len(u.sents) /\ DOMAIN u.sents = 1 .. Len(u.sents) /\ Len(u.sents) \in Nat
        BY <1>1, <2>3
      <3>2. PICK w : /\ w[0] = 0 /\ w[Len(u.sents)] = WordsOf(r)
                     /\ \A n \in 1 .. Len(u.sents) : w[n] = w[n - 1] + r[n].words
        BY <3>1, WordsChain
      <3>3. PICK v : /\ v[0] = 0 /\ v[Len(u.sents)] = WordsOf(u.sents)
                     /\ \A n \in 1 .. Len(u.sents) : v[n] = v[n - 1] + u.sents[n].words
        BY <3>1, WordsChain
      <3> DEFINE G == {n \in Nat : n \in 0 .. Len(u.sents) => w[n] = v[n]}
      <3>4. 0 \in G
        BY <3>2, <3>3
      <3>5. ASSUME NEW n \in Nat, n \in G PROVE n + 1 \in G
        <4>1. SUFFICES ASSUME n + 1 \in 0 .. Len(u.sents) PROVE w[n + 1] = v[n + 1]
          OBVIOUS
        <4>2. n + 1 \in 1 .. Len(u.sents) /\ n + 1 - 1 = n /\ n \in 0 .. Len(u.sents)
          BY <3>1, <4>1
        <4>3. w[n] = v[n] /\ r[n + 1].words = u.sents[n + 1].words
          BY <2>2, <3>5, <4>2
        <4>4. w[n + 1] = w[n] + r[n + 1].words /\ v[n + 1] = v[n] + u.sents[n + 1].words
          BY <3>2, <3>3, <4>2
        <4> QED BY <4>3, <4>4
      <3>6. Len(u.sents) \in G
        <4> HIDE DEF G
        <4> QED BY <1>1, <3>4, <3>5, SetInduction
      <3>7. Len(u.sents) \in 0 .. Len(u.sents)
        BY <1>1
      <3> QED BY <3>2, <3>3, <3>6, <3>7
    <2>8. \A j \in 1 .. Len(r) : r[j].kind = u.kind /\ r[j].at = u.at /\ r[j].atom = u.atom
      BY <2>2, <2>4
    <2> QED BY <1>3, <2>1, <2>4, <2>5, <2>6, <2>7, <2>8
  <1> QED BY <1>1, <1>2, <1>3

\* Only the bullets of a listed unit tell its forms apart.
LEMMA RenderedAlike ==
  ASSUME NEW u \in Units, u.kind \notin Listed
  PROVE  Rendered(u, "raw") = Rendered(u, "plain")
  <1>1. \A text, words, sents : Voice(u, text, words, sents, "raw") = Voice(u, text, words, sents, "plain")
    BY Zenon DEF Voice
  <1>2. ASSUME NEW form
        PROVE  Rendered(u, form) =
                 IF u.atom # 0 THEN <<Voice(u, <<u.at, 0>>, WordsOf(u.sents), u.sents, form)>>
                 ELSE [j \in DOMAIN u.sents |->
                         Voice(u, u.sents[j].text, u.sents[j].words, <<u.sents[j]>>, form)]
    BY Zenon DEF Rendered, Voice
  <1>3. [j \in DOMAIN u.sents |-> Voice(u, u.sents[j].text, u.sents[j].words, <<u.sents[j]>>, "raw")] =
        [j \in DOMAIN u.sents |-> Voice(u, u.sents[j].text, u.sents[j].words, <<u.sents[j]>>, "plain")]
    BY <1>1, Zenon
  <1>4. <<Voice(u, <<u.at, 0>>, WordsOf(u.sents), u.sents, "raw")>> =
        <<Voice(u, <<u.at, 0>>, WordsOf(u.sents), u.sents, "plain")>>
    BY <1>1, Zenon
  <1>5. CASE u.atom # 0
    BY <1>2, <1>4, <1>5, Zenon
  <1>6. CASE u.atom = 0
    BY <1>2, <1>3, <1>6, Zenon
  <1> QED BY <1>5, <1>6

\* Two elements, one behind the other.
Beside(s, x, y) == \E k \in 1 .. Len(s) - 1 : s[k] = x /\ s[k + 1] = y

LEMMA BesideAppend ==
  ASSUME NEW X, NEW s \in Seq(X), NEW z \in X
  PROVE  /\ \A x, y : Beside(s, x, y) => Beside(Append(s, z), x, y)
         /\ s # <<>> => Beside(Append(s, z), Last(s), z)
  <1>1. /\ Len(Append(s, z)) = Len(s) + 1 /\ Append(s, z)[Len(s) + 1] = z /\ Len(s) \in Nat
        /\ \A i \in 1 .. Len(s) : Append(s, z)[i] = s[i]
    OBVIOUS
  <1>2. ASSUME NEW x, NEW y, Beside(s, x, y) PROVE Beside(Append(s, z), x, y)
    <2>1. PICK k \in 1 .. Len(s) - 1 : s[k] = x /\ s[k + 1] = y
      BY <1>2 DEF Beside
    <2>2. k \in 1 .. Len(s) /\ k + 1 \in 1 .. Len(s) /\ k \in 1 .. Len(Append(s, z)) - 1
      BY <1>1, <2>1
    <2>3. Append(s, z)[k] = x /\ Append(s, z)[k + 1] = y
      BY <1>1, <2>1, <2>2
    <2> QED BY <2>2, <2>3 DEF Beside
  <1>3. ASSUME s # <<>> PROVE Beside(Append(s, z), Last(s), z)
    <2>1. Len(s) \in Nat \ {0} /\ Last(s) = s[Len(s)]
      BY <1>3, LastIs
    <2>2. Len(s) \in 1 .. Len(Append(s, z)) - 1 /\ Len(s) \in 1 .. Len(s)
      BY <1>1, <2>1
    <2>3. Append(s, z)[Len(s)] = Last(s)
      BY <1>1, <2>1, <2>2
    <2> QED BY <1>1, <2>2, <2>3 DEF Beside
  <1> QED BY <1>2, <1>3

Turned(form) == [u \in Units |-> Rendered(u, form)]

LEMMA TurnedIs ==
  ASSUME NEW form \in {"plain", "raw"}
  PROVE  /\ Turned(form) \in Maps(Units, Voices)
         /\ \A u \in Units : Turned(form)[u] = Rendered(u, form) /\ Turned(form)[u] # <<>>
         /\ \A us \in Seq(Units) : Content(us, form) = Spread(us, Turned(form))
         /\ \A v \in Voices : v.words \in Nat
  <1>1. \A u \in Units : Rendered(u, form) \in Seq(Voices) /\ Rendered(u, form) # <<>>
    BY RenderedIs
  <1>2. /\ Turned(form) \in Maps(Units, Voices)
        /\ \A u \in Units : Turned(form)[u] = Rendered(u, form) /\ Turned(form)[u] # <<>>
    BY <1>1 DEF Turned, Maps
  <1>3. ASSUME NEW us \in Seq(Units) PROVE Content(us, form) = Spread(us, Turned(form))
    <2>1. \A i \in DOMAIN us : Rendered(us[i], form) = Turned(form)[us[i]]
      <3>1. \A i \in DOMAIN us : us[i] \in Units
        OBVIOUS
      <3> QED BY <1>2, <3>1
    <2>2. [i \in DOMAIN us |-> Rendered(us[i], form)] = [i \in DOMAIN us |-> Turned(form)[us[i]]]
      BY <2>1, Zenon
    <2> QED BY <2>2, Zenon DEF Content, Spread
  <1>4. \A v \in Voices : v.words \in Nat
    BY DEF Voices
  <1> QED BY <1>2, <1>3, <1>4

\* What units say has their words.
LEMMA ContentWords ==
  ASSUME NEW form \in {"plain", "raw"}, NEW g \in Seq(Units)
  PROVE  Content(g, form) \in Seq(Voices) /\ WordsOf(Content(g, form)) = Whole(g)
  <1> DEFINE f == Turned(form)
             P == {s \in Seq(Units) : Spread(s, f) \in Seq(Voices) /\ WordsOf(Spread(s, f)) = Whole(s)}
  <1>1. <<>> \in P
    <2>1. <<>> \in Seq(Units) /\ Spread(<<>>, f) = <<>> /\ <<>> \in Seq(Voices)
      BY SpreadEmpty
    <2>2. Whole(<<>>) = WordsOf(<<>>)
      <3>1. [i \in DOMAIN <<>> |-> <<>>[i].sents] = <<>>
        OBVIOUS
      <3> QED BY <3>1, FlattenEmpty, Zenon DEF Whole
    <2> QED BY <2>1, <2>2
  <1>2. ASSUME NEW s \in Seq(Units), NEW u \in Units, s \in P PROVE Append(s, u) \in P
    <2>1. f \in Maps(Units, Voices) /\ f[u] = Rendered(u, form)
      BY TurnedIs
    <2>2. f[u] \in Seq(Voices) /\ WordsOf(f[u]) = WordsOf(u.sents)
      BY <2>1, RenderedIs
    <2>3. Spread(Append(s, u), f) = Spread(s, f) \o f[u]
      <3> HIDE DEF f
      <3> QED BY <2>1, SpreadIs
    <2>4. PICK t \in Seq(Voices) : t = Spread(s, f) /\ WordsOf(t) = Whole(s)
      BY <1>2
    <2>5. WordsOf(t \o f[u]) = WordsOf(t) + WordsOf(f[u])
      <3> HIDE DEF f
      <3> QED BY <2>2, TurnedIs, WordsConcat
    <2>6. Whole(Append(s, u)) = Whole(s) + WordsOf(u.sents)
      BY WholeIs
    <2>7. t \o f[u] \in Seq(Voices)
      <3> HIDE DEF f
      <3> QED BY <2>2, <2>4
    <2>8. Append(s, u) \in Seq(Units)
      OBVIOUS
    <2>9. Spread(Append(s, u), f) = t \o f[u]
      BY <2>3, <2>4
    <2> HIDE DEF f
    <2> QED BY <2>2, <2>4, <2>5, <2>6, <2>7, <2>8, <2>9
  <1>3. Seq(Units) \subseteq P
    <2> HIDE DEF P
    <2> QED BY <1>1, <1>2, SeqInduction
  <1>4. Content(g, form) = Spread(g, f)
    BY TurnedIs
  <1> QED BY <1>3, <1>4

LEMMA ContentIs ==
  ASSUME NEW form \in {"plain", "raw"}, NEW g \in Parts
  PROVE  /\ Content(g, form) # <<>> /\ Linked(Content(g, form), Neighbours(Voices))
         /\ \A i \in 1 .. Len(g) : ToSet(Rendered(g[i], form)) \subseteq ToSet(Content(g, form))
         /\ \A i \in 2 .. Len(g) : Bound(g[i - 1], g[i]) =>
              Beside(Content(g, form), Rendered(g[i - 1], form)[1], Rendered(g[i], form)[1])
  <1>1. g \in Seq(Units) /\ g # <<>> /\ Linked(g, Neighbours(Units)) /\ Len(g) \in Nat \ {0}
    BY PartsAre, LastIs
  <1>2. PICK f \in Maps(Units, Voices) :
          /\ \A u \in Units : f[u] = Rendered(u, form) /\ f[u] # <<>>
          /\ Content(g, form) = Spread(g, f)
    BY <1>1, TurnedIs
  <1>3. ASSUME NEW R
        PROVE  /\ Linked(Spread(g, f), R) <=>
                    /\ \A p \in 1 .. Len(g) : Linked(f[g[p]], R)
                    /\ \A p \in 1 .. Len(g) - 1 : <<Last(f[g[p]]), f[g[p + 1]][1]>> \in R
               /\ Spread(g, f) # <<>>
               /\ \A p \in 1 .. Len(g) : ToSet(f[g[p]]) \subseteq ToSet(Spread(g, f))
    BY <1>1, <1>2, SpreadLinked
  <1>4. Spread(g, f) # <<>> /\ \A p \in 1 .. Len(g) : ToSet(f[g[p]]) \subseteq ToSet(Spread(g, f))
    BY <1>3
  <1>5. \A p \in 1 .. Len(g) : g[p] \in Units /\ f[g[p]] = Rendered(g[p], form)
    BY <1>1, <1>2
  <1>6. ASSUME NEW u \in Units
        PROVE  /\ Rendered(u, form)[1] \in Voices /\ Last(Rendered(u, form)) \in Voices
               /\ Alike(u, Rendered(u, form)[1]) /\ Alike(u, Last(Rendered(u, form)))
               /\ u.atom # 0 => Last(Rendered(u, form)) = Rendered(u, form)[1]
    <2>1. PICK r \in Seq(Voices) : /\ r = Rendered(u, form) /\ r # <<>>
                                   /\ u.atom # 0 => Len(r) = 1
                                   /\ \A j \in 1 .. Len(r) : r[j].kind = u.kind /\ r[j].at = u.at /\ r[j].atom = u.atom
      BY RenderedIs
    <2>2. Len(r) \in Nat \ {0} /\ Last(r) = r[Len(r)]
      BY <2>1, LastIs
    <2>3. 1 \in 1 .. Len(r) /\ Len(r) \in 1 .. Len(r) /\ r[1] \in Voices /\ r[Len(r)] \in Voices
      BY <2>2
    <2> QED BY <2>1, <2>2, <2>3 DEF Alike
  <1>7. Linked(Spread(g, f), Neighbours(Voices))
    <2>1. \A p \in 1 .. Len(g) : Linked(f[g[p]], Neighbours(Voices))
      BY <1>5, RenderedIs
    <2>2. ASSUME NEW p \in 1 .. Len(g) - 1
          PROVE  <<Last(f[g[p]]), f[g[p + 1]][1]>> \in Neighbours(Voices)
      <3>1. p \in 1 .. Len(g) /\ p + 1 \in 1 .. Len(g)
        BY <1>1
      <3>2. Follows(g[p], g[p + 1])
        BY <1>1 DEF Linked, Neighbours
      <3>3. PICK u \in Units, v \in Units, a \in Voices, b \in Voices :
              /\ u = g[p] /\ v = g[p + 1] /\ a = Last(f[g[p]]) /\ b = f[g[p + 1]][1]
              /\ Alike(u, a) /\ Alike(v, b)
        BY <1>5, <1>6, <3>1
      <3>4. Follows(a, b)
        BY <3>2, <3>3 DEF Follows, Alike, Bound
      <3> QED BY <3>3, <3>4 DEF Neighbours
    <2> QED BY <1>3, <2>1, <2>2
  <1>8. ASSUME NEW i \in 2 .. Len(g), Bound(g[i - 1], g[i])
        PROVE  Beside(Spread(g, f), Rendered(g[i - 1], form)[1], Rendered(g[i], form)[1])
    <2>1. PICK x \in Voices, y \in Voices : x = Rendered(g[i - 1], form)[1] /\ y = Rendered(g[i], form)[1]
      BY <1>1, <1>5, <1>6
    <2> DEFINE R == {z \in Voices \X Voices : ~(z[1] = x /\ z[2] = y)}
    <2>2. i - 1 \in 1 .. Len(g) - 1 /\ i - 1 + 1 = i /\ i \in 1 .. Len(g) /\ i - 1 \in 1 .. Len(g)
      BY <1>1
    <2>3. Last(f[g[i - 1]]) = x /\ f[g[i]][1] = y
      BY <1>5, <1>6, <1>8, <2>1, <2>2 DEF Bound
    <2>4. <<x, y>> \notin R
      OBVIOUS
    <2>5. ~Linked(Spread(g, f), R)
      <3> HIDE DEF R
      <3>1. Linked(Spread(g, f), R) => <<Last(f[g[i - 1]]), f[g[i - 1 + 1]][1]>> \in R
        BY <1>3, <2>2
      <3> QED BY <2>2, <2>3, <2>4, <3>1
    <2>6. PICK k \in 1 .. Len(Spread(g, f)) - 1 : <<Spread(g, f)[k], Spread(g, f)[k + 1]>> \notin R
      BY <2>5 DEF Linked
    <2>7. Spread(g, f) \in Seq(Voices)
      BY <1>1, <1>2, ContentWords
    <2>8. Spread(g, f)[k] \in Voices /\ Spread(g, f)[k + 1] \in Voices
      BY <2>6, <2>7
    <2>9. Spread(g, f)[k] = x /\ Spread(g, f)[k + 1] = y
      BY <2>6, <2>8
    <2> QED BY <2>1, <2>6, <2>9 DEF Beside
  <1> QED BY <1>2, <1>4, <1>5, <1>7, <1>8

\* What was just said again is no part of what is bound.
LEMMA SaidAgain ==
  ASSUME NEW u \in Voices, NEW v \in Voices, v.atom = 0, u.text = v.text
  PROVE  u.atom = 0
  <1>1. SUFFICES ASSUME u.atom # 0 PROVE FALSE
    OBVIOUS
  <1>2. v.text = <<u.at, 0>> /\ u.at \in Nat \ {0}
    BY <1>1 DEF Voices
  <1>3. v.text \in Spoken
    BY DEF Voices
  <1> QED BY <1>2, <1>3 DEF Spoken, Refrain

LEMMA SentencesAre ==
  ASSUME NEW g \in Parts
  PROVE  /\ Sentences(g) \in Seq(Voices) /\ Sentences(g) # <<>>
         /\ Linked(Sentences(g), Neighbours(Voices))
         /\ \A x \in ToSet(Content(g, "plain")) : x.atom # 0 => x \in ToSet(Sentences(g))
         /\ \A x, y : Bound(x, y) /\ Beside(Content(g, "plain"), x, y) => Beside(Sentences(g), x, y)
  <1> DEFINE R == Neighbours(Voices)
  <1>1. PICK C \in Seq(Voices), N \in Nat \ {0} :
          /\ C = Content(g, "plain") /\ N = Len(C) /\ DOMAIN C = 1 .. N /\ Linked(C, R)
          /\ \A n \in 1 .. N : C[n] \in Voices
    <2>1. g \in Seq(Units)
      BY PartsAre
    <2>2. PICK C \in Seq(Voices) : C = Content(g, "plain")
      BY <2>1, ContentWords
    <2>3. C # <<>> /\ Linked(C, R)
      BY <2>2, ContentIs
    <2>4. Len(C) \in Nat \ {0}
      BY <2>3, LastIs
    <2> QED BY <2>2, <2>3, <2>4
  <1>2. PICK w : /\ w[0] = <<>> /\ w[N] = Sentences(g)
                 /\ \A n \in 1 .. N : w[n] = Said(w[n - 1], C[n])
    <2>1. N \in Nat /\ DOMAIN Content(g, "plain") = 1 .. N
      BY <1>1
    <2>2. \E w : /\ w[0] = <<>> /\ w[N] = Sentences(g)
                 /\ \A n \in 1 .. N : w[n] = Said(w[n - 1], Content(g, "plain")[n])
      BY <2>1, SaidChain
    <2> QED BY <1>1, <2>2
  <1> DEFINE same(u, v) == u = v \/ (u.atom = 0 /\ v.atom = 0 /\ u.at <= v.at)
             Good(n) == /\ w[n] \in Seq(Voices) /\ Linked(w[n], R)
                        /\ n # 0 => w[n] # <<>> /\ same(Last(w[n]), C[n])
                        /\ \A i \in 1 .. n : C[i].atom # 0 => C[i] \in ToSet(w[n])
                        /\ \A i \in 1 .. n - 1 : Bound(C[i], C[i + 1]) => Beside(w[n], C[i], C[i + 1])
             G == {n \in Nat : n \in 0 .. N => Good(n)}
  <1> HIDE DEF R
  <1>3. 0 \in G
    <2>1. w[0] = <<>> /\ w[0] \in Seq(Voices)
      BY <1>2
    <2>2. Linked(w[0], R)
      BY <2>1 DEF Linked
    <2>3. \A i \in 1 .. 0 : FALSE
      OBVIOUS
    <2>4. \A i \in 1 .. 0 - 1 : FALSE
      OBVIOUS
    <2> HIDE DEF same
    <2> QED BY <2>1, <2>2, <2>3, <2>4
  <1>4. ASSUME NEW n \in Nat, n \in G PROVE n + 1 \in G
    <2>1. SUFFICES ASSUME n + 1 \in 0 .. N PROVE Good(n + 1)
      OBVIOUS
    <2>2. n + 1 \in 1 .. N /\ n + 1 - 1 = n /\ n \in 0 .. N /\ n + 1 # 0
      BY <2>1
    <2>3. Good(n)
      BY <1>4, <2>2
    <2>4. w[n + 1] = Said(w[n], C[n + 1])
      BY <1>2, <2>2
    <2>5. PICK s \in Seq(Voices), v \in Voices : s = w[n] /\ v = C[n + 1] /\ Linked(s, R)
      BY <1>1, <2>2, <2>3
    <2>6. \A i \in 1 .. n + 1 : i \in 1 .. n \/ i = n + 1
      OBVIOUS
    <2>7. \A i \in 1 .. n + 1 - 1 : i \in 1 .. n - 1 \/ i = n
      OBVIOUS
    <2>8. s # <<>> => n # 0 /\ Last(s) \in Voices
      BY <1>2, <2>5, LastIs
    <2>9. n # 0 => s # <<>> /\ same(Last(s), C[n]) /\ C[n] \in Voices /\ Follows(C[n], v)
      <3>1. SUFFICES ASSUME n # 0 PROVE s # <<>> /\ same(Last(s), C[n]) /\ C[n] \in Voices /\ Follows(C[n], v)
        OBVIOUS
      <3>2. n \in 1 .. N /\ n \in 1 .. Len(C) - 1
        BY <1>1, <2>2, <3>1
      <3>3. Follows(C[n], C[n + 1])
        BY <1>1, <3>2 DEF Linked, Neighbours, R
      <3> QED BY <1>1, <2>3, <2>5, <3>1, <3>2, <3>3
    <2>10. CASE s # <<>> /\ v.atom = 0 /\ Last(s).text = v.text
      <3>1. w[n + 1] = s
        BY <2>4, <2>5, <2>10 DEF Said
      <3>2. Last(s).atom = 0 /\ n # 0 /\ Last(s) \in Voices
        BY <2>5, <2>8, <2>10, SaidAgain
      <3>3. same(Last(s), C[n]) /\ C[n].at <= v.at /\ C[n] \in Voices
        BY <2>9, <3>2 DEF Follows
      <3>4. Last(s).at \in Nat /\ C[n].at \in Nat /\ v.at \in Nat
        BY <3>2, <3>3 DEF Voices
      <3>5. Last(s).at <= v.at
        BY <3>3, <3>4
      <3>6. same(Last(w[n + 1]), C[n + 1])
        BY <2>5, <2>10, <3>1, <3>2, <3>5
      <3>7. ~Bound(C[n], C[n + 1])
        BY <2>5, <2>10 DEF Bound
      <3>8. \A i \in 1 .. n + 1 : C[i].atom # 0 => C[i] \in ToSet(w[n + 1])
        BY <2>3, <2>5, <2>6, <2>10, <3>1
      <3>9. \A i \in 1 .. n + 1 - 1 : Bound(C[i], C[i + 1]) => Beside(w[n + 1], C[i], C[i + 1])
        BY <2>3, <2>5, <2>7, <3>1, <3>7
      <3> HIDE DEF same
      <3> QED BY <2>5, <2>10, <3>1, <3>6, <3>8, <3>9
    <2>11. CASE ~(s # <<>> /\ v.atom = 0 /\ Last(s).text = v.text)
      <3>1. w[n + 1] = Append(s, v)
        BY <2>4, <2>5, <2>11 DEF Said
      <3>2. ASSUME s # <<>> PROVE <<Last(s), v>> \in R
        <4>1. same(Last(s), C[n]) /\ Follows(C[n], v) /\ Last(s) \in Voices /\ C[n] \in Voices
          BY <2>8, <2>9, <3>2
        <4>2. Last(s).at \in Nat /\ C[n].at \in Nat /\ v.at \in Nat
          BY <4>1 DEF Voices
        <4>3. Follows(Last(s), v)
          <5>1. CASE Last(s) = C[n]
            BY <4>1, <5>1
          <5>2. CASE Last(s).atom = 0 /\ C[n].atom = 0 /\ Last(s).at <= C[n].at
            BY <4>1, <4>2, <5>2 DEF Follows, Bound
          <5> QED BY <4>1, <5>1, <5>2
        <4> QED BY <4>1, <4>3 DEF R, Neighbours
      <3>3. /\ Append(s, v) \in Seq(Voices) /\ Linked(Append(s, v), R)
            /\ Append(s, v) # <<>> /\ Last(Append(s, v)) = v
        <4>1. Linked(Append(s, v), R)
          BY <2>5, <3>2, LinkedAppend
        <4>2. Append(s, v) # <<>> /\ Last(Append(s, v)) = v
          BY AppendEnds
        <4>3. Append(s, v) \in Seq(Voices)
          OBVIOUS
        <4> QED BY <4>1, <4>2, <4>3
      <3>4. ToSet(Append(s, v)) = ToSet(s) \cup {v}
        BY TypedIs, AppendIs
      <3>5. /\ \A x, y : Beside(s, x, y) => Beside(Append(s, v), x, y)
            /\ s # <<>> => Beside(Append(s, v), Last(s), v)
        BY BesideAppend
      <3>6. \A i \in 1 .. n + 1 : C[i].atom # 0 => C[i] \in ToSet(w[n + 1])
        BY <2>3, <2>5, <2>6, <3>1, <3>4
      <3>7. ASSUME n # 0, Bound(C[n], C[n + 1]) PROVE Beside(w[n + 1], C[n], C[n + 1])
        <4>1. Last(s) = C[n] /\ s # <<>>
          BY <2>9, <3>7 DEF Bound
        <4> QED BY <2>5, <3>1, <3>5, <4>1
      <3>8. \A i \in 1 .. n + 1 - 1 : Bound(C[i], C[i + 1]) => Beside(w[n + 1], C[i], C[i + 1])
        <4>1. \A i \in 1 .. n - 1 : Bound(C[i], C[i + 1]) => Beside(w[n + 1], C[i], C[i + 1])
          BY <2>3, <2>5, <3>1, <3>5
        <4> QED BY <2>7, <3>7, <4>1
      <3>9. same(Last(w[n + 1]), C[n + 1])
        BY <2>5, <3>1, <3>3
      <3> HIDE DEF same
      <3> QED BY <3>1, <3>3, <3>6, <3>8, <3>9
    <2> QED BY <2>10, <2>11
  <1>5. Good(N)
    <2>1. N \in G
      <3> HIDE DEF G
      <3> QED BY <1>1, <1>3, <1>4, SetInduction
    <2>2. N \in 0 .. N
      BY <1>1
    <2> QED BY <2>1, <2>2
  <1>6. ASSUME NEW x \in ToSet(C), x.atom # 0 PROVE x \in ToSet(Sentences(g))
    <2>1. PICK i \in 1 .. N : x = C[i]
      BY <1>1, <1>6 DEF ToSet
    <2> QED BY <1>2, <1>5, <1>6, <2>1
  <1>7. ASSUME NEW x, NEW y, Bound(x, y), Beside(C, x, y) PROVE Beside(Sentences(g), x, y)
    <2>1. PICK k \in 1 .. N - 1 : C[k] = x /\ C[k + 1] = y
      BY <1>1, <1>7 DEF Beside
    <2> QED BY <1>2, <1>5, <1>7, <2>1
  <1>8. Sentences(g) \in Seq(Voices) /\ Sentences(g) # <<>> /\ Linked(Sentences(g), R)
    BY <1>1, <1>2, <1>5
  <1> QED BY <1>1, <1>6, <1>7, <1>8 DEF R

-----------------------------------------------------------------------------
(* The children of a parent.                                               *)

\* A child in its size, of one unit, or with what is bound.
Capped(g) ==
  /\ WordsOf(g) \in Nat
  /\ \/ WordsOf(g) <= ChildMax
     \/ \E a : {s.at : s \in ToSet(g)} = {a}
     \/ \E i \in 2 .. Len(g) : Bound(g[i - 1], g[i])

LEMMA CappedAre ==
  ASSUME NEW g \in Seq(Voices) \ {<<>>}, NEW v \in Voices
  PROVE  /\ Capped(<<v>>)
         /\ Bound(Last(g), v) => Capped(Append(g, v))
         /\ WordsOf(g) + v.words <= ChildMax => Capped(Append(g, v))
  <1>0. WordsOf(<<v>>) \in Nat /\ WordsOf(Append(g, v)) \in Nat
    <2>1. \A x \in Voices : x.words \in Nat
      BY DEF Voices
    <2>2. <<v>> \in Seq(Voices) /\ Append(g, v) \in Seq(Voices)
      OBVIOUS
    <2> QED BY <2>1, <2>2, WordsAll
  <1>1. Capped(<<v>>)
    <2>1. ToSet(<<v>>) = {v}
      BY OneIs
    <2>2. {s.at : s \in ToSet(<<v>>)} = {v.at}
      BY <2>1
    <2> QED BY <1>0, <2>2 DEF Capped
  <1>2. ASSUME Bound(Last(g), v) PROVE Capped(Append(g, v))
    <2>1. /\ Len(g) \in Nat \ {0} /\ Last(g) = g[Len(g)] /\ Len(Append(g, v)) = Len(g) + 1
          /\ Append(g, v)[Len(g) + 1] = v /\ Append(g, v)[Len(g)] = g[Len(g)]
      <3>1. Len(g) \in Nat \ {0} /\ Last(g) = g[Len(g)]
        BY LastIs
      <3>2. g \in Seq(Voices) /\ Len(g) \in 1 .. Len(g)
        BY <3>1
      <3>3. /\ Len(Append(g, v)) = Len(g) + 1 /\ Append(g, v)[Len(g) + 1] = v
            /\ \A i \in 1 .. Len(g) : Append(g, v)[i] = g[i]
        BY <3>2
      <3> QED BY <3>1, <3>2, <3>3
    <2>2. PICK n \in Nat \ {0} : n = Len(g)
      BY <2>1
    <2> DEFINE h == Append(g, v)
    <2>3. Len(h) = n + 1 /\ h[n + 1] = v /\ h[n] = Last(g)
      BY <2>1, <2>2, Zenon
    <2> HIDE DEF h
    <2>4. n + 1 - 1 = n /\ n + 1 \in 2 .. n + 1
      OBVIOUS
    <2>5. \E i \in 2 .. Len(h) : Bound(h[i - 1], h[i])
      <3>1. Bound(h[n + 1 - 1], h[n + 1])
        BY <1>2, <2>3, <2>4, Zenon
      <3>2. n + 1 \in 2 .. Len(h)
        BY <2>3, <2>4, Zenon
      <3> DEFINE k == n + 1
      <3>3. k \in 2 .. Len(h) /\ Bound(h[k - 1], h[k])
        BY <3>1, <3>2
      <3> HIDE DEF k
      <3> QED BY <3>3, Zenon
    <2>6. Capped(h)
      BY <1>0, <2>5, Zenon DEF Capped, h
    <2> QED BY <2>6 DEF h
  <1>3. ASSUME WordsOf(g) + v.words <= ChildMax PROVE Capped(Append(g, v))
    <2>1. \A x \in Voices : x.words \in Nat
      BY DEF Voices
    <2>2. WordsOf(Append(g, v)) = WordsOf(g) + v.words
      <3>1. g \in Seq(Voices)
        OBVIOUS
      <3> QED BY <2>1, <3>1, WordsAre
    <2> QED BY <1>0, <1>3, <2>2 DEF Capped
  <1> QED BY <1>1, <1>2, <1>3

\* A child under construction, whose last sentence is v.
Growing == [groups : Groups(Voices), open : Seq(Voices) \ {<<>>}, heading : BOOLEAN, atom : Nat,
            table : BOOLEAN]

Grows(c, v) ==
  /\ c \in Growing /\ Last(c.open) = v /\ c.atom = v.atom
  /\ c.heading => IsHeading(v)
  /\ v.kind \in Tables => c.table
  /\ Capped(c.open) /\ \A g \in ToSet(c.groups) : Capped(g)

\* The sentences are in one of its groups.
Has(c, x, y) == \E h \in ToSet(c.groups) \cup {c.open} : x \in ToSet(h) /\ y \in ToSet(h)

Onward(c, u, d, v) ==
  /\ Grows(d, v) /\ \A x, y : Has(c, x, y) => Has(d, x, y)
  /\ Has(d, v, v)
  /\ Bound(u, v) => Has(d, u, v)

LEMMA LastIn ==
  ASSUME NEW X, NEW s \in Seq(X), s # <<>>
  PROVE  Last(s) \in ToSet(s)
  <1>1. Len(s) \in Nat \ {0} /\ Last(s) = s[Len(s)]
    BY LastIs
  <1>2. DOMAIN s = 1 .. Len(s) /\ Len(s) \in 1 .. Len(s)
    BY <1>1
  <1> QED BY <1>1, <1>2 DEF ToSet

LEMMA TakenIs ==
  ASSUME NEW c, NEW u \in Voices, NEW v \in Voices, Grows(c, u), NEW d \in Growing,
         d.groups = c.groups, d.open = Append(c.open, v), d.atom = v.atom, v.kind \notin Tables,
         d.heading => IsHeading(v), WordsOf(c.open) + v.words <= ChildMax \/ Bound(u, v)
  PROVE  Onward(c, u, d, v)
  <1>1. PICK o \in Seq(Voices) \ {<<>>} : o = c.open /\ Last(o) = u
    BY DEF Grows, Growing
  <1>2. Capped(Append(o, v))
    BY <1>1, CappedAre
  <1>3. Last(Append(o, v)) = v
    BY AppendEnds
  <1>4. ToSet(Append(o, v)) = ToSet(o) \cup {v}
    <2>1. o \in Seq(Voices)
      OBVIOUS
    <2> QED BY <2>1, TypedIs, AppendIs
  <1>5. u \in ToSet(o)
    <2>1. o \in Seq(Voices) /\ o # <<>>
      OBVIOUS
    <2> QED BY <1>1, <2>1, LastIn
  <1>6. Grows(d, v)
    BY <1>1, <1>2, <1>3 DEF Grows
  <1>7. Has(d, v, v) /\ Has(d, u, v)
    BY <1>1, <1>4, <1>5 DEF Has
  <1>8. ASSUME NEW x, NEW y, Has(c, x, y) PROVE Has(d, x, y)
    BY <1>1, <1>4, <1>8 DEF Has
  <1> QED BY <1>6, <1>7, <1>8 DEF Onward

LEMMA ClosedIs ==
  ASSUME NEW c, NEW u \in Voices, NEW v \in Voices, Grows(c, u), ~Bound(u, v)
  PROVE  Onward(c, u, Open(Append(c.groups, c.open), v), v)
  <1>1. PICK gs \in Groups(Voices), o \in Seq(Voices) \ {<<>>} :
          /\ gs = c.groups /\ o = c.open /\ Capped(o) /\ \A g \in ToSet(gs) : Capped(g)
    BY DEF Grows, Growing
  <1>2. Append(gs, o) \in Groups(Voices) /\ gs \in Seq(Seq(Voices))
    BY GroupsAre
  <1>3. ToSet(Append(gs, o)) = ToSet(gs) \cup {o}
    BY <1>2, TypedIs, AppendIs
  <1>4. PICK d : d = Open(Append(gs, o), v)
    OBVIOUS
  <1>5. /\ d.groups = Append(gs, o) /\ d.open = <<v>> /\ d.atom = v.atom
        /\ d.heading = IsHeading(v) /\ d.table = (v.kind \in Tables)
    BY <1>4 DEF Open
  <1>6. <<v>> \in Seq(Voices) \ {<<>>} /\ Last(<<v>>) = v
    BY AppendEnds
  <1>7. v.atom \in Nat
    BY DEF Voices
  <1>8. d \in Growing
    BY <1>2, <1>4, <1>6, <1>7 DEF Growing, Open, IsHeading
  <1>9. Capped(<<v>>)
    BY <1>6, CappedAre
  <1>10. Grows(d, v)
    BY <1>1, <1>3, <1>5, <1>6, <1>8, <1>9 DEF Grows
  <1>11. Has(d, v, v)
    <2>1. ToSet(<<v>>) = {v}
      BY OneIs
    <2> QED BY <1>5, <2>1 DEF Has
  <1>12. ASSUME NEW x, NEW y, Has(c, x, y) PROVE Has(d, x, y)
    BY <1>1, <1>3, <1>5, <1>12 DEF Has
  <1>13. Onward(c, u, d, v)
    BY <1>10, <1>11, <1>12 DEF Onward
  <1> QED BY <1>1, <1>4, <1>13

LEMMA MeetsAre ==
  ASSUME NEW c, NEW u \in Voices, NEW v \in Voices, Grows(c, u), Follows(u, v), NEW d \in Meets(c, v)
  PROVE  Onward(c, u, d, v)
  <1>1. PICK gs \in Groups(Voices), o \in Seq(Voices) \ {<<>>}, h \in BOOLEAN, t \in BOOLEAN :
          /\ c = [groups |-> gs, open |-> o, heading |-> h, atom |-> u.atom, table |-> t]
          /\ h => IsHeading(u)
          /\ u.kind \in Tables => t
    BY DEF Grows, Growing
  <1>2. Append(o, v) \in Seq(Voices) \ {<<>>}
    BY AppendEnds
  <1>3. u.atom \in Nat /\ v.atom \in Nat /\ (IsHeading(u) => u.atom = 0) /\ (IsHeading(v) => v.atom = 0)
    BY DEF Voices, IsHeading
  <1> DEFINE taken(b, a) == [groups |-> gs, open |-> Append(o, v), heading |-> b, atom |-> a, table |-> FALSE]
             fits == WordsOf(o) + v.words <= ChildMax
             closed == Open(Append(gs, o), v)
             a0 == IF v.atom # 0 THEN v.atom ELSE u.atom
  <1>4. d \in IF u.atom # 0 /\ u.atom = v.atom THEN {taken(FALSE, u.atom)}
              ELSE IF h /\ IsHeading(v) /\ fits THEN {taken(TRUE, u.atom)}
              ELSE IF IsHeading(v) \/ v.kind \in Tables \/ t THEN {closed}
              ELSE IF h /\ fits THEN {taken(FALSE, a0)}
              ELSE IF ~fits THEN {closed} ELSE {taken(FALSE, a0), closed}
    <2>1. c.groups = gs /\ c.open = o /\ c.atom = u.atom /\ c.heading = h /\ c.table = t
      BY <1>1
    <2>2. [c EXCEPT !.open = Append(@, v), !.heading = FALSE, !.table = FALSE] = taken(FALSE, u.atom)
      <3>1. c \in [groups : {gs}, open : {o}, heading : BOOLEAN, atom : {u.atom}, table : BOOLEAN]
        BY <1>1
      <3>2. PICK e : e = [c EXCEPT !.open = Append(@, v), !.heading = FALSE, !.table = FALSE]
        OBVIOUS
      <3>3. /\ e.groups = gs /\ e.open = Append(o, v) /\ e.heading = FALSE /\ e.atom = u.atom
            /\ e.table = FALSE
        BY <1>1, <3>2
      <3>4. DOMAIN e = {"groups", "open", "heading", "atom", "table"}
        BY <1>1, <3>2
      <3>5. e = [groups |-> e.groups, open |-> e.open, heading |-> e.heading, atom |-> e.atom, table |-> e.table]
        BY <1>1, <3>2
      <3> QED BY <3>2, <3>3, <3>5
    <2>3. [taken(FALSE, u.atom) EXCEPT !.heading = TRUE] = taken(TRUE, u.atom)
      <3>1. PICK e : e = [taken(FALSE, u.atom) EXCEPT !.heading = TRUE]
        OBVIOUS
      <3>2. /\ e.groups = gs /\ e.open = Append(o, v) /\ e.heading = TRUE /\ e.atom = u.atom
            /\ e.table = FALSE
        BY <3>1
      <3>3. e = [groups |-> e.groups, open |-> e.open, heading |-> e.heading, atom |-> e.atom, table |-> e.table]
        BY <3>1
      <3> QED BY <3>1, <3>2, <3>3
    <2>4. [taken(FALSE, u.atom) EXCEPT !.atom = IF v.atom # 0 THEN v.atom ELSE @] = taken(FALSE, a0)
      <3>1. PICK e : e = [taken(FALSE, u.atom) EXCEPT !.atom = IF v.atom # 0 THEN v.atom ELSE @]
        OBVIOUS
      <3>2. /\ e.groups = gs /\ e.open = Append(o, v) /\ e.heading = FALSE /\ e.atom = a0
            /\ e.table = FALSE
        BY <3>1
      <3>3. e = [groups |-> e.groups, open |-> e.open, heading |-> e.heading, atom |-> e.atom, table |-> e.table]
        BY <3>1
      <3> QED BY <3>1, <3>2, <3>3
    <2> HIDE DEF taken, a0
    <2> QED BY <2>1, <2>2, <2>3, <2>4, Zenon DEF Meets
  <1>5. ASSUME NEW b \in BOOLEAN, NEW a \in Nat, a = v.atom, d = taken(b, a), v.kind \notin Tables,
               b => IsHeading(v), fits \/ Bound(u, v)
        PROVE  Onward(c, u, d, v)
    <2>1. d \in Growing /\ d.groups = c.groups /\ d.open = Append(c.open, v) /\ d.atom = v.atom
      BY <1>1, <1>2, <1>5 DEF Growing
    <2>2. d.heading => IsHeading(v)
      BY <1>5
    <2>3. WordsOf(c.open) + v.words <= ChildMax \/ Bound(u, v)
      BY <1>1, <1>5
    <2> QED BY <1>5, <2>1, <2>2, <2>3, TakenIs
  <1>6. ASSUME ~Bound(u, v), d = closed PROVE Onward(c, u, d, v)
    <2>1. d = Open(Append(c.groups, c.open), v)
      BY <1>1, <1>6
    <2> QED BY <1>6, <2>1, ClosedIs
  <1>7. CASE u.atom # 0 /\ u.atom = v.atom
    <2>1. d = taken(FALSE, u.atom) /\ Bound(u, v) /\ v.kind \notin Tables
      BY <1>4, <1>7 DEF Follows, Bound
    <2> HIDE DEF taken
    <2> QED BY <1>3, <1>5, <1>7, <2>1
  <1>8. CASE ~(u.atom # 0 /\ u.atom = v.atom)
    <2>1. ~Bound(u, v)
      BY <1>8 DEF Bound
    <2>2. CASE h /\ IsHeading(v) /\ fits
      <3>1. d = taken(TRUE, u.atom) /\ u.atom = v.atom /\ v.kind \notin Tables
        BY <1>1, <1>3, <1>4, <1>8, <2>2 DEF IsHeading, Tables
      <3> HIDE DEF taken
      <3> QED BY <1>3, <1>5, <2>2, <3>1
    <2>3. CASE ~(h /\ IsHeading(v) /\ fits) /\ (IsHeading(v) \/ v.kind \in Tables \/ t)
      <3>1. d = closed
        BY <1>4, <1>8, <2>3
      <3> QED BY <1>6, <2>1, <3>1
    <2>4. CASE ~(h /\ IsHeading(v) /\ fits) /\ ~(IsHeading(v) \/ v.kind \in Tables \/ t)
      <3>1. a0 = v.atom
        <4>1. u.atom # 0 => v.atom # 0
          BY <1>1, <2>4 DEF Follows, IsHeading
        <4> QED BY <1>3, <4>1
      <3>2. d = closed \/ (fits /\ d = taken(FALSE, a0))
        <4> HIDE DEF taken, closed
        <4> QED BY <1>4, <1>8, <2>4
      <3>3. ASSUME fits, d = taken(FALSE, a0) PROVE Onward(c, u, d, v)
        <4> HIDE DEF taken, fits, a0
        <4> QED BY <1>3, <1>5, <2>4, <3>1, <3>3
      <3> QED BY <1>6, <2>1, <3>2, <3>3
    <2> QED BY <2>2, <2>3, <2>4
  <1> QED BY <1>7, <1>8

\* The sentences are in one of the groups.
Holds(groups, x, y) == \E h \in ToSet(groups) : x \in ToSet(h) /\ y \in ToSet(h)

LEMMA PackingsAre ==
  ASSUME NEW said \in Seq(Voices), said # <<>>, Linked(said, Neighbours(Voices)),
         NEW groups \in Packings(said)
  PROVE  /\ groups \in Groups(Voices) /\ groups # <<>>
         /\ \A g \in ToSet(groups) : Capped(g)
         /\ \A x \in ToSet(said) : Holds(groups, x, x)
         /\ \A x, y : Bound(x, y) /\ Beside(said, x, y) => Holds(groups, x, y)
  <1>1. PICK N \in Nat, t \in Seq(Voices) :
          /\ Len(said) = N + 1 /\ DOMAIN said = 1 .. N + 1 /\ t = Tail(said) /\ DOMAIN t = 1 .. N
          /\ \A n \in 1 .. N : t[n] = said[n + 1]
          /\ Head(said) = said[1] /\ said[1] \in Voices
    <2>1. Len(said) \in Nat \ {0}
      BY LastIs
    <2>2. Len(said) - 1 \in Nat /\ Len(said) = Len(said) - 1 + 1
      BY <2>1
    <2>3. Tail(said) \in Seq(Voices) /\ Len(Tail(said)) = Len(said) - 1
      BY <2>1
    <2>4. \A n \in 1 .. Len(said) - 1 : Tail(said)[n] = said[n + 1]
      BY <2>1
    <2>5. Head(said) = said[1] /\ said[1] \in Voices
      BY <2>1
    <2>6. DOMAIN said = 1 .. Len(said) /\ DOMAIN Tail(said) = 1 .. Len(Tail(said))
      BY <2>3
    <2>7. PICK N \in Nat : N = Len(said) - 1
      BY <2>2
    <2>8. /\ Len(said) = N + 1 /\ DOMAIN said = 1 .. N + 1 /\ DOMAIN Tail(said) = 1 .. N
          /\ \A n \in 1 .. N : Tail(said)[n] = said[n + 1]
      BY <2>2, <2>3, <2>4, <2>6, <2>7
    <2> QED BY <2>3, <2>5, <2>8
  <1> DEFINE first == {Open(<<>>, Head(said))}
  <1>2. PICK w : /\ w[0] = first
                 /\ w[N] = Met(first, Tail(said))
                 /\ \A n \in 1 .. N : w[n] = MetBy(w[n - 1], t[n])
    <2> HIDE DEF first
    <2>1. \E w : /\ w[0] = first
                 /\ w[N] = Met(first, t)
                 /\ \A n \in 1 .. N : w[n] = MetBy(w[n - 1], t[n])
      <3>1. PICK x, z : x = first /\ z = t
        OBVIOUS
      <3>2. N \in Nat /\ DOMAIN z = 1 .. N
        BY <1>1, <3>1
      <3>3. PICK y : y = Met(x, z)
        OBVIOUS
      <3>4. \E w : /\ w[0] = x /\ w[N] = y
                   /\ \A n \in 1 .. N : w[n] = MetBy(w[n - 1], z[n])
        BY <3>2, <3>3, MeetChain
      <3> QED BY <3>1, <3>3, <3>4, Zenon
    <2> QED BY <1>1, <2>1
  <1> DEFINE Good(n) == \A c \in w[n] :
                          /\ Grows(c, said[n + 1])
                          /\ \A i \in 1 .. n + 1 : Has(c, said[i], said[i])
                          /\ \A i \in 1 .. n : Bound(said[i], said[i + 1]) => Has(c, said[i], said[i + 1])
             G == {n \in Nat : n \in 0 .. N => Good(n)}
  <1>3. 0 \in G
    <2>1. SUFFICES ASSUME NEW c \in w[0]
                   PROVE  /\ Grows(c, said[0 + 1])
                          /\ \A i \in 1 .. 0 + 1 : Has(c, said[i], said[i])
                          /\ \A i \in 1 .. 0 : Bound(said[i], said[i + 1]) => Has(c, said[i], said[i + 1])
      OBVIOUS
    <2>2. PICK v \in Voices : v = said[1] /\ v = said[0 + 1] /\ v = Head(said)
      BY <1>1
    <2>3. c = Open(<<>>, v)
      BY <1>2, <2>2
    <2>4. /\ c.groups = <<>> /\ c.open = <<v>> /\ c.atom = v.atom
          /\ c.heading = IsHeading(v) /\ c.table = (v.kind \in Tables)
      BY <2>3 DEF Open
    <2>5. <<v>> \in Seq(Voices) \ {<<>>} /\ Last(<<v>>) = v
      BY AppendEnds
    <2>6. <<>> \in Groups(Voices)
      BY DEF Groups
    <2>7. v.atom \in Nat
      BY DEF Voices
    <2>8. c \in Growing
      BY <2>3, <2>5, <2>6, <2>7 DEF Growing, Open, IsHeading
    <2>9. Capped(<<v>>)
      BY <2>5, CappedAre
    <2>10. ToSet(<<>>) = {} /\ ToSet(<<v>>) = {v}
      BY OneIs, EmptyIs
    <2>11. Grows(c, v)
      BY <2>4, <2>5, <2>8, <2>9, <2>10 DEF Grows
    <2>12. Has(c, v, v)
      BY <2>4, <2>10 DEF Has
    <2>13. \A i \in 1 .. 0 + 1 : i = 1
      OBVIOUS
    <2>14. \A i \in 1 .. 0 : FALSE
      OBVIOUS
    <2> QED BY <2>2, <2>11, <2>12, <2>13, <2>14
  <1>4. ASSUME NEW n \in Nat, n \in G PROVE n + 1 \in G
    <2>1. SUFFICES ASSUME n + 1 \in 0 .. N PROVE Good(n + 1)
      <3> HIDE DEF Good
      <3> QED OBVIOUS
    <2>2. n + 1 \in 1 .. N /\ n + 1 - 1 = n /\ n \in 0 .. N /\ n + 1 \in 1 .. N + 1 /\ n + 1 + 1 \in 1 .. N + 1
      BY <2>1
    <2>3. Good(n)
      BY <1>4, <2>2
    <2>4. PICK u \in Voices, v \in Voices : u = said[n + 1] /\ v = said[n + 1 + 1] /\ v = t[n + 1]
      BY <1>1, <2>2
    <2>5. Follows(u, v)
      <3>1. n + 1 \in 1 .. Len(said) - 1
        BY <1>1, <2>2
      <3>2. <<said[n + 1], said[n + 1 + 1]>> \in Neighbours(Voices)
        BY <3>1 DEF Linked
      <3> QED BY <2>4, <3>2 DEF Neighbours
    <2>6. SUFFICES ASSUME NEW d \in w[n + 1]
                   PROVE  /\ Grows(d, said[n + 1 + 1])
                          /\ \A i \in 1 .. n + 1 + 1 : Has(d, said[i], said[i])
                          /\ \A i \in 1 .. n + 1 : Bound(said[i], said[i + 1]) => Has(d, said[i], said[i + 1])
      OBVIOUS
    <2>7. PICK c \in w[n] : d \in Meets(c, v)
      <3>1. w[n + 1] = MetBy(w[n + 1 - 1], t[n + 1])
        BY <1>2, <2>2
      <3>2. w[n + 1] = MetBy(w[n], v)
        BY <2>2, <2>4, <3>1
      <3> QED BY <2>6, <3>2 DEF MetBy
    <2>8. /\ Grows(c, u)
          /\ \A i \in 1 .. n + 1 : Has(c, said[i], said[i])
          /\ \A i \in 1 .. n : Bound(said[i], said[i + 1]) => Has(c, said[i], said[i + 1])
      BY <2>3, <2>4, <2>7
    <2>9. Onward(c, u, d, v)
      BY <2>5, <2>7, <2>8, MeetsAre
    <2>10. /\ Grows(d, v) /\ \A x, y : Has(c, x, y) => Has(d, x, y)
           /\ Has(d, v, v)
           /\ Bound(u, v) => Has(d, u, v)
      BY <2>9 DEF Onward
    <2>11. \A i \in 1 .. n + 1 + 1 : i \in 1 .. n + 1 \/ i = n + 1 + 1
      OBVIOUS
    <2>12. \A i \in 1 .. n + 1 : i \in 1 .. n \/ i = n + 1
      OBVIOUS
    <2>13. \A i \in 1 .. n + 1 + 1 : Has(d, said[i], said[i])
      BY <2>4, <2>8, <2>10, <2>11
    <2>14. \A i \in 1 .. n + 1 : Bound(said[i], said[i + 1]) => Has(d, said[i], said[i + 1])
      BY <2>4, <2>8, <2>10, <2>12
    <2> QED BY <2>4, <2>10, <2>13, <2>14
  <1>5. Good(N)
    <2>1. N \in G
      <3> HIDE DEF G
      <3> QED BY <1>1, <1>3, <1>4, SetInduction
    <2> QED BY <2>1
  <1>6. PICK c \in w[N] : groups = Append(c.groups, c.open)
    <2>1. Packings(said) = {Append(c.groups, c.open) : c \in Met(first, Tail(said))}
      BY DEF Packings, Met
    <2> QED BY <1>2, <2>1
  <1>7. PICK gs \in Groups(Voices), o \in Seq(Voices) \ {<<>>} :
          /\ gs = c.groups /\ o = c.open /\ groups = Append(gs, o)
          /\ Capped(o) /\ \A g \in ToSet(gs) : Capped(g)
    BY <1>5, <1>6 DEF Grows, Growing
  <1>8. groups \in Groups(Voices) /\ gs \in Seq(Seq(Voices))
    BY <1>7, GroupsAre
  <1>9. groups # <<>>
    BY <1>7, <1>8, AppendEnds
  <1>10. ToSet(groups) = ToSet(gs) \cup {o}
    BY <1>7, <1>8, TypedIs, AppendIs
  <1>11. \A x, y : Has(c, x, y) => Holds(groups, x, y)
    BY <1>7, <1>10 DEF Has, Holds
  <1>12. ASSUME NEW x \in ToSet(said) PROVE Holds(groups, x, x)
    <2>1. PICK i \in 1 .. N + 1 : x = said[i]
      BY <1>1, <1>12 DEF ToSet
    <2> QED BY <1>5, <1>6, <1>11, <2>1
  <1>13. ASSUME NEW x, NEW y, Bound(x, y), Beside(said, x, y) PROVE Holds(groups, x, y)
    <2>1. PICK k \in 1 .. N + 1 - 1 : said[k] = x /\ said[k + 1] = y
      BY <1>1, <1>13 DEF Beside
    <2>2. k \in 1 .. N
      BY <1>1
    <2> QED BY <1>5, <1>6, <1>11, <1>13, <2>1, <2>2
  <1> QED BY <1>7, <1>8, <1>9, <1>10, <1>12, <1>13

\* A group in which all sentences of g are.
Covers(groups, g) == \E h \in ToSet(groups) : ToSet(g) \subseteq ToSet(h)

AllCapped(groups) == \A g \in ToSet(groups) : Capped(g)

\* A group more, or more in the last one.
Grown(groups, g, more) ==
  \/ more = Append(groups, g)
  \/ groups # <<>> /\ Fit(Last(groups), g) /\ more = LastTakes(groups, g)

LEMMA JoinedFits ==
  ASSUME NEW g \in Seq(Voices) \ {<<>>}, NEW h \in Seq(Voices) \ {<<>>}
  PROVE  /\ g \o h \in Seq(Voices) \ {<<>>} /\ ToSet(g \o h) = ToSet(g) \cup ToSet(h)
         /\ Fit(g, h) => Capped(g \o h)
  <1>1. g \in Seq(Voices) /\ h \in Seq(Voices)
    OBVIOUS
  <1>2. ToSet(g \o h) = ToSet(g) \cup ToSet(h)
    BY <1>1, TypedIs, ConcatIs
  <1>3. g \o h # <<>>
    BY <1>1, ConcatEnds
  <1>4. \A x \in Voices : x.words \in Nat
    BY DEF Voices
  <1>5. WordsOf(g \o h) = WordsOf(g) + WordsOf(h)
    BY <1>1, <1>4, WordsConcat
  <1>6. g \o h \in Seq(Voices)
    BY <1>1
  <1>7. WordsOf(g \o h) \in Nat
    BY <1>4, <1>6, WordsAll
  <1> QED BY <1>2, <1>3, <1>5, <1>6, <1>7 DEF Fit, Capped

LEMMA GrownIs ==
  ASSUME NEW groups \in Groups(Voices), NEW g \in Seq(Voices) \ {<<>>}, NEW more,
         AllCapped(groups), Capped(g), Grown(groups, g, more)
  PROVE  /\ more \in Groups(Voices) /\ more # <<>> /\ AllCapped(more) /\ Covers(more, g)
         /\ \A x : Covers(groups, x) => Covers(more, x)
  <1>1. groups \in Seq(Seq(Voices)) /\ Append(groups, g) \in Groups(Voices)
    BY GroupsAre
  <1>2. g \in Seq(Voices)
    OBVIOUS
  <1>3. CASE more = Append(groups, g)
    <2>1. ToSet(more) = ToSet(groups) \cup {g}
      BY <1>1, <1>3, TypedIs, AppendIs
    <2>2. more # <<>>
      BY <1>1, <1>2, <1>3, AppendEnds
    <2> QED BY <1>1, <1>3, <2>1, <2>2 DEF AllCapped, Covers
  <1>4. CASE groups # <<>> /\ Fit(Last(groups), g) /\ more = LastTakes(groups, g)
    <2>1. PICK fs \in Groups(Voices), l \in Seq(Voices) \ {<<>>} :
            fs = Front(groups) /\ l = Last(groups) /\ groups = Append(fs, l)
      BY <1>4, GroupsAre
    <2>2. fs \in Seq(Seq(Voices)) /\ l \in Seq(Voices)
      BY GroupsAre
    <2>3. PICK j \in Seq(Voices) \ {<<>>} : j = l \o g /\ ToSet(j) = ToSet(l) \cup ToSet(g) /\ Capped(j)
      BY <1>4, <2>1, JoinedFits
    <2>4. Append(fs, j) \in Groups(Voices) /\ j \in Seq(Voices)
      BY GroupsAre
    <2>5. more = fs \o <<j>>
      BY <1>4, <2>1, <2>3 DEF LastTakes
    <2>6. fs \o <<j>> = Append(fs, j)
      BY <2>2, <2>4, ConcatLaws
    <2>7. ToSet(Append(fs, j)) = ToSet(fs) \cup {j} /\ ToSet(groups) = ToSet(fs) \cup {l}
      BY <2>1, <2>2, TypedIs, AppendIs
    <2>8. Append(fs, j) # <<>>
      BY <2>7, EmptyIs
    <2> QED BY <2>3, <2>4, <2>5, <2>6, <2>7, <2>8 DEF AllCapped, Covers
  <1> QED BY <1>3, <1>4 DEF Grown

LEMMA GrownChain ==
  ASSUME NEW groups \in Groups(Voices), AllCapped(groups), NEW N \in Nat, N = Len(groups), NEW w,
         w[0] = <<>>, \A n \in 1 .. N : Grown(w[n - 1], groups[n], w[n])
  PROVE  /\ w[N] \in Groups(Voices) /\ AllCapped(w[N])
         /\ groups # <<>> => w[N] # <<>>
         /\ \A g \in ToSet(groups) : Covers(w[N], g)
  <1>1. /\ DOMAIN groups = 1 .. N
        /\ \A n \in 1 .. N : groups[n] \in Seq(Voices) \ {<<>>} /\ Capped(groups[n])
    <2>1. groups \in Seq(Seq(Voices) \ {<<>>})
      BY DEF Groups
    <2>2. DOMAIN groups = 1 .. N /\ \A n \in 1 .. N : groups[n] \in Seq(Voices) \ {<<>>}
      BY <2>1
    <2> QED BY <2>2 DEF AllCapped, ToSet
  <1> DEFINE Good(n) == /\ w[n] \in Groups(Voices) /\ AllCapped(w[n])
                        /\ n # 0 => w[n] # <<>>
                        /\ \A i \in 1 .. n : Covers(w[n], groups[i])
             G == {n \in Nat : n \in 0 .. N => Good(n)}
  <1>2. 0 \in G
    <2>1. <<>> \in Groups(Voices)
      BY DEF Groups
    <2>2. AllCapped(<<>>)
      BY EmptyIs DEF AllCapped
    <2>3. \A i \in 1 .. 0 : FALSE
      OBVIOUS
    <2> QED BY <2>1, <2>2, <2>3
  <1>3. ASSUME NEW n \in Nat, n \in G PROVE n + 1 \in G
    <2>1. SUFFICES ASSUME n + 1 \in 0 .. N PROVE Good(n + 1)
      <3> HIDE DEF Good
      <3> QED OBVIOUS
    <2>2. n + 1 \in 1 .. N /\ n + 1 - 1 = n /\ n \in 0 .. N /\ n + 1 # 0
      BY <2>1
    <2>3. Good(n)
      BY <1>3, <2>2
    <2>4. PICK gs \in Groups(Voices), g \in Seq(Voices) \ {<<>>} :
            /\ gs = w[n] /\ g = groups[n + 1]
            /\ AllCapped(gs) /\ Capped(g) /\ \A i \in 1 .. n : Covers(gs, groups[i])
      BY <1>1, <2>2, <2>3
    <2> DEFINE more == w[n + 1]
    <2> HIDE DEF more
    <2>5. Grown(gs, g, more)
      <3>1. Grown(w[n + 1 - 1], groups[n + 1], w[n + 1])
        BY <2>2
      <3> QED BY <2>2, <2>4, <3>1, Zenon DEF more
    <2>6. /\ more \in Groups(Voices) /\ more # <<>> /\ AllCapped(more) /\ Covers(more, g)
          /\ \A x : Covers(gs, x) => Covers(more, x)
      BY <2>4, <2>5, GrownIs
    <2>7. \A i \in 1 .. n + 1 : i \in 1 .. n \/ i = n + 1
      OBVIOUS
    <2>8. \A i \in 1 .. n + 1 : Covers(more, groups[i])
      BY <2>4, <2>6, <2>7
    <2> QED BY <2>2, <2>4, <2>6, <2>8 DEF more
  <1>4. N \in G
    <2> HIDE DEF G
    <2> QED BY <1>2, <1>3, SetInduction
  <1>5. Good(N)
    <2>1. N \in 0 .. N
      OBVIOUS
    <2> HIDE DEF Good
    <2> QED BY <1>4, <2>1
  <1>6. \A g \in ToSet(groups) : Covers(w[N], g)
    BY <1>1, <1>5 DEF ToSet
  <1>7. groups # <<>> => N # 0
    <2>1. groups \in Seq(Seq(Voices))
      BY GroupsAre, <1>1 DEF Groups
    <2> QED BY <2>1, TypedIs, EmptyIs
  <1> QED BY <1>5, <1>6, <1>7

\* What the groups become: in their size, and with every sentence beside those it was with.
Becomes(groups, more) ==
  /\ more \in Groups(Voices) /\ more # <<>> /\ AllCapped(more)
  /\ \A g \in ToSet(groups) : Covers(more, g)

LEMMA BecomesOn ==
  ASSUME NEW groups, NEW more, NEW most, Becomes(groups, more), Becomes(more, most)
  PROVE  Becomes(groups, most)
  BY DEF Becomes, Covers

LEMMA RaisedIs ==
  ASSUME NEW groups \in Groups(Voices), groups # <<>>, AllCapped(groups)
  PROVE  Becomes(groups, RaisedAll(groups))
  <1>1. PICK N \in Nat : N = Len(groups) /\ DOMAIN groups = 1 .. N
    BY DEF Groups
  <1>2. PICK w : /\ w[0] = <<>> /\ w[N] = RaisedAll(groups)
                 /\ \A n \in 1 .. N : w[n] = Raised(w[n - 1], groups[n])
    <2>1. PICK gs : gs = groups
      OBVIOUS
    <2>2. N \in Nat /\ DOMAIN gs = 1 .. N
      BY <1>1, <2>1
    <2>3. PICK y : y = RaisedAll(gs)
      OBVIOUS
    <2>4. \E w : /\ w[0] = <<>> /\ w[N] = y
                 /\ \A n \in 1 .. N : w[n] = Raised(w[n - 1], gs[n])
      BY <2>2, <2>3, RaisedChain
    <2> QED BY <2>1, <2>3, <2>4, Zenon
  <1>3. ASSUME NEW n \in 1 .. N PROVE Grown(w[n - 1], groups[n], w[n])
    BY <1>2, Zenon DEF Raised, Grown
  <1>4. /\ w[N] \in Groups(Voices) /\ AllCapped(w[N])
        /\ groups # <<>> => w[N] # <<>>
        /\ \A g \in ToSet(groups) : Covers(w[N], g)
    <2>1. N \in Nat /\ N = Len(groups) /\ w[0] = <<>> /\ \A n \in 1 .. N : Grown(w[n - 1], groups[n], w[n])
      BY <1>1, <1>2, <1>3
    <2> QED BY <2>1, GrownChain
  <1> QED BY <1>2, <1>4 DEF Becomes

LEMMA FirstTakesIs ==
  ASSUME NEW groups \in Groups(Voices), Len(groups) >= 2, AllCapped(groups), Fit(groups[1], groups[2])
  PROVE  Becomes(groups, FirstTakes(groups))
  <1>1. PICK n \in Nat : n = Len(groups) /\ n >= 2 /\ DOMAIN groups = 1 .. n
    BY DEF Groups
  <1>2. \A i \in 1 .. n : groups[i] \in Seq(Voices) \ {<<>>}
    BY <1>1 DEF Groups
  <1>3. 1 \in 1 .. n /\ 2 \in 1 .. n
    BY <1>1
  <1>4. PICK g \in Seq(Voices) \ {<<>>}, h \in Seq(Voices) \ {<<>>} : g = groups[1] /\ h = groups[2]
    BY <1>2, <1>3
  <1>5. PICK j \in Seq(Voices) \ {<<>>} : j = g \o h /\ ToSet(j) = ToSet(g) \cup ToSet(h) /\ Capped(j)
    BY <1>4, JoinedFits
  <1> DEFINE X == Seq(Voices) \ {<<>>}
  <1>6. PICK rest \in Seq(X) : /\ rest = SubSeq(groups, 3, n) /\ Len(rest) = n + 1 - 3
                               /\ \A i \in 1 .. n + 1 - 3 : rest[i] = groups[3 + i - 1]
    <2>1. groups \in Seq(X) /\ 3 \in Nat \ {0} /\ 3 <= n + 1 /\ n <= Len(groups)
      BY <1>1 DEF Groups
    <2> HIDE DEF X
    <2>2. PICK gs \in Seq(X), m \in Nat \ {0} : gs = groups /\ m = 3
      BY <2>1
    <2>3. m <= n + 1 /\ n <= Len(gs)
      BY <2>1, <2>2
    <2>4. PICK s : s = SubSeq(gs, m, n)
      OBVIOUS
    <2>5. /\ s \in Seq(X) /\ Len(s) = n + 1 - m
          /\ \A i \in 1 .. n + 1 - m : s[i] = gs[m + i - 1]
      BY <2>3, <2>4, SubSeqIs
    <2> QED BY <2>2, <2>4, <2>5
  <1>7. <<j>> \in Seq(X)
    OBVIOUS
  <1>8. FirstTakes(groups) = <<j>> \o rest
    BY <1>1, <1>4, <1>5, <1>6 DEF FirstTakes
  <1>9. <<j>> \o rest \in Seq(X) /\ <<j>> \o rest # <<>>
    <2> HIDE DEF X
    <2> QED BY <1>7, ConcatLaws, ConcatEnds, AppendEnds
  <1>10. ToSet(<<j>> \o rest) = {j} \cup ToSet(rest)
    BY <1>7, TypedIs, OneIs, ConcatIs
  <1>11. DOMAIN rest = 1 .. n - 2
    <2> HIDE DEF X
    <2> QED BY <1>1, <1>6
  <1>12. ASSUME NEW x \in ToSet(rest) PROVE x \in ToSet(groups)
    <2>1. PICK i \in 1 .. n - 2 : x = rest[i]
      BY <1>11, <1>12 DEF ToSet
    <2>2. i \in 1 .. n + 1 - 3 /\ 3 + i - 1 \in 1 .. n
      BY <1>1, <2>1
    <2>3. x = groups[3 + i - 1]
      BY <1>6, <2>1, <2>2
    <2> QED BY <1>1, <2>2, <2>3 DEF ToSet
  <1>13. ASSUME NEW x \in ToSet(groups) PROVE x = g \/ x = h \/ x \in ToSet(rest)
    <2>1. PICK k \in 1 .. n : x = groups[k]
      BY <1>1, <1>13 DEF ToSet
    <2>2. CASE k >= 3
      <3>1. k - 2 \in 1 .. n - 2 /\ k - 2 \in 1 .. n + 1 - 3 /\ 3 + (k - 2) - 1 = k
        BY <1>1, <2>1, <2>2
      <3>2. rest[k - 2] = groups[3 + (k - 2) - 1]
        BY <1>6, <3>1
      <3>3. rest[k - 2] = x
        BY <2>1, <3>1, <3>2
      <3> QED BY <1>11, <3>1, <3>3 DEF ToSet
    <2>3. CASE k < 3
      <3>1. k = 1 \/ k = 2
        BY <2>1, <2>3
      <3> QED BY <1>4, <2>1, <3>1
    <2>4. k \in Nat
      OBVIOUS
    <2> QED BY <2>2, <2>3, <2>4
  <1>14. AllCapped(<<j>> \o rest)
    BY <1>5, <1>10, <1>12 DEF AllCapped
  <1>15. \A x \in ToSet(groups) : Covers(<<j>> \o rest, x)
    BY <1>5, <1>10, <1>13 DEF Covers
  <1> QED BY <1>8, <1>9, <1>14, <1>15 DEF Becomes, Groups

LEMMA FloorIs ==
  ASSUME NEW groups \in Groups(Voices), groups # <<>>, AllCapped(groups)
  PROVE  Becomes(groups, Floor(groups))
  <1>1. PICK raised : raised = RaisedAll(groups) /\ Becomes(groups, raised)
    BY RaisedIs
  <1>2. Floor(groups) = IF Len(raised) >= 2 /\ Small(raised[1]) /\ Fit(raised[1], raised[2])
                        THEN FirstTakes(raised) ELSE raised
    BY <1>1 DEF Floor, RaisedAll
  <1>3. CASE Len(raised) >= 2 /\ Small(raised[1]) /\ Fit(raised[1], raised[2])
    <2>1. raised \in Groups(Voices) /\ AllCapped(raised)
      BY <1>1 DEF Becomes
    <2>2. Becomes(raised, FirstTakes(raised))
      BY <1>3, <2>1, FirstTakesIs
    <2> QED BY <1>1, <1>2, <1>3, <2>2, BecomesOn
  <1>4. CASE ~(Len(raised) >= 2 /\ Small(raised[1]) /\ Fit(raised[1], raised[2]))
    BY <1>1, <1>2, <1>4
  <1> QED BY <1>3, <1>4

LEMMA HeadedIs ==
  ASSUME NEW groups \in Groups(Voices), groups # <<>>, AllCapped(groups)
  PROVE  Becomes(groups, HeadedAll(groups).out)
  <1>1. PICK N \in Nat : N = Len(groups) /\ DOMAIN groups = 1 .. N
    BY DEF Groups
  <1>2. PICK w : /\ w[0] = [out |-> <<>>, open |-> TRUE] /\ w[N] = HeadedAll(groups)
                 /\ \A n \in 1 .. N : w[n] = Headed(w[n - 1], groups[n])
    <2>1. PICK gs : gs = groups
      OBVIOUS
    <2>2. N \in Nat /\ DOMAIN gs = 1 .. N
      BY <1>1, <2>1
    <2>3. PICK y : y = HeadedAll(gs)
      OBVIOUS
    <2>4. \E w : /\ w[0] = [out |-> <<>>, open |-> TRUE] /\ w[N] = y
                 /\ \A n \in 1 .. N : w[n] = Headed(w[n - 1], gs[n])
      BY <2>2, <2>3, HeadedChain
    <2> QED BY <2>1, <2>3, <2>4, Zenon
  <1> DEFINE v == [n \in 0 .. N |-> w[n].out]
  <1>3. ASSUME NEW n \in 1 .. N PROVE Grown(v[n - 1], groups[n], v[n])
    <2>1. PICK led, g : led = w[n - 1] /\ g = groups[n] /\ w[n] = Headed(led, g)
      BY <1>2
    <2>2. n - 1 \in 0 .. N /\ n \in 0 .. N
      BY <1>1, <1>3
    <2>3. v[n - 1] = led.out /\ v[n] = Headed(led, g).out
      BY <2>1, <2>2
    <2>4. \/ Headed(led, g).out = Append(led.out, g)
          \/ /\ led.out # <<>> /\ Fit(Last(led.out), g)
             /\ Headed(led, g).out = LastTakes(led.out, g)
      <3>1. CASE /\ led.out # <<>> /\ led.open /\ IsHeading(Last(led.out)[1])
                 /\ WordsOf(Last(led.out)) <= FoldMax /\ Fit(Last(led.out), g)
        <4>1. Headed(led, g) = [out |-> LastTakes(led.out, g), open |-> FALSE]
          BY <3>1, Zenon DEF Headed
        <4>2. Headed(led, g).out = LastTakes(led.out, g)
          BY <4>1
        <4> QED BY <3>1, <4>2
      <3>2. CASE ~(/\ led.out # <<>> /\ led.open /\ IsHeading(Last(led.out)[1])
                   /\ WordsOf(Last(led.out)) <= FoldMax /\ Fit(Last(led.out), g))
        <4>1. Headed(led, g) = [out |-> Append(led.out, g), open |-> TRUE]
          BY <3>2, Zenon DEF Headed
        <4> QED BY <4>1
      <3> QED BY <3>1, <3>2
    <2> HIDE DEF v
    <2> QED BY <2>1, <2>3, <2>4 DEF Grown
  <1>4. v[0] = <<>> /\ v[N] = HeadedAll(groups).out
    <2>1. 0 \in 0 .. N /\ N \in 0 .. N
      BY <1>1
    <2>2. v[0] = w[0].out /\ v[N] = w[N].out
      BY <2>1
    <2>3. w[0].out = <<>>
      BY <1>2
    <2> HIDE DEF v
    <2> QED BY <1>2, <2>2, <2>3
  <1> HIDE DEF v
  <1>5. /\ v[N] \in Groups(Voices) /\ AllCapped(v[N])
        /\ groups # <<>> => v[N] # <<>>
        /\ \A g \in ToSet(groups) : Covers(v[N], g)
    <2>1. N \in Nat /\ N = Len(groups) /\ v[0] = <<>> /\ \A n \in 1 .. N : Grown(v[n - 1], groups[n], v[n])
      BY <1>1, <1>3, <1>4
    <2> QED BY <2>1, GrownChain
  <1> QED BY <1>4, <1>5 DEF Becomes

LEMMA FlooredIs ==
  ASSUME NEW groups \in Groups(Voices), groups # <<>>, AllCapped(groups)
  PROVE  Becomes(groups, Floored(groups))
  <1>1. PICK gs : gs = Floor(groups) /\ Becomes(groups, gs)
    BY FloorIs
  <1>2. gs \in Groups(Voices) /\ gs # <<>> /\ AllCapped(gs)
    BY <1>1 DEF Becomes
  <1>3. Becomes(gs, HeadedAll(gs).out)
    BY <1>2, HeadedIs
  <1>4. Floored(groups) = HeadedAll(gs).out
    BY <1>1, Zenon DEF Floored, HeadedAll
  <1> QED BY <1>1, <1>3, <1>4, BecomesOn

LEMMA CarriedIs ==
  ASSUME NEW s \in Voices, NEW h \in Seq(Voices)
  PROVE  /\ IsSeq(<<Carried(s)>> \o h) /\ ToSet(h) \subseteq ToSet(<<Carried(s)>> \o h)
         /\ WordsOf(<<Carried(s)>> \o h) = WordsOf(h) + s.end.words
         /\ WordsOf(<<Carried(s)>> \o h) \in Nat
  <1>1. PICK c : c = Carried(s)
    OBVIOUS
  <1>2. c.words = s.end.words /\ s.end.words \in Nat
    BY <1>1 DEF Carried, Voices, Clauses
  <1> DEFINE X == Voices \cup {c}
  <1>3. \A x \in X : x.words \in Nat
    BY <1>2 DEF Voices
  <1>4. <<c>> \in Seq(X) /\ h \in Seq(X)
    OBVIOUS
  <1>5. WordsOf(<<c>> \o h) = WordsOf(<<c>>) + WordsOf(h) /\ WordsOf(h) \in Nat
    <2> HIDE DEF X
    <2> QED BY <1>3, <1>4, WordsConcat, WordsAll
  <1>6. WordsOf(<<c>>) = c.words
    <2>1. c \in X /\ h \in Seq(X)
      BY <1>4
    <2> HIDE DEF X
    <2> QED BY <1>3, <2>1, WordsAre
  <1>7. IsSeq(<<c>> \o h) /\ ToSet(<<c>> \o h) = {c} \cup ToSet(h)
    BY TypedIs, OneIs, ConcatIs
  <1> QED BY <1>1, <1>2, <1>5, <1>6, <1>7

LEMMA OverlappedIs ==
  ASSUME NEW groups \in Groups(Voices), AllCapped(groups)
  PROVE  /\ IsSeq(Overlapped(groups))
         /\ \A child \in ToSet(Overlapped(groups)) : IsSeq(child) /\ Capped(child)
         /\ \A x, y : Holds(groups, x, y) => Holds(Overlapped(groups), x, y)
  <1>1. PICK n \in Nat : n = Len(groups) /\ DOMAIN groups = 1 .. n
    BY DEF Groups
  <1>2. PICK o : o = Overlapped(groups)
    OBVIOUS
  <1>3. /\ DOMAIN o = 1 .. n /\ o = [i \in 1 .. n |-> o[i]]
        /\ \A i \in 1 .. n : o[i] = IF i > 1 /\ Carries(groups[i - 1], groups[i])
                                    THEN <<Carried(Last(groups[i - 1]))>> \o groups[i] ELSE groups[i]
    BY <1>1, <1>2 DEF Overlapped
  <1>4. ASSUME NEW i \in 1 .. n
        PROVE  IsSeq(o[i]) /\ Capped(o[i]) /\ ToSet(groups[i]) \subseteq ToSet(o[i])
    <2>1. PICK h \in Seq(Voices) : h = groups[i] /\ h # <<>> /\ Capped(h)
      <3>1. groups \in Seq(Seq(Voices) \ {<<>>})
        BY DEF Groups
      <3>2. groups[i] \in Seq(Voices) \ {<<>>}
        BY <1>1, <3>1
      <3>3. groups[i] \in ToSet(groups)
        BY <1>1 DEF ToSet
      <3> QED BY <3>2, <3>3 DEF AllCapped
    <2>2. CASE i > 1 /\ Carries(groups[i - 1], groups[i])
      <3>1. i - 1 \in 1 .. n
        BY <1>1, <1>4, <2>2
      <3>2. groups[i - 1] \in Seq(Voices) /\ groups[i - 1] # <<>>
        BY <1>1, <3>1 DEF Groups
      <3>3. PICK s \in Voices : s = Last(groups[i - 1])
        BY <3>2, LastIs
      <3>4. o[i] = <<Carried(s)>> \o h
        BY <1>3, <2>1, <2>2, <3>3, Zenon
      <3>5. WordsOf(h) + s.end.words <= ChildMax
        BY <2>1, <2>2, <3>3 DEF Carries
      <3>6. WordsOf(o[i]) <= ChildMax /\ WordsOf(o[i]) \in Nat
        BY <3>4, <3>5, CarriedIs
      <3> QED BY <2>1, <3>4, <3>6, CarriedIs DEF Capped
    <2>3. CASE ~(i > 1 /\ Carries(groups[i - 1], groups[i]))
      <3>1. o[i] = h
        BY <1>3, <2>1, <2>3, Zenon
      <3> QED BY <2>1, <3>1, TypedIs
    <2> QED BY <2>2, <2>3
  <1>5. IsSeq(o)
    BY <1>1, <1>3 DEF IsSeq
  <1>6. ASSUME NEW child \in ToSet(o) PROVE IsSeq(child) /\ Capped(child)
    BY <1>3, <1>4, <1>6 DEF ToSet
  <1>7. ASSUME NEW x, NEW y, Holds(groups, x, y) PROVE Holds(o, x, y)
    <2>1. PICK i \in 1 .. n : x \in ToSet(groups[i]) /\ y \in ToSet(groups[i])
      <3>1. PICK h \in ToSet(groups) : x \in ToSet(h) /\ y \in ToSet(h)
        BY <1>7 DEF Holds
      <3>2. PICK i \in 1 .. n : h = groups[i]
        BY <1>1, <3>1 DEF ToSet
      <3> QED BY <3>1, <3>2
    <2>2. o[i] \in ToSet(o)
      BY <1>3, <2>1 DEF ToSet
    <2> QED BY <1>4, <2>1, <2>2 DEF Holds
  <1> QED BY <1>2, <1>5, <1>6, <1>7

\* The sentence of a unit that is not cut.
Voiced(u) == Rendered(u, "plain")[1]

LEMMA VoicedIs ==
  ASSUME NEW u \in Units, u.atom # 0
  PROVE  /\ Rendered(u, "plain") = <<Voiced(u)>> /\ Range(Rendered(u, "plain")) = {Voiced(u)}
         /\ Voiced(u) \in Voices /\ Voiced(u).at = u.at /\ Voiced(u).atom = u.atom
         /\ ToSet(Rendered(u, "plain")) = {Voiced(u)}
  <1>1. PICK r \in Seq(Voices) : r = Rendered(u, "plain") /\ Len(r) = 1
    BY RenderedIs
  <1>2. r[1] \in Voices /\ r[1].at = u.at /\ r[1].atom = u.atom
    <2>1. 1 \in 1 .. Len(r)
      <3>1. 1 \in 1 .. 1
        OBVIOUS
      <3> QED BY <1>1, <3>1, Zenon
    <2> QED BY <1>1, <2>1, RenderedIs
  <1>3. <<r[1]>> \in Seq(Voices) /\ Len(<<r[1]>>) = 1 /\ \A i \in 1 .. Len(r) : r[i] = <<r[1]>>[i]
    <2>1. \A i \in 1 .. Len(r) : i = 1
      <3>1. \A i \in 1 .. 1 : i = 1
        OBVIOUS
      <3> QED BY <1>1, <3>1, Zenon
    <2> QED BY <1>2, <2>1
  <1>4. r = <<r[1]>>
    BY <1>1, <1>3, SeqEq
  <1>5. ToSet(<<r[1]>>) = {r[1]}
    BY OneIs
  <1>6. Range(r) = ToSet(r)
    BY DEF Range, ToSet
  <1> QED BY <1>1, <1>2, <1>4, <1>5, <1>6 DEF Voiced

\* What the children of a parent are.
Bred(g, kids) ==
  /\ IsSeq(kids) /\ \A child \in ToSet(kids) : IsSeq(child) /\ (Capped(child) \/ QuestionParent(g))
  /\ ~QuestionParent(g) =>
       /\ \A i \in 1 .. Len(g) : g[i].atom # 0 => Holds(kids, Voiced(g[i]), Voiced(g[i]))
       /\ \A i \in 2 .. Len(g) : Bound(g[i - 1], g[i]) => Holds(kids, Voiced(g[i - 1]), Voiced(g[i]))

LEMMA ChildrenAre ==
  ASSUME NEW g \in Parts, NEW kids \in Children(g)
  PROVE  Bred(g, kids)
  <1>1. g \in Seq(Units) /\ DOMAIN g = 1 .. Len(g) /\ Len(g) \in Nat
    BY PartsAre
  <1>2. \A i \in 1 .. Len(g) : g[i] \in Units
    BY <1>1
  <1>3. CASE QuestionParent(g)
    <2>1. PICK c \in Seq(Voices) : c = Content(g, "raw")
      BY <1>1, ContentWords
    <2>2. kids = <<c>>
      BY <1>3, <2>1 DEF Children
    <2>3. IsSeq(<<c>>) /\ ToSet(<<c>>) = {c} /\ IsSeq(c)
      BY OneIs, TypedIs
    <2> QED BY <1>3, <2>2, <2>3 DEF Bred
  <1>4. CASE ~QuestionParent(g)
    <2>1. PICK said \in Seq(Voices) :
            /\ said = Sentences(g) /\ said # <<>> /\ Linked(said, Neighbours(Voices))
            /\ \A x \in ToSet(Content(g, "plain")) : x.atom # 0 => x \in ToSet(said)
            /\ \A x, y : Bound(x, y) /\ Beside(Content(g, "plain"), x, y) => Beside(said, x, y)
      BY SentencesAre
    <2>2. PICK groups \in Packings(said) : kids = Overlapped(Floored(groups))
      BY <1>4, <2>1 DEF Children
    <2>3. /\ groups \in Groups(Voices) /\ groups # <<>>
          /\ \A g_1 \in ToSet(groups) : Capped(g_1)
          /\ \A x \in ToSet(said) : Holds(groups, x, x)
          /\ \A x, y : Bound(x, y) /\ Beside(said, x, y) => Holds(groups, x, y)
      BY <2>1, PackingsAre
    <2>4. PICK floored : floored = Floored(groups) /\ Becomes(groups, floored)
      BY <2>3, FlooredIs DEF AllCapped
    <2>5. \A x, y : Holds(groups, x, y) => Holds(floored, x, y)
      BY <2>4 DEF Becomes, Covers, Holds
    <2>6. floored \in Groups(Voices) /\ AllCapped(floored)
      BY <2>4 DEF Becomes
    <2>7. /\ IsSeq(kids) /\ \A child \in ToSet(kids) : IsSeq(child) /\ Capped(child)
          /\ \A x, y : Holds(floored, x, y) => Holds(kids, x, y)
      <3>1. kids = Overlapped(floored)
        BY <2>2, <2>4
      <3> QED BY <2>6, <3>1, OverlappedIs
    <2>8. ASSUME NEW i \in 1 .. Len(g), g[i].atom # 0 PROVE Holds(kids, Voiced(g[i]), Voiced(g[i]))
      <3>1. PICK x : /\ x = Voiced(g[i]) /\ x.atom = g[i].atom
                     /\ ToSet(Rendered(g[i], "plain")) = {x}
        BY <1>2, <2>8, VoicedIs
      <3>2. ToSet(Rendered(g[i], "plain")) \subseteq ToSet(Content(g, "plain"))
        BY <2>8, ContentIs
      <3>3. x \in ToSet(said)
        BY <2>1, <2>8, <3>1, <3>2
      <3> QED BY <2>3, <2>5, <2>7, <3>1, <3>3
    <2>9. ASSUME NEW i \in 2 .. Len(g), Bound(g[i - 1], g[i])
          PROVE  Holds(kids, Voiced(g[i - 1]), Voiced(g[i]))
      <3>1. i \in 1 .. Len(g) /\ i - 1 \in 1 .. Len(g) /\ g[i].atom # 0 /\ g[i - 1].atom # 0
        BY <1>1, <2>9 DEF Bound
      <3>2. PICK x, y : /\ x = Voiced(g[i - 1]) /\ y = Voiced(g[i])
                        /\ x.atom = g[i - 1].atom /\ y.atom = g[i].atom
        BY <1>2, <3>1, VoicedIs
      <3>3. Bound(x, y)
        BY <2>9, <3>2 DEF Bound
      <3>4. Beside(Content(g, "plain"), x, y)
        BY <2>9, <3>2, ContentIs DEF Voiced
      <3>5. Beside(said, x, y)
        BY <2>1, <3>3, <3>4
      <3> QED BY <2>3, <2>5, <2>7, <3>2, <3>3, <3>5
    <2> QED BY <1>4, <2>7, <2>8, <2>9 DEF Bred
  <1> QED BY <1>3, <1>4

-----------------------------------------------------------------------------
(* What the recovery leaves.                                               *)

\* What WellCut says of the children of one parent.
Cut(g, kids) ==
  LET rebuilt == HasKind(g, "listed table") \/ QuestionParent(g) IN
  /\ IsSeq(kids) /\ \A child \in Range(kids) : IsSeq(child)
  /\ \A child \in Range(kids) :
       WordsOf(child) > ChildMax =>
         \/ Cardinality({s.at : s \in Range(child)}) = 1
         \/ \E i \in 2 .. Len(child) : Bound(child[i - 1], child[i])
         \/ QuestionParent(g)
  /\ \A i \in 2 .. Len(g) :
       Bound(g[i - 1], g[i]) /\ ~rebuilt =>
         \E child \in Range(kids) : {g[i - 1].at, g[i].at} \subseteq {s.at : s \in Range(child)}

LEMMA RangeIs ==
  ASSUME NEW s
  PROVE  Range(s) = ToSet(s)
  BY DEF Range, ToSet

LEMMA CappedIsKept ==
  ASSUME NEW child, Capped(child), WordsOf(child) > ChildMax
  PROVE  \/ Cardinality({s.at : s \in Range(child)}) = 1
         \/ \E i \in 2 .. Len(child) : Bound(child[i - 1], child[i])
  <1>1. ~(WordsOf(child) <= ChildMax)
    BY SizesAssumption DEF Capped
  <1>2. CASE \E a : {s.at : s \in ToSet(child)} = {a}
    <2>1. PICK a : {s.at : s \in ToSet(child)} = {a}
      BY <1>2
    <2>2. {s.at : s \in Range(child)} = {a}
      BY <2>1, RangeIs
    <2>3. Cardinality({a}) = 1
      BY FS_Singleton
    <2> QED BY <2>2, <2>3
  <1>3. CASE \E i \in 2 .. Len(child) : Bound(child[i - 1], child[i])
    BY <1>3
  <1> QED BY <1>1, <1>2, <1>3 DEF Capped

LEMMA BredIsCut ==
  ASSUME NEW g \in Parts, NEW kids, Bred(g, kids)
  PROVE  Cut(g, kids)
  <1>1. /\ g \in Seq(Units) /\ Len(g) \in Nat /\ \A i \in 1 .. Len(g) : g[i] \in Units
        /\ Range(kids) = ToSet(kids)
    <2>1. g \in Seq(Units)
      BY PartsAre
    <2> QED BY <2>1, RangeIs
  <1>2. ASSUME NEW child \in Range(kids), WordsOf(child) > ChildMax
        PROVE  \/ Cardinality({s.at : s \in Range(child)}) = 1
               \/ \E i \in 2 .. Len(child) : Bound(child[i - 1], child[i])
               \/ QuestionParent(g)
    <2>1. Capped(child) \/ QuestionParent(g)
      BY <1>1, <1>2 DEF Bred
    <2> QED BY <1>2, <2>1, CappedIsKept
  <1>3. ASSUME NEW i \in 2 .. Len(g), Bound(g[i - 1], g[i]), ~QuestionParent(g)
        PROVE  \E child \in Range(kids) : {g[i - 1].at, g[i].at} \subseteq {s.at : s \in Range(child)}
    <2>1. i \in 1 .. Len(g) /\ i - 1 \in 1 .. Len(g) /\ g[i].atom # 0 /\ g[i - 1].atom # 0
      BY <1>1, <1>3 DEF Bound
    <2>2. PICK x, y : /\ x = Voiced(g[i - 1]) /\ y = Voiced(g[i])
                      /\ x.at = g[i - 1].at /\ y.at = g[i].at
      BY <1>1, <2>1, VoicedIs
    <2>3. PICK child \in ToSet(kids) : x \in ToSet(child) /\ y \in ToSet(child)
      BY <1>3, <2>2 DEF Bred, Holds
    <2>4. child \in Range(kids) /\ Range(child) = ToSet(child)
      BY <1>1, <2>3, RangeIs
    <2>5. x.at \in {s.at : s \in Range(child)} /\ y.at \in {s.at : s \in Range(child)}
      BY <2>3, <2>4
    <2>6. {g[i - 1].at, g[i].at} \subseteq {s.at : s \in Range(child)}
      BY <2>2, <2>5
    <2> QED BY <2>4, <2>6
  <1>4. IsSeq(kids) /\ \A child \in Range(kids) : IsSeq(child)
    BY <1>1 DEF Bred
  <1> QED BY <1>2, <1>3, <1>4 DEF Cut

\* The places of the units of a part do not go back.
LEMMA AtsAscend ==
  ASSUME NEW g \in Parts
  PROVE  \A i \in 1 .. Len(g) : g[i].at \in 1 .. Last(g).at
  <1>1. PICK N \in Nat \ {0} : /\ N = Len(g) /\ Last(g) = g[N]
                               /\ \A i \in 1 .. N : g[i] \in Units
                               /\ \A i \in 1 .. N - 1 : Follows(g[i], g[i + 1])
    <2>1. g \in Seq(Units) /\ g # <<>> /\ Linked(g, Neighbours(Units))
      BY PartsAre
    <2>2. Len(g) \in Nat \ {0} /\ Last(g) = g[Len(g)]
      BY <2>1, LastIs
    <2>3. \A i \in 1 .. Len(g) - 1 : <<g[i], g[i + 1]>> \in Neighbours(Units)
      BY <2>1 DEF Linked
    <2>4. \A i \in 1 .. Len(g) - 1 : Follows(g[i], g[i + 1])
      BY <2>3 DEF Neighbours
    <2>5. \A i \in 1 .. Len(g) : g[i] \in Units
      BY <2>1
    <2> QED BY <2>2, <2>4, <2>5
  <1>2. \A i \in 1 .. N : g[i].at \in Nat \ {0}
    BY <1>1 DEF Units
  <1> DEFINE G == {n \in Nat : n \in 0 .. N - 1 => g[N - n].at <= g[N].at}
  <1>3. 0 \in G
    <2>1. N - 0 = N /\ N \in 1 .. N
      OBVIOUS
    <2>2. g[N].at <= g[N].at
      BY <1>2, <2>1
    <2> QED BY <2>1, <2>2
  <1>4. ASSUME NEW n \in Nat, n \in G PROVE n + 1 \in G
    <2>1. SUFFICES ASSUME n + 1 \in 0 .. N - 1 PROVE g[N - (n + 1)].at <= g[N].at
      OBVIOUS
    <2>2. PICK k \in 1 .. N - 1 : k = N - (n + 1) /\ k + 1 = N - n
      BY <2>1
    <2>3. n \in 0 .. N - 1 /\ k \in 1 .. N /\ k + 1 \in 1 .. N /\ N \in 1 .. N
      BY <2>1, <2>2
    <2>4. g[k + 1].at <= g[N].at
      BY <1>4, <2>2, <2>3
    <2>5. g[k].at <= g[k + 1].at
      BY <1>1, <2>2 DEF Follows
    <2>6. g[k].at \in Nat /\ g[k + 1].at \in Nat /\ g[N].at \in Nat
      BY <1>2, <2>3
    <2>7. g[k].at <= g[N].at
      BY <2>4, <2>5, <2>6
    <2> QED BY <2>2, <2>7
  <1>5. Nat \subseteq G
    <2> HIDE DEF G
    <2> QED BY <1>3, <1>4, SetInduction
  <1>6. ASSUME NEW i \in 1 .. N PROVE g[i].at <= g[N].at
    <2>1. N - i \in Nat /\ N - i \in 0 .. N - 1 /\ N - (N - i) = i
      OBVIOUS
    <2>2. N - i \in G
      BY <1>5, <2>1
    <2>3. g[N - (N - i)].at <= g[N].at
      BY <2>1, <2>2
    <2> QED BY <2>1, <2>3
  <1>7. N \in 1 .. N
    OBVIOUS
  <1> QED BY <1>1, <1>2, <1>6, <1>7

\* A child with the sentence of a unit that is not cut is among those that are sorted.
LEMMA SortedHas ==
  ASSUME NEW g \in Parts, NEW kids, IsSeq(kids), NEW i \in 1 .. Len(g), g[i].atom # 0,
         NEW child \in ToSet(kids), Voiced(g[i]) \in ToSet(child)
  PROVE  child \in ToSet(Sorted(g, kids))
  <1>1. /\ DOMAIN g = 1 .. Len(g) /\ g[i] \in Units /\ Last(g).at \in Nat
        /\ \A k \in 1 .. Len(g) : g[k].at \in 1 .. Last(g).at
    <2>1. g \in Seq(Units) /\ Last(g) \in Units
      BY PartsAre
    <2>2. DOMAIN g = 1 .. Len(g) /\ g[i] \in Units
      BY <2>1
    <2>3. Last(g).at \in Nat
      BY <2>1 DEF Units
    <2>4. \A k \in 1 .. Len(g) : g[k].at \in 1 .. Last(g).at
      BY AtsAscend
    <2> QED BY <2>2, <2>3, <2>4
  <1> DEFINE S == {g[k].at : k \in {j \in DOMAIN g :
                                     Says(Rendered(g[j], "plain")) \cap Says(child) # {}}}
  <1>2. g[i].at \in S
    <2>1. /\ Voiced(g[i]) \in Voices /\ Range(Rendered(g[i], "plain")) = {Voiced(g[i])}
      BY <1>1, VoicedIs
    <2>2. Voiced(g[i]).text \in Voiced(g[i]).says
      BY <2>1 DEF Voices
    <2>3. Voiced(g[i]).text \in Says(Rendered(g[i], "plain"))
      BY <2>1, <2>2 DEF Says
    <2>4. Voiced(g[i]).text \in Says(child)
      BY <2>2, RangeIs DEF Says
    <2> QED BY <1>1, <2>3, <2>4
  <1>3. S \subseteq 1 .. Last(g).at
    BY <1>1
  <1>4. Min(S) \in S
    <2>1. S \in SUBSET Nat /\ S # {}
      BY <1>1, <1>2, <1>3
    <2> HIDE DEF S
    <2> QED BY <2>1, MinExists
  <1>5. PICK a \in 1 .. Last(g).at : a = Min(S)
    BY <1>3, <1>4
  <1>6. FirstUnit(g, child) = a
    BY <1>5 DEF FirstUnit
  <1> HIDE DEF S
  <1>7. PICK ss : ss = [k \in 1 .. Last(g).at |->
                          Only(kids, {c \in Range(kids) : FirstUnit(g, c) = k})]
    OBVIOUS
  <1>8. /\ IsSeq(ss) /\ DOMAIN ss = 1 .. Last(g).at
        /\ \A k \in 1 .. Last(g).at : ss[k] = Only(kids, {c \in Range(kids) : FirstUnit(g, c) = k})
    BY <1>1, <1>7 DEF IsSeq
  <1>9. \A k \in DOMAIN ss : IsSeq(ss[k])
    <2>1. \A k \in DOMAIN ss : \E S_1 : ss[k] = Only(kids, S_1)
      BY <1>8
    <2> QED BY <2>1, OnlyIs
  <1>10. ToSet(FlattenSeq(ss)) = UNION {ToSet(ss[k]) : k \in DOMAIN ss}
    BY <1>8, <1>9, FlattenIs
  <1>11. child \in ToSet(ss[a])
    <2> DEFINE C == {c \in Range(kids) : FirstUnit(g, c) = a}
    <2>1. child \in C
      BY <1>6, RangeIs
    <2>2. ss[a] = Only(kids, C)
      BY <1>8
    <2> HIDE DEF C
    <2>3. ToSet(ss[a]) = ToSet(kids) \cap C
      BY <2>2, OnlyIs
    <2> QED BY <2>1, <2>3
  <1>12. child \in ToSet(FlattenSeq(ss))
    BY <1>8, <1>10, <1>11
  <1>13. Sorted(g, kids) = FlattenSeq(ss)
    BY <1>7, Zenon DEF Sorted
  <1> QED BY <1>12, <1>13

LEMMA SortedIs ==
  ASSUME NEW g \in Parts, NEW kids, IsSeq(kids)
  PROVE  IsSeq(Sorted(g, kids)) /\ ToSet(Sorted(g, kids)) \subseteq ToSet(kids)
  <1>1. Last(g).at \in Nat
    <2>1. Last(g) \in Units
      BY PartsAre
    <2> QED BY <2>1 DEF Units
  <1>2. PICK ss : ss = [k \in 1 .. Last(g).at |->
                          Only(kids, {c \in Range(kids) : FirstUnit(g, c) = k})]
    OBVIOUS
  <1>3. /\ IsSeq(ss) /\ DOMAIN ss = 1 .. Last(g).at
        /\ \A k \in 1 .. Last(g).at : ss[k] = Only(kids, {c \in Range(kids) : FirstUnit(g, c) = k})
    BY <1>1, <1>2 DEF IsSeq
  <1>4. \A k \in DOMAIN ss : IsSeq(ss[k]) /\ ToSet(ss[k]) \subseteq ToSet(kids)
    <2>1. \A k \in DOMAIN ss : \E S : ss[k] = Only(kids, S)
      BY <1>3
    <2> QED BY <2>1, OnlyIs
  <1>5. IsSeq(FlattenSeq(ss)) /\ ToSet(FlattenSeq(ss)) = UNION {ToSet(ss[k]) : k \in DOMAIN ss}
    BY <1>3, <1>4, FlattenIs
  <1>6. Sorted(g, kids) = FlattenSeq(ss)
    BY <1>2, Zenon DEF Sorted
  <1> QED BY <1>4, <1>5, <1>6

LEMMA SortedIsBred ==
  ASSUME NEW g \in Parts, NEW kids, Bred(g, kids)
  PROVE  Bred(g, Sorted(g, kids))
  <1>1. IsSeq(kids) /\ IsSeq(Sorted(g, kids)) /\ ToSet(Sorted(g, kids)) \subseteq ToSet(kids)
    BY SortedIs DEF Bred
  <1>2. ASSUME NEW i \in 1 .. Len(g), g[i].atom # 0, NEW x, Holds(kids, x, Voiced(g[i]))
        PROVE  Holds(Sorted(g, kids), x, Voiced(g[i]))
    <2>1. PICK h \in ToSet(kids) : x \in ToSet(h) /\ Voiced(g[i]) \in ToSet(h)
      BY <1>2 DEF Holds
    <2>2. h \in ToSet(Sorted(g, kids))
      BY <1>1, <1>2, <2>1, SortedHas
    <2> QED BY <2>1, <2>2 DEF Holds
  <1>3. Len(g) \in Nat
    BY PartsAre
  <1>4. ASSUME NEW i \in 2 .. Len(g), Bound(g[i - 1], g[i]), ~QuestionParent(g)
        PROVE  Holds(Sorted(g, kids), Voiced(g[i - 1]), Voiced(g[i]))
    <2>1. i \in 1 .. Len(g) /\ g[i].atom # 0
      BY <1>3, <1>4 DEF Bound
    <2>2. Holds(kids, Voiced(g[i - 1]), Voiced(g[i]))
      BY <1>4 DEF Bred
    <2> QED BY <1>2, <2>1, <2>2
  <1>5. ASSUME NEW i \in 1 .. Len(g), g[i].atom # 0, ~QuestionParent(g)
        PROVE  Holds(Sorted(g, kids), Voiced(g[i]), Voiced(g[i]))
    <2>1. Holds(kids, Voiced(g[i]), Voiced(g[i]))
      BY <1>5 DEF Bred
    <2> QED BY <1>2, <1>5, <2>1
  <1>6. \A child \in ToSet(Sorted(g, kids)) : IsSeq(child) /\ (Capped(child) \/ QuestionParent(g))
    BY <1>1 DEF Bred
  <1> QED BY <1>1, <1>4, <1>5, <1>6 DEF Bred

\* Only a table with bullets, or what is asked, is looked for in vain.
LEMMA DamagedIs ==
  ASSUME NEW g \in Parts, NEW kids, Bred(g, kids), Damaged(g, kids)
  PROVE  HasKind(g, "listed table") \/ QuestionParent(g)
  <1>1. SUFFICES ASSUME ~HasKind(g, "listed table"), ~QuestionParent(g) PROVE FALSE
    OBVIOUS
  <1>2. PICK i \in DOMAIN g : g[i].atom # 0 /\ ~Intact(g[i], kids)
    BY DEF Damaged
  <1>3. DOMAIN g = 1 .. Len(g) /\ g[i] \in Units
    <2>1. g \in Seq(Units)
      BY PartsAre
    <2> QED BY <2>1
  <1>4. PICK x : x = Voiced(g[i]) /\ Range(Rendered(g[i], "plain")) = {x}
    BY <1>2, <1>3, VoicedIs
  <1>5. g[i].kind \in Tables => Rendered(g[i], "raw") = Rendered(g[i], "plain")
    <2>1. SUFFICES ASSUME g[i].kind \in Tables PROVE Rendered(g[i], "raw") = Rendered(g[i], "plain")
      OBVIOUS
    <2>2. g[i].kind \notin Listed
      BY <1>1, <2>1 DEF HasKind, Tables, Listed
    <2> QED BY <1>3, <2>2, RenderedAlike
  <1>6. PICK h \in ToSet(kids) : x \in ToSet(h)
    BY <1>1, <1>2, <1>3, <1>4 DEF Bred, Holds
  <1>7. IsSeq(kids) /\ \A c \in ToSet(kids) : IsSeq(c)
    BY DEF Bred
  <1>8. x \in ToSet(FlattenSeq(kids))
    <2>1. \A k \in DOMAIN kids : IsSeq(kids[k])
      BY <1>7 DEF ToSet
    <2>2. ToSet(FlattenSeq(kids)) = UNION {ToSet(kids[k]) : k \in DOMAIN kids}
      BY <1>7, <2>1, FlattenIs
    <2>3. PICK k \in DOMAIN kids : h = kids[k]
      BY <1>6 DEF ToSet
    <2> QED BY <1>6, <2>2, <2>3
  <1>9. x \in Range(FlattenSeq(kids))
    BY <1>8, RangeIs
  <1>10. Range(Rendered(g[i], IF g[i].kind \in Tables THEN "raw" ELSE "plain")) = {x}
    <2>1. CASE g[i].kind \in Tables
      <3>1. (IF g[i].kind \in Tables THEN "raw" ELSE "plain") = "raw"
        BY <2>1
      <3> QED BY <1>4, <1>5, <2>1, <3>1, Zenon
    <2>2. CASE g[i].kind \notin Tables
      <3>1. (IF g[i].kind \in Tables THEN "raw" ELSE "plain") = "plain"
        BY <2>2
      <3> QED BY <1>4, <3>1, Zenon
    <2> QED BY <2>1, <2>2
  <1>11. Intact(g[i], kids)
    BY <1>9, <1>10, Zenon DEF Intact
  <1> QED BY <1>2, <1>11

LEMMA ContentOfOne ==
  ASSUME NEW form \in {"plain", "raw"}, NEW u \in Units
  PROVE  Content(<<u>>, form) = Rendered(u, form)
  <1>1. PICK f \in Maps(Units, Voices) : f = Turned(form) /\ f[u] = Rendered(u, form)
    BY TurnedIs
  <1>2. <<>> \in Seq(Units) /\ <<u>> \in Seq(Units) /\ Append(<<>>, u) = <<u>>
    OBVIOUS
  <1>3. Spread(<<>>, f) = <<>> /\ Spread(Append(<<>>, u), f) = Spread(<<>>, f) \o f[u]
    <2>1. PICK us \in Seq(Units) : us = <<>>
      BY <1>2
    <2>2. Spread(<<>>, f) = <<>> /\ Spread(Append(us, u), f) = Spread(us, f) \o f[u]
      BY SpreadIs
    <2> QED BY <2>1, <2>2
  <1>4. PICK r \in Seq(Voices) : r = f[u]
    BY <1>1, RenderedIs
  <1>5. <<>> \o r = r
    OBVIOUS
  <1>6. Content(<<u>>, form) = Spread(<<u>>, f)
    BY <1>1, <1>2, TurnedIs
  <1> QED BY <1>1, <1>2, <1>3, <1>4, <1>5, <1>6

LEMMA RebuiltIs ==
  ASSUME NEW g \in Parts
  PROVE  IsSeq(Rebuilt(g)) /\ \A child \in ToSet(Rebuilt(g)) : IsSeq(child) /\ Capped(child)
  <1>1. PICK packs \in Seq(Parts) :
          /\ packs = Packed(g, ChildMax, Tables)
          /\ \A p \in 1 .. Len(packs) : Whole(packs[p]) <= ChildMax \/ Len(packs[p]) = 1
    <2>1. PICK max \in Nat : max = ChildMax
      BY SizesAssumption
    <2>4. PICK alone : alone = Tables
      OBVIOUS
    <2>2. PICK x : x = Packed(g, max, alone)
      OBVIOUS
    <2>3. x \in Seq(Parts) /\ \A p \in 1 .. Len(x) : Whole(x[p]) <= max \/ Len(x[p]) = 1
      BY <2>2, PackedIs
    <2> QED BY <2>1, <2>2, <2>3, <2>4
  <1>2. PICK r : r = [i \in 1 .. Len(packs) |-> Content(packs[i], "raw")]
    OBVIOUS
  <1>3. Rebuilt(g) = r
    <2>1. DOMAIN packs = 1 .. Len(packs)
      OBVIOUS
    <2>2. Rebuilt(g) = [i \in DOMAIN packs |-> Content(packs[i], "raw")]
      BY <1>1, Zenon DEF Rebuilt
    <2> QED BY <1>2, <2>1, <2>2, Zenon
  <1>4. /\ IsSeq(r) /\ DOMAIN r = 1 .. Len(packs)
        /\ \A i \in 1 .. Len(packs) : r[i] = Content(packs[i], "raw")
    <2>1. Len(packs) \in Nat
      OBVIOUS
    <2> QED BY <1>2, <2>1 DEF IsSeq
  <1>5. ASSUME NEW i \in 1 .. Len(packs) PROVE IsSeq(r[i]) /\ Capped(r[i])
    <2>1. PICK pack \in Parts : /\ pack = packs[i] /\ pack \in Seq(Units)
                                /\ Whole(pack) <= ChildMax \/ Len(pack) = 1
      <3>1. packs[i] \in Parts
        OBVIOUS
      <3> QED BY <1>1, <3>1, PartsAre
    <2>2. PICK c \in Seq(Voices) : c = Content(pack, "raw") /\ WordsOf(c) = Whole(pack)
      BY <2>1, ContentWords
    <2>3. WordsOf(c) \in Nat
      BY <2>1, <2>2, WholeIs
    <2>4. ASSUME Len(pack) = 1 PROVE \E a : {s.at : s \in ToSet(c)} = {a}
      <3>1. PICK u \in Units : pack = <<u>>
        <4>1. PICK p \in Seq(Units) : p = pack /\ Len(p) = 1
          BY <2>1, <2>4
        <4>2. 1 \in 1 .. 1 /\ \A k \in 1 .. 1 : k = 1
          OBVIOUS
        <4>3. p[1] \in Units
          <5>1. 1 \in 1 .. Len(p)
            BY <4>1, <4>2, Zenon
          <5>2. \A k \in 1 .. Len(p) : p[k] \in Units
            OBVIOUS
          <5> QED BY <5>1, <5>2
        <4>4. <<p[1]>> \in Seq(Units) /\ Len(<<p[1]>>) = 1 /\ <<p[1]>>[1] = p[1]
          BY <4>3
        <4>5. \A k \in 1 .. Len(p) : p[k] = <<p[1]>>[k]
          BY <4>1, <4>2, <4>4, Zenon
        <4>6. p = <<p[1]>>
          BY <4>1, <4>4, <4>5, SeqEq
        <4> QED BY <4>1, <4>3, <4>6
      <3>2. PICK q \in Seq(Voices) : /\ q = Rendered(u, "raw") /\ q # <<>> /\ \A j \in 1 .. Len(q) : q[j].at = u.at
        BY RenderedIs
      <3>3. c = q
        BY <2>2, <3>1, <3>2, ContentOfOne
      <3>4. DOMAIN q = 1 .. Len(q) /\ 1 \in 1 .. Len(q)
        <4>1. Len(q) \in Nat \ {0}
          BY <3>2, LastIs
        <4> QED BY <4>1
      <3>5. \A s \in ToSet(q) : s.at = u.at
        BY <3>2, <3>4 DEF ToSet
      <3>6. q[1] \in ToSet(q)
        BY <3>4 DEF ToSet
      <3>7. {s.at : s \in ToSet(q)} = {u.at}
        BY <3>5, <3>6
      <3> QED BY <3>3, <3>7
    <2>5. Capped(c)
      BY <2>1, <2>2, <2>3, <2>4 DEF Capped
    <2>6. IsSeq(c)
      BY TypedIs
    <2> QED BY <1>4, <2>1, <2>2, <2>5, <2>6
  <1>6. \A child \in ToSet(r) : IsSeq(child) /\ Capped(child)
    BY <1>4, <1>5 DEF ToSet
  <1> QED BY <1>3, <1>4, <1>6

LEMMA RebuiltIsCut ==
  ASSUME NEW g \in Parts, NEW kids, Bred(g, kids), Damaged(g, kids)
  PROVE  Cut(g, Rebuilt(g))
  <1>1. HasKind(g, "listed table") \/ QuestionParent(g)
    BY DamagedIs
  <1>2. PICK r : r = Rebuilt(g) /\ IsSeq(r) /\ \A child \in Range(r) : IsSeq(child) /\ Capped(child)
    BY RebuiltIs, RangeIs
  <1>3. ASSUME NEW child \in Range(r), WordsOf(child) > ChildMax
        PROVE  \/ Cardinality({s.at : s \in Range(child)}) = 1
               \/ \E i \in 2 .. Len(child) : Bound(child[i - 1], child[i])
               \/ QuestionParent(g)
    BY <1>2, <1>3, CappedIsKept
  <1> QED BY <1>1, <1>2, <1>3 DEF Cut

\* All that is made of the parents is well cut, before the recovery and behind it.
LEMMA RecoveredIs ==
  ASSUME NEW ps, NEW fs, DOMAIN fs = DOMAIN ps,
         \A p \in DOMAIN ps : ps[p] \in Parts /\ fs[p] \in Children(ps[p])
  PROVE  /\ DOMAIN Recovered(ps, fs) = DOMAIN ps
         /\ \A p \in DOMAIN ps : Cut(ps[p], Recovered(ps, fs)[p])
         /\ Recovered(ps, fs) = [p \in DOMAIN ps |-> Recovered(ps, fs)[p]] \/ Recovered(ps, fs) = fs
  <1>1. \A p \in DOMAIN ps : Bred(ps[p], fs[p])
    BY ChildrenAre
  <1> DEFINE damaged == {p \in DOMAIN ps : Damaged(ps[p], fs[p])}
             rs == [p \in DOMAIN ps |-> IF p \in damaged THEN Rebuilt(ps[p]) ELSE Sorted(ps[p], fs[p])]
  <1>2. Recovered(ps, fs) = IF damaged = {} THEN fs ELSE rs
    BY Zenon DEF Recovered
  <1>3. CASE damaged = {}
    <2>1. Recovered(ps, fs) = fs
      BY <1>2, <1>3
    <2> QED BY <1>1, <2>1, BredIsCut
  <1>4. CASE damaged # {}
    <2>1. Recovered(ps, fs) = rs
      BY <1>2, <1>4
    <2>2. ASSUME NEW p \in DOMAIN ps PROVE Cut(ps[p], rs[p])
      <3>1. CASE p \in damaged
        <4>1. Damaged(ps[p], fs[p]) /\ rs[p] = Rebuilt(ps[p])
          BY <3>1
        <4> HIDE DEF rs
        <4> QED BY <1>1, <4>1, RebuiltIsCut
      <3>2. CASE p \notin damaged
        <4>1. rs[p] = Sorted(ps[p], fs[p])
          BY <3>2
        <4>2. Bred(ps[p], Sorted(ps[p], fs[p]))
          BY <1>1, SortedIsBred
        <4> HIDE DEF rs
        <4> QED BY <4>1, <4>2, BredIsCut
      <3> QED BY <3>1, <3>2
    <2> QED BY <2>1, <2>2
  <1> QED BY <1>3, <1>4

-----------------------------------------------------------------------------
(* The titles.                                                             *)

LEMMA CountIs ==
  ASSUME NEW n \in Nat
  PROVE  IsFiniteSet(1 .. n) /\ Cardinality(1 .. n) = n
  <1>1. PICK a \in Int, b \in Int : a = 1 /\ b = n
    OBVIOUS
  <1>2. IsFiniteSet(a .. b) /\ Cardinality(a .. b) = IF a > b THEN 0 ELSE b - a + 1
    BY FS_Interval
  <1>3. (IF a > b THEN 0 ELSE b - a + 1) = n
    BY <1>1
  <1>4. a .. b = 1 .. n
    BY <1>1
  <1> QED BY <1>2, <1>3, <1>4, Zenon

LEMMA AcceptedIs ==
  ASSUME NEW named, IsSeq(named), NEW i, NEW t
  PROVE  IsSeq(Accepted(named, i, t)) /\ Len(Accepted(named, i, t)) = Len(named)
  <1>1. PICK n \in Nat : n = Len(named) /\ DOMAIN named = 1 .. n
    BY SeqIs
  <1>2. PICK a : a = Accepted(named, i, t)
    OBVIOUS
  <1>3. CASE t # Untitled /\ t \notin Used(named)
    <2>1. a = [named EXCEPT ![i] = t]
      BY <1>2, <1>3 DEF Accepted
    <2>2. a = [k \in 1 .. n |-> a[k]]
      BY <1>1, <2>1
    <2> QED BY <1>1, <1>2, <2>2, MapIs
  <1>4. CASE ~(t # Untitled /\ t \notin Used(named))
    BY <1>2, <1>4, Zenon DEF Accepted
  <1> QED BY <1>3, <1>4

LEMMA OfferedIs ==
  ASSUME NEW named, IsSeq(named), NEW labels, IsSeq(labels), NEW offer
  PROVE  IsSeq(Offered(named, labels, offer)) /\ Len(Offered(named, labels, offer)) = Len(named)
  <1>1. PICK N \in Nat : DOMAIN labels = 1 .. N
    BY SeqIs
  <1>2. PICK x : x = Offered(named, labels, offer)
    OBVIOUS
  <1>3. PICK w : /\ w[0] = named /\ w[N] = x
                 /\ \A n \in 1 .. N : w[n] = Accepted(w[n - 1], labels[n], offer[labels[n]])
    BY <1>1, <1>2, OfferedChain
  <1> DEFINE Good(n) == IsSeq(w[n]) /\ Len(w[n]) = Len(named)
             G == {n \in Nat : n \in 0 .. N => Good(n)}
  <1>4. 0 \in G
    BY <1>3
  <1>5. ASSUME NEW n \in Nat, n \in G PROVE n + 1 \in G
    <2>1. SUFFICES ASSUME n + 1 \in 0 .. N PROVE Good(n + 1)
      OBVIOUS
    <2>2. n + 1 \in 1 .. N /\ n + 1 - 1 = n /\ n \in 0 .. N
      BY <1>1, <2>1
    <2>3. Good(n)
      BY <1>5, <2>2
    <2>4. \E i, t : w[n + 1] = Accepted(w[n], i, t)
      <3>1. w[n + 1] = Accepted(w[n + 1 - 1], labels[n + 1], offer[labels[n + 1]])
        BY <1>3, <2>2
      <3> QED BY <2>2, <3>1, Zenon
    <2> QED BY <2>3, <2>4, AcceptedIs
  <1>6. N \in G
    <2> HIDE DEF G
    <2> QED BY <1>1, <1>4, <1>5, SetInduction
  <1>7. N \in 0 .. N
    BY <1>1
  <1> QED BY <1>2, <1>3, <1>6, <1>7

\* The titles before the next one, which differ from it if it is taken.
LEMMA BeforeIs ==
  ASSUME NEW named, IsSeq(named), NEW k \in DOMAIN named
  PROVE  /\ IsSeq(SubSeq(named, 1, k - 1)) /\ Len(SubSeq(named, 1, k - 1)) = k - 1 /\ k \in Nat \ {0}
         /\ Range(SubSeq(named, 1, k - 1)) = {named[i] : i \in 1 .. k - 1}
         /\ \A t : Accepted(Append(SubSeq(named, 1, k - 1), Untitled), k, t)[k] # Untitled =>
                     t # Untitled /\ t \notin Used(SubSeq(named, 1, k - 1))
  <1>1. PICK n \in Nat : /\ n = Len(named) /\ DOMAIN named = 1 .. n /\ named \in Seq(ToSet(named))
                         /\ k \in 1 .. n /\ k \in Nat \ {0} /\ k - 1 \in Nat
    <2>1. PICK n \in Nat : n = Len(named) /\ DOMAIN named = 1 .. n /\ named \in Seq(ToSet(named))
      BY SeqIs
    <2>2. k \in 1 .. n
      BY <2>1
    <2>3. k \in Nat \ {0} /\ k - 1 \in Nat
      BY <2>2
    <2> QED BY <2>1, <2>2, <2>3
  <1> DEFINE X == ToSet(named)
  <1>2. PICK b \in Seq(X) : /\ b = SubSeq(named, 1, k - 1) /\ Len(b) = k - 1
                            /\ \A i \in 1 .. k - 1 : b[i] = named[i]
    <2> HIDE DEF X
    <2>0. named \in Seq(X)
      BY <1>1, Zenon DEF X
    <2>7. PICK s \in Seq(X) : s = named
      BY <2>0
    <2>8. PICK m \in Nat \ {0}, j \in Nat : m = 1 /\ j = k - 1
      <3>1. k - 1 \in Nat
        BY <1>1, Zenon
      <3>2. PICK j : j = k - 1
        OBVIOUS
      <3>3. j \in Nat
        BY <3>1, <3>2, Zenon
      <3>4. 1 \in Nat \ {0}
        OBVIOUS
      <3> QED BY <3>2, <3>3, <3>4, Zenon
    <2>9. m <= j + 1 /\ j <= n
      BY <1>1, <2>8
    <2>6. Len(s) = n
      BY <1>1, <2>7, Zenon
    <2>1. s = named /\ m = 1 /\ j = k - 1 /\ m <= j + 1 /\ j <= Len(s)
      BY <2>6, <2>7, <2>8, <2>9
    <2>2. PICK c : c = SubSeq(s, m, j)
      OBVIOUS
    <2>3. c \in Seq(X) /\ Len(c) = j + 1 - m /\ \A i \in 1 .. j + 1 - m : c[i] = s[m + i - 1]
      BY <2>1, <2>2, SubSeqIs
    <2>4. Len(c) = k - 1 /\ c = SubSeq(named, 1, k - 1)
      BY <1>1, <2>1, <2>2, <2>3
    <2>5. ASSUME NEW i \in 1 .. k - 1 PROVE c[i] = named[i]
      <3>1. i \in 1 .. j + 1 - m /\ m + i - 1 = i
        BY <1>1, <2>1
      <3> QED BY <2>1, <2>3, <3>1
    <2> QED BY <2>3, <2>4, <2>5
  <1>3. IsSeq(b) /\ DOMAIN b = 1 .. k - 1
    <2>1. IsSeq(b)
      BY TypedIs
    <2> QED BY <1>2, <2>1, SeqIs
  <1>4. Range(b) = {named[i] : i \in 1 .. k - 1}
    BY <1>2, <1>3 DEF Range
  <1>5. ASSUME NEW t, Accepted(Append(b, Untitled), k, t)[k] # Untitled
        PROVE  t # Untitled /\ t \notin Used(b)
    <2>1. PICK a : a = Append(b, Untitled)
      OBVIOUS
    <2>2. a[k] = Untitled
      <3> DEFINE Y == X \cup {Untitled}
      <3>1. b \in Seq(Y) /\ Untitled \in Y
        OBVIOUS
      <3> HIDE DEF Y, X
      <3>2. Append(b, Untitled)[Len(b) + 1] = Untitled
        BY <3>1
      <3>3. Len(b) + 1 = k
        BY <1>1, <1>2
      <3> QED BY <2>1, <3>2, <3>3
    <2>3. Range(a) = Range(b) \cup {Untitled}
      BY <1>3, <2>1, AppendIs, RangeIs
    <2>4. Used(a) = Used(b)
      BY <2>3 DEF Used
    <2> QED BY <1>5, <2>1, <2>2, <2>4 DEF Accepted
  <1> QED BY <1>1, <1>2, <1>3, <1>4, <1>5

\* There is an emergency label that no title before it has.
LEMMA EmergencyIs ==
  ASSUME NEW named, IsSeq(named)
  PROVE  Emergency(named) # Untitled /\ Emergency(named) \notin Used(named)
  <1>1. PICK n \in Nat : n = Len(named) /\ DOMAIN named = 1 .. n
    BY SeqIs
  <1> DEFINE free == {k \in 1 .. n + 1 : <<"content", k>> \notin Used(named)}
             labels == {<<"content", k>> : k \in 1 .. n + 1}
  <1>2. free # {}
    <2>1. SUFFICES ASSUME free = {} PROVE FALSE
      OBVIOUS
    <2>2. labels \subseteq Range(named)
      BY <2>1 DEF Used
    <2>3. IsFiniteSet(1 .. n) /\ Cardinality(1 .. n) = n
      BY <1>1, CountIs
    <2>4. Range(named) = {named[i] : i \in 1 .. n}
      BY <1>1 DEF Range
    <2>5. IsFiniteSet(Range(named)) /\ Cardinality(Range(named)) <= n
      <3> DEFINE R == Range(named)
      <3>1. [i \in 1 .. n |-> named[i]] \in Surjection(1 .. n, R)
        BY <2>4 DEF Surjection
      <3>2. PICK f \in Surjection(1 .. n, R) : TRUE
        BY <3>1
      <3> HIDE DEF R
      <3>3. IsFiniteSet(R) /\ Cardinality(R) <= Cardinality(1 .. n)
        BY <2>3, FS_Surjection
      <3> QED BY <2>3, <3>3 DEF R
    <2>6. IsFiniteSet(1 .. n + 1) /\ Cardinality(1 .. n + 1) = n + 1
      <3>1. n + 1 \in Nat
        BY <1>1
      <3> QED BY <3>1, CountIs
    <2>7. Cardinality(labels) = n + 1
      <3> DEFINE f == [k \in 1 .. n + 1 |-> <<"content", k>>]
      <3>1. f \in Bijection(1 .. n + 1, labels)
        BY DEF Bijection, Injection, Surjection, IsInjective
      <3>2. ExistsBijection(1 .. n + 1, labels)
        BY <3>1 DEF ExistsBijection
      <3> HIDE DEF labels
      <3> QED BY <2>6, <3>2, FS_Bijection
    <2>8. Cardinality(labels) <= Cardinality(Range(named))
      <3> HIDE DEF labels
      <3> QED BY <2>2, <2>5, FS_Subset
    <2>9. Cardinality(Range(named)) \in Nat
      BY <2>5, FS_CardinalityType
    <2> HIDE DEF labels
    <2> QED BY <1>1, <2>5, <2>7, <2>8, <2>9
  <1>3. Min(free) \in free
    <2>1. free \in SUBSET Nat
      OBVIOUS
    <2> HIDE DEF free
    <2> QED BY <1>2, <2>1, MinExists
  <1>4. Emergency(named) = <<"content", Min(free)>>
    BY <1>1, Zenon DEF Emergency
  <1>5. PICK k \in 1 .. n + 1 : k = Min(free) /\ <<"content", k>> \notin Used(named)
    BY <1>3
  <1>6. Emergency(named) = <<"content", k>>
    BY <1>4, <1>5, Zenon
  <1>7. <<"content", k>> # <<>>
    OBVIOUS
  <1> QED BY <1>5, <1>6, <1>7 DEF Untitled

\* Titles that all differ are as many as there are labels.
LEMMA AllDiffer ==
  ASSUME NEW named, IsSeq(named),
         \A i \in DOMAIN named : /\ named[i] # Untitled
                                 /\ \A j \in DOMAIN named : j < i => named[i] # named[j]
  PROVE  Untitled \notin Range(named) /\ Cardinality(Range(named)) = Len(named)
  <1>1. PICK n \in Nat : n = Len(named) /\ DOMAIN named = 1 .. n /\ named = [i \in 1 .. n |-> named[i]]
    BY SeqIs
  <1>2. Untitled \notin Range(named)
    BY DEF Range
  <1>3. IsFiniteSet(1 .. n) /\ Cardinality(1 .. n) = n
    BY <1>1, CountIs
  <1>4. named \in Bijection(1 .. n, Range(named))
    <2>1. named \in [1 .. n -> Range(named)]
      BY <1>1 DEF Range
    <2>2. \A i, j \in 1 .. n : named[i] = named[j] => i = j
      <3>1. SUFFICES ASSUME NEW i \in 1 .. n, NEW j \in 1 .. n, named[i] = named[j], i # j PROVE FALSE
        OBVIOUS
      <3>2. i < j \/ j < i
        BY <3>1
      <3> QED BY <1>1, <3>1, <3>2
    <2>3. \A t \in Range(named) : \E i \in 1 .. n : named[i] = t
      BY <1>1 DEF Range
    <2> QED BY <2>1, <2>2, <2>3 DEF Bijection, Injection, Surjection, IsInjective
  <1>5. ExistsBijection(1 .. n, Range(named))
    BY <1>4 DEF ExistsBijection
  <1> QED BY <1>1, <1>2, <1>3, <1>5, FS_Bijection

-----------------------------------------------------------------------------
(* The parents and the children of a structure that is being built.        *)

\* What is known of them in each phase.
Divided ==
  /\ phase = "headings" =>
       \E given \in Seq(DOMAIN Shape) : given # <<>> /\ parents = <<Paragraphs(given)>>
  /\ phase \in {"chunking", "children", "chunked"} =>
       parents \in Seq(Parts) /\ Linked(parents, Apart)
  /\ phase \in {"children", "chunked"} => families = [p \in DOMAIN parents |-> families[p]]
  /\ phase = "children" => \A p \in DOMAIN parents : families[p] \in Children(parents[p])
  /\ phase = "chunked" => \A p \in DOMAIN parents : Cut(parents[p], families[p])

\* What the steps do to the structure that is being built: but for those that build it, the
\* executions take it up, drop it or let it be.
LEMMA BuildingSteps ==
  ASSUME [IngestNext]_ingestVars
  PROVE  \/ UNCHANGED building \/ Discarded
         \/ \E d \in Docs, given \in Contents :
              /\ Cleaned(given) # <<>> /\ parents' = <<Paragraphs(Cleaned(given))>>
              /\ phase' = "headings" /\ builder' = d
         \/ SplitParents \/ BuildChildren \/ Recover
         \/ StartTitles \/ LabelFamilies \/ StartEnforcing \/ EnforceTitle
  <1> DEFINE Goal == \/ UNCHANGED building \/ Discarded
                     \/ \E d \in Docs, given \in Contents :
                          /\ Cleaned(given) # <<>> /\ parents' = <<Paragraphs(Cleaned(given))>>
                          /\ phase' = "headings" /\ builder' = d
                     \/ SplitParents \/ BuildChildren \/ Recover
                     \/ StartTitles \/ LabelFamilies \/ StartEnforcing \/ EnforceTitle
  <1>1. CASE UNCHANGED ingestVars
    BY <1>1, Zenon DEF ingestVars
  <1>2. ASSUME NEW d \in Docs, NEW n \in Runs, Extract(d, n) PROVE Goal
    <2>1. PICK given \in Contents :
            IF Cleaned(given) = <<>>
            THEN UNCHANGED building
            ELSE /\ builder' = d /\ phase' = "headings"
                 /\ items' = Cleaned(given) /\ parents' = <<Paragraphs(items')>>
      BY <1>2, Zenon DEF Extract
    <2>2. CASE Cleaned(given) = <<>>
      BY <2>1, <2>2
    <2>3. CASE Cleaned(given) # <<>>
      BY <2>1, <2>3
    <2> QED BY <2>2, <2>3
  <1>3. ASSUME NEW d \in Docs, NEW n \in Runs,
               \/ SaveProcessed(d, n) \/ ReplaceDocument(d, n) \/ LookAgain(d, n)
               \/ PutStructure(d, n) \/ Complete(d, n)
        PROVE  UNCHANGED building
    BY <1>3, Zenon DEF SaveProcessed, ReplaceDocument, LookAgain, PutStructure, Complete
  <1>4. ASSUME NEW d \in Docs, Load(d) \/ Cancel(d) \/ RecoverStale(d) PROVE UNCHANGED building
    BY <1>4, Zenon DEF Load, Cancel, RecoverStale
  <1>5. ASSUME NEW d \in Docs, NEW n \in Runs, Abandon(d, n) \/ WorkerLost(d, n) \/ ServiceFails(d, n)
        PROVE  UNCHANGED building \/ Discarded
    BY <1>5, Zenon DEF Abandon, WorkerLost, ServiceFails, Leaves
  <1>6. CASE ClassificationFails \/ Verify
    BY <1>6, Zenon DEF ClassificationFails, Verify
  <1>7. CASE Done
    BY <1>7, Zenon DEF Done, ingestVars
  <1>8. CASE IngestNext
    BY <1>2, <1>3, <1>4, <1>5, <1>6, <1>7, <1>8, Zenon DEF IngestNext
  <1> QED BY <1>1, <1>8

\* The steps that cut something.
LEMMA CuttingSteps ==
  ASSUME [IngestNext]_ingestVars
  PROVE  \/ UNCHANGED <<phase, parents, families>>
         \/ phase' \in {"none", "titles", "enforcing"}
         \/ /\ phase' = "headings"
            /\ \E given \in Contents : Cleaned(given) # <<>> /\ parents' = <<Paragraphs(Cleaned(given))>>
         \/ SplitParents \/ BuildChildren \/ Recover
  <1>1. UNCHANGED building => UNCHANGED <<phase, parents, families>>
    BY DEF building
  <1>2. Discarded => phase' = "none"
    BY DEF Discarded
  <1>3. StartTitles \/ LabelFamilies \/ StartEnforcing \/ EnforceTitle => phase' \in {"titles", "enforcing"}
    BY DEF StartTitles, LabelFamilies, StartEnforcing, EnforceTitle, At
  <1> QED BY <1>1, <1>2, <1>3, BuildingSteps

LEMMA DividedStarts == IngestInit => Divided
  BY DEF IngestInit, Divided

LEMMA DividedStays ==
  ASSUME Divided, [IngestNext]_ingestVars
  PROVE  Divided'
  <1>1. CASE UNCHANGED <<phase, parents, families>>
    BY <1>1, Zenon DEF Divided
  <1>2. CASE phase' \in {"none", "titles", "enforcing"}
    BY <1>2 DEF Divided
  <1>3. ASSUME phase' = "headings", NEW given \in Contents, Cleaned(given) # <<>>,
               parents' = <<Paragraphs(Cleaned(given))>>
        PROVE  Divided'
    <2>1. PICK g \in Seq(DOMAIN Shape) : g = given
      BY IngestAssumption
    <2>2. Cleaned(g) \in Seq(DOMAIN Shape)
      BY CleanedAre
    <2>3. \E some \in Seq(DOMAIN Shape) : some # <<>> /\ parents' = <<Paragraphs(some)>>
      BY <1>3, <2>1, <2>2, Zenon
    <2>4. phase' \notin {"chunking", "children", "chunked"} /\ phase' \notin {"children", "chunked"}
          /\ phase' # "children" /\ phase' # "chunked"
      BY <1>3
    <2> QED BY <2>3, <2>4, Zenon DEF Divided
  <1>4. CASE SplitParents
    <2>1. PICK given \in Seq(DOMAIN Shape), cuts \in Cuts(parents[1]) :
            /\ given # <<>> /\ parents = <<Paragraphs(given)>> /\ phase' = "chunking"
            /\ parents' = Parents(Merged(Split(parents[1], cuts)))
      BY <1>4, Zenon DEF SplitParents, At, Divided
    <2>2. PICK units \in Parts : units = Paragraphs(given)
      BY <2>1, ParagraphsAre
    <2>3. parents[1] = units
      BY <2>1, <2>2
    <2>4. PICK c \in Cuts(units) : parents' = Parents(Merged(Split(units, c)))
      BY <2>1, <2>3, Zenon
    <2>5. Split(units, c) \in Seq(Parts) /\ Linked(Split(units, c), Free)
      BY SplitIs
    <2>6. PICK split \in Seq(Parts) : split = Split(units, c) /\ Linked(split, Free)
      BY <2>5, Zenon
    <2>7. PICK merged \in Seq(Parts) : merged = Merged(split) /\ Linked(merged, Free)
      BY <2>6, MergedIs
    <2>8. Parents(merged) \in Seq(Parts) /\ Linked(Parents(merged), Apart)
      BY <2>7, ParentsAre
    <2>9. parents' \in Seq(Parts) /\ Linked(parents', Apart)
      BY <2>4, <2>6, <2>7, <2>8, Zenon
    <2>10. phase' # "headings" /\ phase' \notin {"children", "chunked"} /\ phase' # "children"
           /\ phase' # "chunked"
      BY <2>1
    <2> QED BY <2>9, <2>10, Zenon DEF Divided, Linked
  <1>5. CASE BuildChildren
    <2>1. /\ phase' = "children" /\ parents' = parents
          /\ parents \in Seq(Parts) /\ Linked(parents, Apart)
      BY <1>5 DEF BuildChildren, At, Divided
    <2>2. PICK f \in [DOMAIN parents -> UNION {Children(parents[p]) : p \in DOMAIN parents}] :
            (\A p \in DOMAIN parents : f[p] \in Children(parents[p])) /\ families' = f
      BY <1>5, Zenon DEF BuildChildren
    <2>3. families' = [p \in DOMAIN parents' |-> families'[p]]
      BY <2>1, <2>2
    <2>4. \A p \in DOMAIN parents' : families'[p] \in Children(parents'[p])
      BY <2>1, <2>2, Zenon
    <2>5. phase' # "headings" /\ phase' # "chunked"
      BY <2>1
    <2>6. parents' \in Seq(Parts) /\ Linked(parents', Apart)
      BY <2>1, Zenon
    <2> QED BY <2>3, <2>4, <2>5, <2>6, Zenon DEF Divided, Linked
  <1>6. CASE Recover
    <2>1. /\ phase = "children" /\ phase' = "chunked" /\ parents' = parents
          /\ families' = Recovered(parents, families)
      BY <1>6 DEF Recover
    <2>2. /\ parents \in Seq(Parts) /\ Linked(parents, Apart)
          /\ families = [p \in DOMAIN parents |-> families[p]]
          /\ \A p \in DOMAIN parents : families[p] \in Children(parents[p])
      BY <2>1 DEF Divided
    <2>3. PICK ps : ps = parents
      OBVIOUS
    <2>4. PICK fs : fs = families
      OBVIOUS
    <2>5. /\ fs = [p \in DOMAIN ps |-> fs[p]] /\ DOMAIN fs = DOMAIN ps
          /\ \A p \in DOMAIN ps : fs[p] \in Children(ps[p])
      <3>1. fs = [p \in DOMAIN ps |-> fs[p]]
        BY <2>2, <2>3, <2>4, Zenon
      <3>2. \A p \in DOMAIN ps : fs[p] \in Children(ps[p])
        BY <2>2, <2>3, <2>4, Zenon
      <3>3. DOMAIN [p \in DOMAIN ps |-> fs[p]] = DOMAIN ps
        OBVIOUS
      <3> QED BY <3>1, <3>2, <3>3, Zenon
    <2>6. \A p \in DOMAIN ps : ps[p] \in Parts
      BY <2>2, <2>3
    <2>7. PICK r : r = Recovered(ps, fs)
      OBVIOUS
    <2>8. /\ DOMAIN r = DOMAIN ps /\ \A p \in DOMAIN ps : Cut(ps[p], r[p])
          /\ r = [p \in DOMAIN ps |-> r[p]] \/ r = fs
      BY <2>5, <2>6, <2>7, RecoveredIs
    <2>9. r = [p \in DOMAIN ps |-> r[p]]
      BY <2>5, <2>8, Zenon
    <2>10. families' = r /\ parents' = ps
      BY <2>1, <2>3, <2>4, <2>7, Zenon
    <2>11. families' = [p \in DOMAIN parents' |-> families'[p]]
      BY <2>9, <2>10, Zenon
    <2>12. \A p \in DOMAIN parents' : Cut(parents'[p], families'[p])
      BY <2>8, <2>10, Zenon
    <2>13. parents' \in Seq(Parts) /\ Linked(parents', Apart)
      BY <2>1, <2>2, Zenon
    <2>14. phase' # "headings" /\ phase' # "children"
      BY <2>1
    <2> QED BY <2>11, <2>12, <2>13, <2>14, Zenon DEF Divided, Linked
  <1> QED BY <1>1, <1>2, <1>3, <1>4, <1>5, <1>6, CuttingSteps

\* The children are as large and as whole as they are to be.
LEMMA DividedIsWellCut == Divided => WellCut
  <1>1. SUFFICES ASSUME Divided, phase = "chunked" PROVE CapKept /\ BoundTogether
    BY DEF WellCut
  <1>2. parents \in Seq(Parts) /\ Linked(parents, Apart)
    BY <1>1 DEF Divided
  <1>3. \A p \in DOMAIN parents : Cut(parents[p], families[p])
    BY <1>1, Zenon DEF Divided
  <1>4. CapKept
    BY <1>3, Zenon DEF CapKept, Cut
  <1>5. ASSUME NEW p \in 2 .. Len(parents), Bound(Last(parents[p - 1]), parents[p][1])
        PROVE  Whole(parents[p - 1]) + Whole(parents[p]) > ParentMax
    <2>1. PICK k : k = p - 1
      OBVIOUS
    <2>2. k \in 1 .. Len(parents) - 1 /\ k + 1 = p
      BY <1>2, <2>1
    <2>3. <<parents[k], parents[k + 1]>> \in Apart
      BY <1>2, <2>2 DEF Linked
    <2>4. PICK a, b : a = parents[k] /\ b = parents[p]
      OBVIOUS
    <2>5. <<a, b>> \in Apart /\ Bound(Last(a), b[1])
      BY <1>5, <2>1, <2>2, <2>3, <2>4, Zenon
    <2>6. Whole(a) + Whole(b) > ParentMax
      BY <2>5 DEF Apart, Free, Large
    <2> QED BY <2>1, <2>4, <2>6, Zenon
  <1>6. BoundTogether
    BY <1>3, <1>5, Zenon DEF BoundTogether, Cut
  <1> QED BY <1>4, <1>6

\* What has been cut is as large and as whole as it is to be, in every execution: a child
\* exceeds its size only for one unit, the parts of one exercise or as a parent of
\* questions, and what an exercise binds is in one child.
THEOREM WellCutAlways == IngestSpec => []WellCut
  <1>1. IngestInit => Divided
    BY DividedStarts
  <1>2. Divided /\ [IngestNext]_ingestVars => Divided'
    BY DividedStays
  <1>3. Divided => WellCut
    BY DividedIsWellCut
  <1> QED BY <1>1, <1>2, <1>3, PTL DEF IngestSpec

-----------------------------------------------------------------------------
(* The titles of a structure that is being built.                          *)

\* The titles before the next one differ from Untitled and from each other.
Titling ==
  /\ phase # "none" => builder \in Docs
  /\ phase \in {"titles", "enforcing"} => IsSeq(title) /\ at \in Nat \ {0}
  /\ phase = "enforcing" =>
       \A i \in DOMAIN title : i < at =>
         /\ title[i] # Untitled
         /\ \A j \in DOMAIN title : j < i => title[i] # title[j]

LEMMA OwnersAre ==
  ASSUME NEW n \in Nat, NEW counts, DOMAIN counts = 1 .. n, \A p \in 1 .. n : counts[p] \in Nat
  PROVE  IsSeq(Owners(counts))
  <1> DEFINE m(p) == IF counts[p] > 1 THEN counts[p] + 1 ELSE 1
             row(p) == [i \in 1 .. m(p) |-> p]
             ss == [p \in DOMAIN counts |-> row(p)]
  <1>1. \A p \in 1 .. n : m(p) \in Nat
    OBVIOUS
  <1>2. ASSUME NEW p \in DOMAIN ss PROVE IsSeq(ss[p])
    <2>1. ss[p] = row(p) /\ m(p) \in Nat
      BY <1>1, <1>2
    <2>2. PICK k \in Nat : ss[p] = [i \in 1 .. k |-> p]
      BY <2>1
    <2>4. PICK r : r = ss[p] /\ r = [i \in 1 .. k |-> p]
      BY <2>2
    <2>3. r = [i \in 1 .. k |-> r[i]]
      BY <2>4
    <2> QED BY <2>4, <2>3, MapIs
  <1>3. IsSeq(ss)
    <2>1. PICK s : s = ss
      OBVIOUS
    <2>2. s = [p \in 1 .. n |-> s[p]]
      BY <2>1
    <2> QED BY <2>1, <2>2, MapIs
  <1>4. PICK s : s = ss /\ IsSeq(s) /\ \A p \in DOMAIN s : IsSeq(s[p])
    BY <1>2, <1>3, Zenon
  <1>5. IsSeq(FlattenSeq(s))
    BY <1>4, FlattenIs
  <1>6. Owners(counts) = FlattenSeq(ss)
    BY Zenon DEF Owners
  <1> QED BY <1>4, <1>5, <1>6, Zenon

\* The steps that title something.
LEMMA TitlingSteps ==
  ASSUME [IngestNext]_ingestVars
  PROVE  \/ UNCHANGED <<phase, builder, title, at>>
         \/ phase' = "none"
         \/ phase' = "headings" /\ builder' \in Docs
         \/ phase # "none" /\ builder' = builder /\ phase' \in {"chunking", "children", "chunked"}
         \/ StartTitles \/ LabelFamilies \/ StartEnforcing \/ EnforceTitle
  <1>1. UNCHANGED building => UNCHANGED <<phase, builder, title, at>>
    BY DEF building
  <1>2. Discarded => phase' = "none"
    BY DEF Discarded
  <1>3. SplitParents \/ BuildChildren \/ Recover =>
          phase # "none" /\ builder' = builder /\ phase' \in {"chunking", "children", "chunked"}
    BY DEF SplitParents, BuildChildren, Recover, At
  <1> QED BY <1>1, <1>2, <1>3, BuildingSteps

LEMMA TitlingStarts == IngestInit => Titling
  BY DEF IngestInit, Titling

\* All titles are free when they are first looked at.
LEMMA StartTitlesKeeps ==
  ASSUME Titling, Divided, StartTitles
  PROVE  Titling'
  <1>1. PICK n \in Nat : parents \in Seq(Parts) /\ DOMAIN parents = 1 .. n
    <2>1. parents \in Seq(Parts)
      BY DEF StartTitles, At, Divided
    <2> QED BY <2>1
  <1>2. /\ families = [p \in DOMAIN parents |-> families[p]]
        /\ \A p \in DOMAIN parents : Cut(parents[p], families[p])
    BY DEF StartTitles, At, Divided
  <1>3. \A p \in 1 .. n : IsSeq(families[p])
    BY <1>1, <1>2, Zenon DEF Cut
  <1>4. \A p \in 1 .. n : Len(families[p]) \in Nat
    BY <1>3, SeqIs
  <1>5. DOMAIN families = 1 .. n
    BY <1>1, <1>2
  <1>6. PICK counts : counts = [p \in DOMAIN families |-> Len(families[p])] /\ sizes' = counts
    BY DEF StartTitles
  <1>7. DOMAIN counts = 1 .. n /\ \A p \in 1 .. n : counts[p] \in Nat
    BY <1>4, <1>5, <1>6
  <1>8. PICK own : own = Owners(counts) /\ IsSeq(own)
    BY <1>7, OwnersAre
  <1>9. PICK m \in Nat : DOMAIN own = 1 .. m
    BY <1>8, SeqIs
  <1>10. title' = [i \in 1 .. m |-> Untitled]
    <2>1. title' = [i \in DOMAIN Owners(sizes') |-> Untitled]
      BY Zenon DEF StartTitles
    <2> QED BY <1>6, <1>8, <1>9, <2>1, Zenon
  <1>11. IsSeq(title')
    <2>1. PICK t : t = title'
      OBVIOUS
    <2>2. t = [i \in 1 .. m |-> t[i]]
      BY <1>10, <2>1
    <2>3. IsSeq(t)
      BY <2>2, MapIs
    <2> QED BY <2>1, <2>3, Zenon
  <1>12. phase = "chunked" /\ builder' = builder /\ phase' = "titles" /\ at' = 1
    BY DEF StartTitles, At
  <1>13. builder' \in Docs
    BY <1>12 DEF Titling
  <1>14. phase' # "enforcing" /\ at' \in Nat \ {0}
    BY <1>12
  <1> QED BY <1>11, <1>13, <1>14, Zenon DEF Titling, IsSeq

\* However the answers are taken, no title is added or goes.
LEMMA LabelFamiliesKeeps ==
  ASSUME Titling, LabelFamilies
  PROVE  Titling'
  <1>1. phase = "titles" /\ phase' = phase /\ builder' = builder /\ at' = at + 1
    BY DEF LabelFamilies, At
  <1>2. IsSeq(title) /\ at \in Nat \ {0} /\ builder \in Docs
    BY <1>1 DEF Titling
  <1> DEFINE all == [i \in DOMAIN title |-> i]
             wanted == {i \in DOMAIN title : Owners(sizes)[i] = at}
  <1>3. PICK labels : labels = Only(all, wanted)
    OBVIOUS
  <1>4. PICK offer, first : /\ first = Offered(title, labels, offer)
                            /\ \E again : title' = Offered(first, Only(labels, {i \in DOMAIN title : first[i] = Untitled}), again)
    <2>1. \E offer \in [Range(labels) -> Offers(title)] :
            \E again \in [Range(Only(labels, {i \in DOMAIN title : Offered(title, labels, offer)[i] = Untitled}))
                            -> Offers(Offered(title, labels, offer))] :
              title' = Offered(Offered(title, labels, offer),
                               Only(labels, {i \in DOMAIN title : Offered(title, labels, offer)[i] = Untitled}),
                               again)
      BY <1>3, Zenon DEF LabelFamilies
    <2> QED BY <2>1, Zenon
  <1>5. PICK rest, again : /\ rest = Only(labels, {i \in DOMAIN title : first[i] = Untitled})
                           /\ title' = Offered(first, rest, again)
    BY <1>4, Zenon
  <1>6. IsSeq(all)
    <2>1. PICK n \in Nat : DOMAIN title = 1 .. n
      BY <1>2, SeqIs
    <2>2. PICK s : s = all
      OBVIOUS
    <2>3. s = [i \in 1 .. n |-> s[i]]
      BY <2>1, <2>2
    <2> QED BY <2>1, <2>2, <2>3, MapIs
  <1>7. IsSeq(labels)
    <2>1. PICK s, w : s = all /\ w = wanted /\ IsSeq(s)
      BY <1>6, Zenon
    <2>2. IsSeq(Only(s, w))
      BY <2>1, OnlyIs
    <2> QED BY <1>3, <2>1, <2>2, Zenon
  <1>8. IsSeq(rest)
    <2>1. PICK w : w = {i \in DOMAIN title : first[i] = Untitled}
      OBVIOUS
    <2>2. IsSeq(Only(labels, w))
      BY <1>7, OnlyIs
    <2> QED BY <1>5, <2>1, <2>2, Zenon
  <1>9. IsSeq(first)
    BY <1>2, <1>4, <1>7, OfferedIs
  <1>10. IsSeq(title')
    <2>1. IsSeq(Offered(first, rest, again))
      BY <1>8, <1>9, OfferedIs
    <2> QED BY <1>5, <2>1, Zenon
  <1>11. phase' # "enforcing" /\ at' \in Nat \ {0} /\ builder' \in Docs
    BY <1>1, <1>2
  <1> QED BY <1>10, <1>11, Zenon DEF Titling, IsSeq

LEMMA StartEnforcingKeeps ==
  ASSUME Titling, StartEnforcing
  PROVE  Titling'
  <1>1. phase = "titles" /\ phase' = "enforcing" /\ builder' = builder /\ at' = 1 /\ title' = title
    BY DEF StartEnforcing, At
  <1>2. IsSeq(title) /\ builder \in Docs
    BY <1>1 DEF Titling
  <1>3. \A i \in DOMAIN title : ~(i < 1)
    <2>1. PICK n \in Nat : DOMAIN title = 1 .. n
      BY <1>2, SeqIs
    <2> QED BY <2>1
  <1>4. \A i \in DOMAIN title' : ~(i < at')
    BY <1>1, <1>3, Zenon
  <1>5. IsSeq(title')
    BY <1>1, <1>2, Zenon
  <1>6. at' \in Nat \ {0} /\ builder' \in Docs
    BY <1>1, <1>2
  <1> QED BY <1>4, <1>5, <1>6, Zenon DEF Titling, IsSeq

\* The next title differs from all before it: as it is, regenerated or as an emergency.
LEMMA EnforceTitleKeeps ==
  ASSUME Titling, EnforceTitle
  PROVE  Titling'
  <1>1. /\ phase = "enforcing" /\ phase' = phase /\ builder' = builder /\ at' = at + 1
        /\ at \in DOMAIN title
    BY DEF EnforceTitle, At
  <1>2. /\ IsSeq(title) /\ at \in Nat \ {0} /\ builder \in Docs
        /\ \A i \in DOMAIN title : i < at =>
             title[i] # Untitled /\ \A j \in DOMAIN title : j < i => title[i] # title[j]
    BY <1>1 DEF Titling
  <1>3. PICK n \in Nat : DOMAIN title = 1 .. n /\ title = [i \in 1 .. n |-> title[i]]
    BY <1>2, SeqIs
  <1>4. PICK k \in Nat : k = at /\ k \in 1 .. n
    BY <1>1, <1>2, <1>3
  <1>5. PICK before : before = SubSeq(title, 1, at - 1)
    OBVIOUS
  <1>6. /\ IsSeq(before) /\ Range(before) = {title[i] : i \in 1 .. at - 1}
        /\ \A t : Accepted(Append(before, Untitled), at, t)[at] # Untitled =>
                    t # Untitled /\ t \notin Used(before)
    <2>1. PICK q \in DOMAIN title : q = at
      BY <1>1
    <2>2. /\ IsSeq(SubSeq(title, 1, q - 1)) /\ Range(SubSeq(title, 1, q - 1)) = {title[i] : i \in 1 .. q - 1}
          /\ \A t : Accepted(Append(SubSeq(title, 1, q - 1), Untitled), q, t)[q] # Untitled =>
                      t # Untitled /\ t \notin Used(SubSeq(title, 1, q - 1))
      BY <1>2, BeforeIs
    <2> QED BY <1>5, <2>1, <2>2, Zenon
  <1>7. PICK t : /\ t # Untitled /\ t \notin Used(before)
                 /\ title' = [title EXCEPT ![at] = t] \/ (title' = title /\ title[at] = t)
    <2>1. CASE /\ Accepted(Append(before, Untitled), at, title[at])[at] # Untitled
               /\ UNCHANGED title
      BY <1>6, <2>1, Zenon
    <2>2. ASSUME NEW t \in Regenerated(before), title' = [title EXCEPT ![at] = t]
          PROVE  t # Untitled /\ t \notin Used(before)
      BY <2>2 DEF Regenerated, Titles, Untitled
    <2>3. CASE title' = [title EXCEPT ![at] = Emergency(before)]
      <3>1. Emergency(before) # Untitled /\ Emergency(before) \notin Used(before)
        BY <1>6, EmergencyIs
      <3> QED BY <2>3, <3>1, Zenon
    <2>4. \/ /\ Accepted(Append(before, Untitled), at, title[at])[at] # Untitled
             /\ UNCHANGED title
          \/ \E t \in Regenerated(before) : title' = [title EXCEPT ![at] = t]
          \/ title' = [title EXCEPT ![at] = Emergency(before)]
      BY <1>5, Zenon DEF EnforceTitle
    <2> QED BY <2>1, <2>2, <2>3, <2>4, Zenon
  <1>8. PICK new : new = title'
    OBVIOUS
  <1>9. new = [i \in 1 .. n |-> new[i]] /\ new[k] = t /\ \A i \in 1 .. n : i # k => new[i] = title[i]
    BY <1>3, <1>4, <1>7, <1>8
  <1>10. IsSeq(new) /\ DOMAIN new = 1 .. n
    BY <1>9, MapIs
  <1>11. ASSUME NEW j \in 1 .. n, j < k PROVE t # new[j]
    <2>1. new[j] = title[j] /\ j \in 1 .. at - 1
      BY <1>4, <1>9, <1>11
    <2>2. new[j] \in Range(before)
      BY <1>6, <2>1
    <2> QED BY <1>7, <2>2 DEF Used
  <1>12. ASSUME NEW i \in 1 .. n, i < k + 1
         PROVE  new[i] # Untitled /\ \A j \in 1 .. n : j < i => new[i] # new[j]
    <2>1. CASE i = k
      BY <1>7, <1>9, <1>11, <2>1
    <2>2. CASE i # k
      <3>1. i < k
        BY <1>12, <2>2
      <3>2. title[i] # Untitled /\ \A j \in 1 .. n : j < i => title[i] # title[j]
        BY <1>2, <1>3, <1>4, <3>1
      <3>3. new[i] = title[i] /\ \A j \in 1 .. n : j < i => new[j] = title[j]
        BY <1>9, <2>2, <3>1
      <3> QED BY <3>2, <3>3
    <2> QED BY <2>1, <2>2
  <1>13. IsSeq(title')
    BY <1>8, <1>10, Zenon
  <1>14. \A i \in DOMAIN title' : i < at' =>
           title'[i] # Untitled /\ \A j \in DOMAIN title' : j < i => title'[i] # title'[j]
    <2>1. at' = k + 1
      BY <1>1, <1>4
    <2> QED BY <1>8, <1>10, <1>12, <2>1, Zenon
  <1>15. at' \in Nat \ {0} /\ builder' \in Docs
    BY <1>1, <1>2
  <1> QED BY <1>13, <1>14, <1>15, Zenon DEF Titling, IsSeq

LEMMA TitlingStays ==
  ASSUME Titling, Divided, [IngestNext]_ingestVars
  PROVE  Titling'
  <1>1. CASE UNCHANGED <<phase, builder, title, at>>
    BY <1>1, Zenon DEF Titling, IsSeq
  <1>2. CASE phase' = "none"
    BY <1>2 DEF Titling
  <1>3. CASE phase' = "headings" /\ builder' \in Docs
    BY <1>3 DEF Titling
  <1>4. CASE phase # "none" /\ builder' = builder /\ phase' \in {"chunking", "children", "chunked"}
    BY <1>4 DEF Titling
  <1> QED BY <1>1, <1>2, <1>3, <1>4, TitlingSteps, StartTitlesKeeps, LabelFamiliesKeeps,
             StartEnforcingKeeps, EnforceTitleKeeps

-----------------------------------------------------------------------------
(* What is cached, stored and filed.                                       *)

\* A structure that passed the verification, whose titles all differ, by its id; those
\* that an execution built for a document, and those that were restored for it too.
Passed(i) == [id |-> i, lost |-> {}, titled |-> TRUE]
Made(d) == {<<d, n>> : n \in Nat}
Own(d) == Made(d) \cup {<<e, n, d>> : e \in Docs, n \in Nat}
Structures(ids) == {Passed(i) : i \in ids}
Perhaps(ids) == {Nothing} \cup Structures(ids)
Cachable == {Nothing} \cup UNION {Structures(Made(e)) : e \in Docs}

Holding == {"cached", "stored", "filing", "put", "done"}
Storing == {"stored", "filing", "put", "done"}
Filing == {"put", "done"}

\* An execution, w, holds a structure of its document.  While it owns the job, and when it
\* has completed it, the structure it has stored is stored, and the one it has filed is
\* filed: unless another wrote the file since.
Execution(w, n, j, c, s, f, a, d) ==
  /\ w.pc = "built" => w.made \in Structures(Made(d))
  /\ w.pc \in Holding => w.made \in Structures(Own(d))
  /\ w.pc # "none" => n <= c
  /\ n = c /\ j \in {"running", "completed"} /\ w.pc \in Storing => s = w.made
  /\ n = c /\ j \in {"running", "completed"} /\ w.pc \in Filing => f # Nothing /\ (a = n => f = w.made)

\* The executions of the job of a document, v; its status and its claim; what is stored
\* and filed, and who filed it.
Stock(v, j, c, s, f, a, d) ==
  /\ v = [n \in Runs |-> v[n]] /\ c \in Nat /\ a \in 0 .. c
  /\ s \in Perhaps(Own(d)) /\ f \in Perhaps(Own(d))
  /\ j = "completed" => c \in Runs /\ v[c].pc = "done"
  /\ \A n \in Runs : Execution(v[n], n, j, c, s, f, a, d)

OnDocs(g) == g = [d \in Docs |-> g[d]]

Stocked ==
  /\ OnDocs(work) /\ OnDocs(job) /\ OnDocs(claim) /\ OnDocs(store) /\ OnDocs(file) /\ OnDocs(author)
  /\ cache \in Cachable
  /\ \A d \in Docs : Stock(work[d], job[d], claim[d], store[d], file[d], author[d], d)

\* What is being built is built by an execution.
AtWork == phase # "none" => builder \in Docs /\ run \in Runs /\ work[builder][run].pc = "building"

LEMMA AppendToPair ==
  ASSUME NEW X, NEW a \in X, NEW b \in X, NEW c \in X
  PROVE  Append(<<a, b>>, c) = <<a, b, c>>
  <1>1. PICK s \in Seq(X) : s = <<a, b>> /\ Len(s) = 2 /\ s[1] = a /\ s[2] = b
    <2>1. <<a, b>> \in Seq(X) /\ Len(<<a, b>>) = 2
      OBVIOUS
    <2>2. <<a, b>>[1] = a /\ <<a, b>>[2] = b
      OBVIOUS
    <2> QED BY <2>1, <2>2, Zenon
  <1>2. PICK t \in Seq(X) : t = <<a, b, c>> /\ Len(t) = 3 /\ t[1] = a /\ t[2] = b /\ t[3] = c
    <2>1. <<a, b, c>> \in Seq(X) /\ Len(<<a, b, c>>) = 3
      OBVIOUS
    <2>2. <<a, b, c>>[1] = a /\ <<a, b, c>>[2] = b /\ <<a, b, c>>[3] = c
      OBVIOUS
    <2> QED BY <2>1, <2>2, Zenon
  <1>3. PICK r \in Seq(X) : r = Append(s, c) /\ Len(r) = Len(s) + 1 /\ r[Len(s) + 1] = c
                            /\ \A i \in 1 .. Len(s) : r[i] = s[i]
    <2>1. Append(s, c) \in Seq(X) /\ Len(Append(s, c)) = Len(s) + 1
      OBVIOUS
    <2>2. Append(s, c)[Len(s) + 1] = c /\ \A i \in 1 .. Len(s) : Append(s, c)[i] = s[i]
      OBVIOUS
    <2> QED BY <2>1, <2>2, Zenon
  <1>4. Len(r) = 3 /\ r[1] = a /\ r[2] = b /\ r[3] = c
    BY <1>1, <1>3
  <1>5. \A i \in 1 .. Len(r) : r[i] = t[i]
    BY <1>2, <1>4
  <1>6. r = t
    BY <1>2, <1>4, <1>5, SeqEq
  <1> QED BY <1>1, <1>2, <1>3, <1>6, Zenon

LEMMA PassedIs ==
  ASSUME NEW d \in Docs, NEW e \in Docs
  PROVE  /\ \A x \in Structures(Own(d)) : x # Nothing /\ x.lost = {} /\ x.titled
         /\ Structures(Made(d)) \subseteq Structures(Own(d))
         /\ \A x \in Structures(Made(e)) : MadeFor(x, d) \in Structures(Own(d))
  <1>1. ASSUME NEW x \in Structures(Own(d)) PROVE x # Nothing /\ x.lost = {} /\ x.titled
    <2>1. PICK i \in Own(d) : x = Passed(i)
      BY DEF Structures
    <2>2. i # <<>>
      BY DEF Own, Made
    <2>3. x.id = i /\ x.lost = {} /\ x.titled
      BY <2>1 DEF Passed
    <2>4. Nothing.id = <<>>
      BY DEF Nothing
    <2> QED BY <2>2, <2>3, <2>4
  <1>2. Structures(Made(d)) \subseteq Structures(Own(d))
    BY DEF Structures, Own
  <1>3. ASSUME NEW x \in Structures(Made(e)) PROVE MadeFor(x, d) \in Structures(Own(d))
    <2>1. PICK n \in Nat : x = Passed(<<e, n>>)
      BY DEF Structures, Made
    <2>2. Append(<<e, n>>, d) = <<e, n, d>>
      <3>1. PICK X : e \in X /\ n \in X /\ d \in X
        <4>1. e \in {e, n, d} /\ n \in {e, n, d} /\ d \in {e, n, d}
          BY Zenon
        <4> QED BY <4>1, Zenon
      <3> QED BY <3>1, AppendToPair
    <2>3. x = [id |-> <<e, n>>, lost |-> {}, titled |-> TRUE]
      BY <2>1 DEF Passed
    <2>4. MadeFor(x, d) = [x EXCEPT !.id = Append(x.id, d)]
      BY DEF MadeFor
    <2>5. x.id = <<e, n>>
      BY <2>3
    <2>6. MadeFor(x, d) = [x EXCEPT !.id = <<e, n, d>>]
      BY <2>2, <2>4, <2>5
    <2>7. MadeFor(x, d) = Passed(<<e, n, d>>)
      BY <2>3, <2>6 DEF Passed
    <2>8. <<e, n, d>> \in Own(d)
      BY DEF Own
    <2> QED BY <2>7, <2>8 DEF Structures
  <1> QED BY <1>1, <1>2, <1>3

\* A function on the documents changes for one of them, or for none.
Puts(g, h, d, x) == h = [g EXCEPT ![d] = x] \/ (h = g /\ x = g[d])

\* A step that is the business of one document.
LEMMA OneIsWorked ==
  ASSUME Stocked, NEW d \in Docs, NEW v, NEW j, NEW c, NEW s, NEW f, NEW a,
         Puts(work, work', d, v), Puts(job, job', d, j), Puts(claim, claim', d, c),
         Puts(store, store', d, s), Puts(file, file', d, f), Puts(author, author', d, a),
         Stock(v, j, c, s, f, a, d), cache' \in Cachable
  PROVE  Stocked'
  <1>1. /\ OnDocs(work) /\ OnDocs(job) /\ OnDocs(claim) /\ OnDocs(store) /\ OnDocs(file) /\ OnDocs(author)
        /\ \A e \in Docs : Stock(work[e], job[e], claim[e], store[e], file[e], author[e], e)
    BY Zenon DEF Stocked
  <1>2. OnDocs(work') /\ work'[d] = v /\ \A e \in Docs : e # d => work'[e] = work[e]
    BY <1>1 DEF Puts, OnDocs
  <1>3. OnDocs(job') /\ job'[d] = j /\ \A e \in Docs : e # d => job'[e] = job[e]
    BY <1>1 DEF Puts, OnDocs
  <1>4. OnDocs(claim') /\ claim'[d] = c /\ \A e \in Docs : e # d => claim'[e] = claim[e]
    BY <1>1 DEF Puts, OnDocs
  <1>5. OnDocs(store') /\ store'[d] = s /\ \A e \in Docs : e # d => store'[e] = store[e]
    BY <1>1 DEF Puts, OnDocs
  <1>6. OnDocs(file') /\ file'[d] = f /\ \A e \in Docs : e # d => file'[e] = file[e]
    BY <1>1 DEF Puts, OnDocs
  <1>7. OnDocs(author') /\ author'[d] = a /\ \A e \in Docs : e # d => author'[e] = author[e]
    BY <1>1 DEF Puts, OnDocs
  <1>8. ASSUME NEW e \in Docs
        PROVE  Stock(work'[e], job'[e], claim'[e], store'[e], file'[e], author'[e], e)
    <2>1. CASE e = d
      BY <1>2, <1>3, <1>4, <1>5, <1>6, <1>7, <2>1, Zenon
    <2>2. CASE e # d
      BY <1>1, <1>2, <1>3, <1>4, <1>5, <1>6, <1>7, <2>2, Zenon
    <2> QED BY <2>1, <2>2
  <1> QED BY <1>2, <1>3, <1>4, <1>5, <1>6, <1>7, <1>8, Zenon DEF Stocked, OnDocs

LEMMA GoesIs ==
  ASSUME NEW d \in Docs, NEW n \in Runs, NEW pc, NEW made, Goes(d, n, pc, made),
         OnDocs(work), work[d] = [m \in Runs |-> work[d][m]]
  PROVE  \E v : /\ Puts(work, work', d, v) /\ v = [m \in Runs |-> v[m]]
                /\ v[n].pc = pc /\ v[n].made = made
                /\ \A m \in Runs : m # n => v[m] = work[d][m]
  <1>1. PICK w : w = [pc |-> pc, made |-> made] /\ w.pc = pc /\ w.made = made
    <2>1. [pc |-> pc, made |-> made].pc = pc /\ [pc |-> pc, made |-> made].made = made
      OBVIOUS
    <2> QED BY <2>1, Zenon
  <1>2. PICK u : u = work[d] /\ u = [m \in Runs |-> u[m]]
    OBVIOUS
  <1>3. PICK v : v = [u EXCEPT ![n] = w]
    OBVIOUS
  <1>4. v = [m \in Runs |-> v[m]] /\ v[n] = w /\ \A m \in Runs : m # n => v[m] = u[m]
    BY <1>2, <1>3
  <1>5. work' = [work EXCEPT ![d][n] = w]
    BY <1>1, Zenon DEF Goes
  <1>6. work' = [work EXCEPT ![d] = v]
    BY <1>2, <1>3, <1>5
  <1>7. Puts(work, work', d, v)
    BY <1>6, Zenon DEF Puts
  <1>8. v[n].pc = pc /\ v[n].made = made
    BY <1>1, <1>4, Zenon
  <1>9. v = [m \in Runs |-> v[m]]
    BY <1>4, Zenon
  <1>10. \A m \in Runs : m # n => v[m] = work[d][m]
    BY <1>2, <1>4, Zenon
  <1> QED BY <1>7, <1>8, <1>9, <1>10, Zenon

LEMMA StockedStarts ==
  ASSUME IngestInit
  PROVE  Stocked
  <1>1. /\ work = [d \in Docs |-> [n \in Runs |-> Idle]] /\ cache = Nothing
        /\ job = [d \in Docs |-> "queued"] /\ claim = [d \in Docs |-> 0]
        /\ store = [d \in Docs |-> Nothing] /\ file = [d \in Docs |-> Nothing]
        /\ author = [d \in Docs |-> 0]
    BY DEF IngestInit
  <1>2. Idle.pc = "none"
    BY DEF Idle
  <1>3. ASSUME NEW d \in Docs
        PROVE  Stock(work[d], job[d], claim[d], store[d], file[d], author[d], d)
    <2>1. PICK v : v = work[d] /\ v = [n \in Runs |-> v[n]] /\ \A n \in Runs : v[n] = Idle
      BY <1>1
    <2>2. job[d] = "queued" /\ claim[d] = 0 /\ store[d] = Nothing /\ file[d] = Nothing /\ author[d] = 0
      BY <1>1
    <2>3. \A n \in Runs : Execution(v[n], n, job[d], claim[d], store[d], file[d], author[d], d)
      BY <1>2, <2>1, <2>2 DEF Execution, Holding, Storing, Filing
    <2>4. store[d] \in Perhaps(Own(d)) /\ file[d] \in Perhaps(Own(d))
      BY <2>2 DEF Perhaps
    <2>5. claim[d] \in Nat /\ author[d] \in 0 .. claim[d] /\ job[d] # "completed"
      BY <2>2
    <2> QED BY <2>1, <2>3, <2>4, <2>5, Zenon DEF Stock
  <1>4. cache \in Cachable
    BY <1>1 DEF Cachable
  <1>5. OnDocs(work) /\ OnDocs(job) /\ OnDocs(claim) /\ OnDocs(store) /\ OnDocs(file) /\ OnDocs(author)
    BY <1>1 DEF OnDocs
  <1> QED BY <1>3, <1>4, <1>5, Zenon DEF Stocked

\* An execution goes where it holds nothing, and its job is retried at most.
LEMMA LetsGo ==
  ASSUME Stocked, NEW d \in Docs, NEW n \in Runs, NEW pc, Goes(d, n, pc, Nothing),
         pc \in {"building", "over"}, work[d][n].pc \notin Gone,
         UNCHANGED <<claim, shared>>, NEW j, Puts(job, job', d, j),
         j = job[d] \/ j \in {"queued", "failed"}
  PROVE  Stocked'
  <1>1. Stock(work[d], job[d], claim[d], store[d], file[d], author[d], d) /\ cache \in Cachable /\ OnDocs(work)
    BY Zenon DEF Stocked
  <1>2. work[d] = [m \in Runs |-> work[d][m]]
    BY <1>1, Zenon DEF Stock
  <1>3. PICK v : /\ Puts(work, work', d, v) /\ v = [m \in Runs |-> v[m]]
                 /\ v[n].pc = pc /\ v[n].made = Nothing
                 /\ \A m \in Runs : m # n => v[m] = work[d][m]
    BY <1>1, <1>2, GoesIs
  <1>4. PICK u, i, c, s, f, a :
          /\ u = work[d] /\ i = job[d] /\ c = claim[d] /\ s = store[d] /\ f = file[d] /\ a = author[d]
          /\ Stock(u, i, c, s, f, a, d)
    BY <1>1, Zenon
  <1>5. ASSUME NEW m \in Runs PROVE Execution(v[m], m, j, c, s, f, a, d)
    <2>1. Execution(u[m], m, i, c, s, f, a, d) /\ Execution(u[n], n, i, c, s, f, a, d)
      BY <1>4, Zenon DEF Stock
    <2>2. CASE m = n
      <3>1. u[n].pc # "none"
        BY <1>4 DEF Gone
      <3>2. pc \notin Holding /\ pc # "built" /\ pc \notin Storing /\ pc \notin Filing
        BY DEF Holding, Storing, Filing
      <3> QED BY <1>3, <2>1, <2>2, <3>1, <3>2 DEF Execution
    <2>3. CASE m # n
      <3>1. v[m] = u[m]
        BY <1>3, <1>4, <2>3
      <3>2. j \in {"running", "completed"} => i \in {"running", "completed"}
        BY <1>4
      <3> QED BY <2>1, <3>1, <3>2 DEF Execution
    <2> QED BY <2>2, <2>3
  <1>6. j = "completed" => c \in Runs /\ v[c].pc = "done"
    <2>1. ASSUME j = "completed" PROVE c \in Runs /\ v[c].pc = "done"
      <3>1. c \in Runs /\ u[c].pc = "done"
        BY <1>4, <2>1 DEF Stock
      <3>2. c # n
        BY <1>4, <3>1 DEF Gone
      <3> QED BY <1>3, <1>4, <3>1, <3>2
    <2> QED BY <2>1
  <1>7. Stock(v, j, c, s, f, a, d)
    BY <1>3, <1>4, <1>5, <1>6, Zenon DEF Stock
  <1>8. /\ Puts(claim, claim', d, c) /\ Puts(store, store', d, s) /\ Puts(file, file', d, f)
        /\ Puts(author, author', d, a) /\ cache' \in Cachable
    BY <1>1, <1>4 DEF Puts, shared
  <1> QED BY <1>3, <1>7, <1>8, OneIsWorked

LEMMA FailedKeeps ==
  ASSUME Stocked, NEW d \in Docs, NEW n \in Runs, Failed(d, n), work[d][n].pc \notin Gone
  PROVE  Stocked'
  <1>1. Goes(d, n, "over", Nothing) /\ UNCHANGED shared /\ UNCHANGED claim
    BY DEF Failed, Again, jobs
  <1>2. \E j : Puts(job, job', d, j) /\ (j = job[d] \/ j \in {"queued", "failed"})
    <2>1. CASE Owns(d, n)
      <3>1. PICK j : j = (IF claim[d] < MaxRuns THEN "queued" ELSE "failed")
        OBVIOUS
      <3>2. job' = [job EXCEPT ![d] = j]
        BY <2>1, <3>1, Zenon DEF Failed, Again
      <3>3. j \in {"queued", "failed"}
        BY <3>1
      <3> QED BY <3>2, <3>3, Zenon DEF Puts
    <2>2. CASE ~Owns(d, n)
      <3>1. job' = job
        BY <2>2 DEF Failed, jobs
      <3> QED BY <3>1, Zenon DEF Puts
    <2> QED BY <2>1, <2>2
  <1>3. PICK j : Puts(job, job', d, j) /\ (j = job[d] \/ j \in {"queued", "failed"})
    BY <1>2
  <1>4. "over" \in {"building", "over"}
    OBVIOUS
  <1> QED BY <1>1, <1>3, <1>4, LetsGo

LEMMA LoadKeeps ==
  ASSUME Stocked, NEW d \in Docs, Load(d)
  PROVE  Stocked'
  <1>1. Stock(work[d], job[d], claim[d], store[d], file[d], author[d], d) /\ cache \in Cachable
        /\ OnDocs(work) /\ OnDocs(claim)
    BY Zenon DEF Stocked
  <1>2. PICK u, c, s, f, a :
          /\ u = work[d] /\ c = claim[d] /\ s = store[d] /\ f = file[d] /\ a = author[d]
          /\ Stock(u, job[d], c, s, f, a, d)
    BY <1>1, Zenon
  <1>3. c \in Nat /\ a \in 0 .. c /\ u = [m \in Runs |-> u[m]]
    BY <1>2 DEF Stock
  <1>4. PICK n : n = c + 1
    OBVIOUS
  <1>5. n \in Runs /\ n \in Nat /\ c < n /\ a \in 0 .. n
    <2>1. c < MaxRuns
      BY <1>2 DEF Load
    <2> QED BY <1>3, <1>4, <2>1, IngestAssumption DEF Runs
  <1>6. PICK pc, made : /\ Goes(d, n, pc, made)
                        /\ (pc = "cached" /\ made \in Structures(Own(d))) \/ pc = "missed"
    <2>1. CASE cache # Nothing
      <3>1. Goes(d, n, "cached", MadeFor(cache, d))
        BY <1>2, <1>4, <2>1, Zenon DEF Load
      <3>2. PICK e \in Docs : cache \in Structures(Made(e))
        BY <1>1, <2>1 DEF Cachable
      <3>3. MadeFor(cache, d) \in Structures(Own(d))
        BY <3>2, PassedIs
      <3> QED BY <3>1, <3>3, Zenon
    <2>2. CASE cache = Nothing
      <3>1. Goes(d, n, "missed", Nothing)
        BY <1>2, <1>4, <2>2, Zenon DEF Load
      <3> QED BY <3>1, Zenon
    <2> QED BY <2>1, <2>2
  <1>7. work[d] = [m \in Runs |-> work[d][m]]
    BY <1>2, <1>3, Zenon
  <1>8. PICK v : /\ Puts(work, work', d, v) /\ v = [m \in Runs |-> v[m]]
                 /\ v[n].pc = pc /\ v[n].made = made
                 /\ \A m \in Runs : m # n => v[m] = work[d][m]
    BY <1>1, <1>5, <1>6, <1>7, GoesIs
  <1>9. ASSUME NEW m \in Runs PROVE Execution(v[m], m, "running", n, s, f, a, d)
    <2>1. CASE m = n
      <3>1. pc \notin Storing /\ pc \notin Filing /\ pc # "built"
        BY <1>6 DEF Storing, Filing
      <3>2. pc \in Holding => made \in Structures(Own(d))
        BY <1>6 DEF Holding
      <3> QED BY <1>5, <1>8, <2>1, <3>1, <3>2 DEF Execution
    <2>2. CASE m # n
      <3>1. v[m] = u[m] /\ Execution(u[m], m, job[d], c, s, f, a, d) /\ m \in Nat
        BY <1>2, <1>8, <2>2 DEF Stock, Runs
      <3> QED BY <1>3, <1>5, <2>2, <3>1 DEF Execution
    <2> QED BY <2>1, <2>2
  <1>10. s \in Perhaps(Own(d)) /\ f \in Perhaps(Own(d))
    BY <1>2 DEF Stock
  <1>11. Stock(v, "running", n, s, f, a, d)
    <2>1. "running" # "completed"
      OBVIOUS
    <2> QED BY <1>5, <1>8, <1>9, <1>10, <2>1, Zenon DEF Stock
  <1>12. Puts(job, job', d, "running") /\ Puts(claim, claim', d, n)
    <2>1. claim' = [claim EXCEPT ![d] = claim[d] + 1] /\ job' = [job EXCEPT ![d] = "running"]
      BY Zenon DEF Load
    <2> QED BY <1>2, <1>4, <2>1, Zenon DEF Puts
  <1>13. /\ Puts(store, store', d, s) /\ Puts(file, file', d, f) /\ Puts(author, author', d, a)
         /\ cache' \in Cachable
    BY <1>1, <1>2 DEF Load, Puts, shared
  <1> QED BY <1>8, <1>11, <1>12, <1>13, OneIsWorked

LEMMA ExtractKeeps ==
  ASSUME Stocked, NEW d \in Docs, NEW n \in Runs, Extract(d, n)
  PROVE  Stocked'
  <1>1. Failed(d, n) \/ (Goes(d, n, "building", Nothing) /\ UNCHANGED <<jobs, shared>>)
    <2>1. \E given \in Contents :
            IF Cleaned(given) = <<>> THEN Failed(d, n)
            ELSE Goes(d, n, "building", Nothing) /\ UNCHANGED <<jobs, shared>>
      BY Zenon DEF Extract
    <2> QED BY <2>1, Zenon
  <1>2. work[d][n].pc \notin Gone
    BY DEF Extract, Gone
  <1>3. CASE Goes(d, n, "building", Nothing) /\ UNCHANGED <<jobs, shared>>
    <2>1. UNCHANGED <<claim, shared>> /\ Puts(job, job', d, job[d])
      BY <1>3 DEF jobs, Puts
    <2>2. "building" \in {"building", "over"}
      OBVIOUS
    <2>3. PICK j : j = job[d] /\ Puts(job, job', d, j)
      BY <2>1, Zenon
    <2> QED BY <1>2, <1>3, <2>1, <2>2, <2>3, LetsGo
  <1> QED BY <1>1, <1>2, <1>3, FailedKeeps

\* An execution that holds a structure goes on with it; it writes only if it owns the job,
\* but for the cache and the file.
Advances(d, n, pc, made, j, s, f, a) ==
  /\ Goes(d, n, pc, made) /\ work[d][n].pc \notin Gone /\ pc \in Holding
  /\ made \in Structures(Own(d)) /\ cache' \in Cachable /\ UNCHANGED claim
  /\ Puts(job, job', d, j) /\ Puts(store, store', d, s)
  /\ Puts(file, file', d, f) /\ Puts(author, author', d, a)
  /\ j = job[d] \/ (j = "completed" /\ pc = "done" /\ n = claim[d])
  /\ j = "completed" => job[d] \in {"running", "completed"}
  /\ s = store[d] \/ (n = claim[d] /\ s \in Structures(Own(d)))
  /\ f \in Perhaps(Own(d))
  /\ (f = file[d] /\ a = author[d]) \/ (a = n /\ f # Nothing)
  /\ n = claim[d] /\ j \in {"running", "completed"} /\ pc \in Storing => s = made
  /\ n = claim[d] /\ j \in {"running", "completed"} /\ pc \in Filing =>
       f # Nothing /\ (a = n => f = made)

LEMMA HoldsOn ==
  ASSUME Stocked, NEW d \in Docs, NEW n \in Runs, NEW pc, NEW made, NEW j, NEW s, NEW f, NEW a,
         Advances(d, n, pc, made, j, s, f, a)
  PROVE  Stocked'
  <1>1. Stock(work[d], job[d], claim[d], store[d], file[d], author[d], d) /\ OnDocs(work)
    BY Zenon DEF Stocked
  <1>2. work[d] = [m \in Runs |-> work[d][m]]
    BY <1>1, Zenon DEF Stock
  <1>3. /\ Goes(d, n, pc, made) /\ work[d][n].pc \notin Gone /\ pc \in Holding
        /\ made \in Structures(Own(d)) /\ cache' \in Cachable /\ UNCHANGED claim
        /\ Puts(job, job', d, j) /\ Puts(store, store', d, s)
        /\ Puts(file, file', d, f) /\ Puts(author, author', d, a) /\ f \in Perhaps(Own(d))
    BY Zenon DEF Advances
  <1>4. /\ j = job[d] \/ (j = "completed" /\ pc = "done" /\ n = claim[d])
        /\ j = "completed" => job[d] \in {"running", "completed"}
        /\ s = store[d] \/ (n = claim[d] /\ s \in Structures(Own(d)))
        /\ (f = file[d] /\ a = author[d]) \/ (a = n /\ f # Nothing)
    BY Zenon DEF Advances
  <1>5. /\ n = claim[d] /\ j \in {"running", "completed"} /\ pc \in Storing => s = made
        /\ n = claim[d] /\ j \in {"running", "completed"} /\ pc \in Filing =>
             f # Nothing /\ (a = n => f = made)
    BY Zenon DEF Advances
  <1>6. PICK v : /\ Puts(work, work', d, v) /\ v = [m \in Runs |-> v[m]]
                 /\ v[n].pc = pc /\ v[n].made = made
                 /\ \A m \in Runs : m # n => v[m] = work[d][m]
    BY <1>1, <1>2, <1>3, GoesIs
  <1>7. PICK u, i, c, r, g, b :
          /\ u = work[d] /\ i = job[d] /\ c = claim[d] /\ r = store[d] /\ g = file[d] /\ b = author[d]
          /\ Stock(u, i, c, r, g, b, d)
    BY <1>1, Zenon
  <1>8. /\ c \in Nat /\ b \in 0 .. c /\ r \in Perhaps(Own(d))
        /\ i = "completed" => c \in Runs /\ u[c].pc = "done"
        /\ \A m \in Runs : Execution(u[m], m, i, c, r, g, b, d)
    BY <1>7 DEF Stock
  <1>9. n \in Nat \ {0} /\ n <= c
    <2>1. u[n].pc # "none" /\ Execution(u[n], n, i, c, r, g, b, d)
      BY <1>3, <1>7, <1>8 DEF Gone
    <2>2. n \in Nat \ {0}
      BY DEF Runs
    <2> QED BY <2>1, <2>2 DEF Execution
  <1>10. a \in 0 .. c
    BY <1>4, <1>7, <1>8, <1>9
  <1>11. s \in Perhaps(Own(d))
    BY <1>4, <1>7, <1>8 DEF Perhaps
  <1>12. ASSUME NEW m \in Runs PROVE Execution(v[m], m, j, c, s, f, a, d)
    <2>1. CASE m = n
      <3>1. pc # "built"
        BY <1>3 DEF Holding
      <3> QED BY <1>3, <1>5, <1>6, <1>7, <1>9, <2>1, <3>1 DEF Execution
    <2>2. CASE m # n
      <3>1. v[m] = u[m] /\ Execution(u[m], m, i, c, r, g, b, d)
        BY <1>6, <1>7, <1>8, <2>2
      <3>2. m = c => s = r /\ (j = i)
        BY <1>4, <1>7, <2>2
      <3>3. m = c => (f = g /\ a = b) \/ (a # m /\ f # Nothing)
        BY <1>4, <1>7, <2>2
      <3> QED BY <3>1, <3>2, <3>3 DEF Execution
    <2> QED BY <2>1, <2>2
  <1>13. ASSUME j = "completed" PROVE c \in Runs /\ v[c].pc = "done"
    <2>1. CASE j = i
      <3>1. c \in Runs /\ u[c].pc = "done"
        BY <1>8, <1>13, <2>1
      <3>2. c # n
        BY <1>3, <1>7, <3>1 DEF Gone
      <3> QED BY <1>6, <1>7, <3>1, <3>2
    <2>2. CASE j # i
      BY <1>4, <1>6, <1>7, <2>2
    <2> QED BY <2>1, <2>2
  <1>14. Stock(v, j, c, s, f, a, d)
    BY <1>3, <1>6, <1>8, <1>10, <1>11, <1>12, <1>13, Zenon DEF Stock
  <1>15. Puts(claim, claim', d, c)
    BY <1>3, <1>7 DEF Puts
  <1> QED BY <1>3, <1>6, <1>7, <1>14, <1>15, OneIsWorked

\* What an execution that has not ended holds.
LEMMA HeldIs ==
  ASSUME Stocked, NEW d \in Docs, NEW n \in Runs
  PROVE  /\ Execution(work[d][n], n, job[d], claim[d], store[d], file[d], author[d], d)
         /\ store[d] \in Perhaps(Own(d)) /\ file[d] \in Perhaps(Own(d)) /\ cache \in Cachable
  <1>1. Stock(work[d], job[d], claim[d], store[d], file[d], author[d], d) /\ cache \in Cachable
    BY Zenon DEF Stocked
  <1> QED BY <1>1, Zenon DEF Stock

\* What an execution built is cached as it is.
LEMMA SaveProcessedKeeps ==
  ASSUME Stocked, NEW d \in Docs, NEW n \in Runs, SaveProcessed(d, n)
  PROVE  Stocked'
  <1>1. PICK made : /\ made = work[d][n].made /\ work[d][n].pc = "built"
                    /\ cache' = made /\ Goes(d, n, "cached", made)
    BY Zenon DEF SaveProcessed
  <1>2. made \in Structures(Made(d)) /\ file[d] \in Perhaps(Own(d))
    BY <1>1, HeldIs DEF Execution
  <1>3. made \in Structures(Own(d)) /\ cache' \in Cachable
    BY <1>1, <1>2, PassedIs DEF Cachable
  <1>4. PICK j, s, f, a : /\ j = job[d] /\ s = store[d] /\ f = file[d] /\ a = author[d]
                          /\ Puts(job, job', d, j) /\ Puts(store, store', d, s)
                          /\ Puts(file, file', d, f) /\ Puts(author, author', d, a)
    BY DEF SaveProcessed, jobs, Puts
  <1>5. claim' = claim /\ work[d][n].pc \notin Gone
    BY <1>1 DEF SaveProcessed, jobs, Gone
  <1>6. "cached" \in Holding /\ "cached" \notin Storing /\ "cached" \notin Filing
    BY DEF Holding, Storing, Filing
  <1>7. Advances(d, n, "cached", made, j, s, f, a)
    BY <1>1, <1>2, <1>3, <1>4, <1>5, <1>6 DEF Advances
  <1> QED BY <1>7, HoldsOn

LEMMA ReplaceDocumentKeeps ==
  ASSUME Stocked, NEW d \in Docs, NEW n \in Runs, ReplaceDocument(d, n)
  PROVE  Stocked'
  <1>1. PICK made, pc : /\ made = work[d][n].made /\ work[d][n].pc = "cached"
                        /\ store' = [store EXCEPT ![d] = made] /\ Goes(d, n, pc, made)
                        /\ pc = IF Restored(made) THEN "filing" ELSE "stored"
    BY Zenon DEF ReplaceDocument
  <1>2. made \in Structures(Own(d)) /\ file[d] \in Perhaps(Own(d)) /\ cache \in Cachable
    BY <1>1, HeldIs DEF Execution, Holding
  <1>3. PICK j, f, a : /\ j = job[d] /\ f = file[d] /\ a = author[d]
                       /\ Puts(job, job', d, j)
                       /\ Puts(file, file', d, f) /\ Puts(author, author', d, a)
    BY DEF ReplaceDocument, jobs, Puts
  <1>4. PICK s : s = made /\ Puts(store, store', d, s)
    BY <1>1, Zenon DEF Puts
  <1>5. claim' = claim /\ work[d][n].pc \notin Gone /\ cache' \in Cachable /\ n = claim[d]
    BY <1>1, <1>2 DEF ReplaceDocument, jobs, Gone, Owns
  <1>6. pc \in Holding /\ pc \notin Filing
    BY <1>1 DEF Holding, Filing
  <1>7. Advances(d, n, pc, made, j, s, f, a)
    BY <1>1, <1>2, <1>3, <1>4, <1>5, <1>6 DEF Advances
  <1> QED BY <1>7, HoldsOn

LEMMA LookAgainKeeps ==
  ASSUME Stocked, NEW d \in Docs, NEW n \in Runs, LookAgain(d, n)
  PROVE  Stocked'
  <1>1. PICK made : made = work[d][n].made /\ work[d][n].pc = "stored" /\ Goes(d, n, "filing", made)
    BY Zenon DEF LookAgain
  <1>2. job[d] = "running" /\ n = claim[d]
    BY DEF LookAgain, Owns
  <1>3. made \in Structures(Own(d)) /\ file[d] \in Perhaps(Own(d)) /\ cache \in Cachable /\ store[d] = made
    BY <1>1, <1>2, HeldIs DEF Execution, Holding, Storing
  <1>4. PICK j, s, f, a : /\ j = job[d] /\ s = store[d] /\ f = file[d] /\ a = author[d]
                          /\ Puts(job, job', d, j) /\ Puts(store, store', d, s)
                          /\ Puts(file, file', d, f) /\ Puts(author, author', d, a)
    BY DEF LookAgain, jobs, shared, Puts
  <1>5. claim' = claim /\ work[d][n].pc \notin Gone /\ cache' \in Cachable
    BY <1>1, <1>3 DEF LookAgain, jobs, shared, Gone
  <1>6. "filing" \in Holding /\ "filing" \notin Filing
    BY DEF Holding, Filing
  <1>7. Advances(d, n, "filing", made, j, s, f, a)
    BY <1>1, <1>2, <1>3, <1>4, <1>5, <1>6 DEF Advances
  <1> QED BY <1>7, HoldsOn

\* An execution that has been taken over may write the file; it is its author then.
LEMMA PutStructureKeeps ==
  ASSUME Stocked, NEW d \in Docs, NEW n \in Runs, PutStructure(d, n)
  PROVE  Stocked'
  <1>1. PICK made : /\ made = work[d][n].made /\ work[d][n].pc = "filing" /\ Goes(d, n, "put", made)
                    /\ file' = [file EXCEPT ![d] = made] /\ author' = [author EXCEPT ![d] = n]
    BY Zenon DEF PutStructure
  <1>2. /\ made \in Structures(Own(d)) /\ cache \in Cachable
        /\ n = claim[d] /\ job[d] \in {"running", "completed"} => store[d] = made
    BY <1>1, HeldIs DEF Execution, Holding, Storing
  <1>3. made # Nothing /\ made \in Perhaps(Own(d))
    BY <1>2, PassedIs DEF Perhaps
  <1>4. PICK j, s : /\ j = job[d] /\ s = store[d] /\ Puts(job, job', d, j) /\ Puts(store, store', d, s)
    BY DEF PutStructure, jobs, Puts
  <1>5. PICK f, a : f = made /\ a = n /\ Puts(file, file', d, f) /\ Puts(author, author', d, a)
    BY <1>1, Zenon DEF Puts
  <1>6. claim' = claim /\ work[d][n].pc \notin Gone /\ cache' \in Cachable
    BY <1>1, <1>2 DEF PutStructure, jobs, Gone
  <1>7. "put" \in Holding
    BY DEF Holding
  <1>8. Advances(d, n, "put", made, j, s, f, a)
    BY <1>1, <1>2, <1>3, <1>4, <1>5, <1>6, <1>7 DEF Advances
  <1> QED BY <1>8, HoldsOn

\* The execution that completes the job owns it: what it stored is stored.
LEMMA CompleteKeeps ==
  ASSUME Stocked, NEW d \in Docs, NEW n \in Runs, Complete(d, n)
  PROVE  Stocked'
  <1>1. PICK made : /\ made = work[d][n].made /\ work[d][n].pc = "put" /\ Goes(d, n, "done", made)
                    /\ job' = [job EXCEPT ![d] = "completed"]
    BY Zenon DEF Complete
  <1>2. job[d] = "running" /\ n = claim[d]
    BY DEF Complete, Owns
  <1>3. /\ made \in Structures(Own(d)) /\ file[d] \in Perhaps(Own(d)) /\ cache \in Cachable
        /\ store[d] = made /\ file[d] # Nothing /\ (author[d] = n => file[d] = made)
    BY <1>1, <1>2, HeldIs DEF Execution, Holding, Storing, Filing
  <1>4. PICK s, f, a : /\ s = store[d] /\ f = file[d] /\ a = author[d]
                       /\ Puts(store, store', d, s)
                       /\ Puts(file, file', d, f) /\ Puts(author, author', d, a)
    BY DEF Complete, shared, Puts
  <1>5. claim' = claim /\ work[d][n].pc \notin Gone /\ cache' \in Cachable
    BY <1>1, <1>3 DEF Complete, shared, Gone
  <1>6. PICK j : j = "completed" /\ Puts(job, job', d, j)
    BY <1>1, Zenon DEF Puts
  <1>7. "done" \in Holding
    BY DEF Holding
  <1>8. Advances(d, n, "done", made, j, s, f, a)
    BY <1>1, <1>2, <1>3, <1>4, <1>5, <1>6, <1>7 DEF Advances
  <1> QED BY <1>8, HoldsOn

\* A structure is built only if nothing is lost and all its titles differ.
LEMMA VerifyKeeps ==
  ASSUME Stocked, Titling, AtWork, Verify
  PROVE  Stocked'
  <1>1. phase = "enforcing" /\ at > Len(title) /\ at \in Nat
    BY DEF Verify, At, Titling
  <1>2. PICK d \in Docs, n \in Runs : d = builder /\ n = run /\ work[d][n].pc = "building"
    BY <1>1 DEF AtWork
  <1>3. work[d][n].pc \notin Gone
    BY <1>2 DEF Gone
  <1>4. CASE lost # {}
    <2>1. Failed(d, n)
      BY <1>2, <1>4 DEF Verify
    <2> QED BY <1>3, <2>1, FailedKeeps
  <1>5. CASE lost = {}
    <2>1. AllTitled
      <3>1. PICK t, m : t = title /\ m \in Nat /\ m = Len(t) /\ IsSeq(t) /\ DOMAIN t = 1 .. m
        <4>1. IsSeq(title)
          BY <1>1 DEF Titling
        <4>2. Len(title) \in Nat /\ DOMAIN title = 1 .. Len(title)
          BY <4>1, SeqIs
        <4> QED BY <4>1, <4>2, Zenon
      <3>2. \A i \in DOMAIN t : i < at
        BY <1>1, <3>1
      <3>3. \A i \in DOMAIN t : t[i] # Untitled /\ \A j \in DOMAIN t : j < i => t[i] # t[j]
        BY <1>1, <3>1, <3>2, Zenon DEF Titling
      <3>4. Untitled \notin Range(t) /\ Cardinality(Range(t)) = Len(t)
        BY <3>1, <3>3, AllDiffer
      <3> QED BY <3>1, <3>4, Zenon DEF AllTitled
    <2>2. PICK made : made = Passed(<<d, n>>)
      OBVIOUS
    <2>3. Goes(d, n, "built", [id |-> <<d, n>>, lost |-> lost, titled |-> AllTitled])
          /\ UNCHANGED <<jobs, shared>>
      BY <1>2, <1>5, Zenon DEF Verify
    <2>4. [id |-> <<d, n>>, lost |-> lost, titled |-> AllTitled] = made
      <3>1. AllTitled = TRUE
        BY <2>1
      <3> QED BY <1>5, <2>2, <3>1, Zenon DEF Passed
    <2>5. Goes(d, n, "built", made)
      BY <2>3, <2>4, Zenon
    <2>6. made \in Structures(Made(d))
      <3>1. n \in Nat
        BY DEF Runs
      <3> QED BY <2>2, <3>1 DEF Structures, Made
    <2>7. PICK u, j, c, s, f, a :
            /\ u = work[d] /\ j = job[d] /\ c = claim[d] /\ s = store[d] /\ f = file[d] /\ a = author[d]
            /\ Stock(u, j, c, s, f, a, d)
      BY Zenon DEF Stocked
    <2>8. OnDocs(work) /\ work[d] = [m \in Runs |-> work[d][m]]
      BY <2>7, Zenon DEF Stocked, Stock
    <2>9. PICK v : /\ Puts(work, work', d, v) /\ v = [m \in Runs |-> v[m]]
                   /\ v[n].pc = "built" /\ v[n].made = made
                   /\ \A m \in Runs : m # n => v[m] = work[d][m]
      BY <2>5, <2>8, GoesIs
    <2>10. ASSUME NEW m \in Runs PROVE Execution(v[m], m, j, c, s, f, a, d)
      <3>1. Execution(u[m], m, j, c, s, f, a, d)
        BY <2>7, Zenon DEF Stock
      <3>2. CASE m = n
        <4>1. "built" \notin Holding /\ "built" \notin Storing /\ "built" \notin Filing
          BY DEF Holding, Storing, Filing
        <4>2. m <= c
          BY <1>2, <2>7, <3>1, <3>2 DEF Execution
        <4> QED BY <2>6, <2>9, <3>2, <4>1, <4>2 DEF Execution
      <3>3. CASE m # n
        BY <2>7, <2>9, <3>1, <3>3, Zenon
      <3> QED BY <3>2, <3>3
    <2>11. j = "completed" => c \in Runs /\ v[c].pc = "done"
      <3>1. j = "completed" => c \in Runs /\ u[c].pc = "done" /\ u[n].pc = "building"
        BY <1>2, <2>7 DEF Stock
      <3> QED BY <2>7, <2>9, <3>1
    <2>12. Stock(v, j, c, s, f, a, d)
      BY <2>7, <2>9, <2>10, <2>11, Zenon DEF Stock
    <2>13. /\ Puts(job, job', d, j) /\ Puts(claim, claim', d, c) /\ Puts(store, store', d, s)
           /\ Puts(file, file', d, f) /\ Puts(author, author', d, a) /\ cache' \in Cachable
      <3>1. cache \in Cachable
        BY DEF Stocked
      <3> QED BY <2>3, <2>7, <3>1 DEF Puts, jobs, shared
    <2> QED BY <2>9, <2>12, <2>13, OneIsWorked
  <1> QED BY <1>4, <1>5

\* Only the status of a job changes.
LEMMA JobGoes ==
  ASSUME Stocked, NEW d \in Docs, Cancel(d) \/ RecoverStale(d)
  PROVE  Stocked'
  <1>1. \E j \in {"queued", "failed", "cancelled"} : job' = [job EXCEPT ![d] = j]
    <2>1. CASE Cancel(d)
      BY <2>1, Zenon DEF Cancel
    <2>2. CASE RecoverStale(d)
      <3>1. PICK j : j = (IF claim[d] < MaxRuns THEN "queued" ELSE "failed")
        OBVIOUS
      <3>2. job' = [job EXCEPT ![d] = j]
        BY <2>2, <3>1, Zenon DEF RecoverStale, Again
      <3>3. j \in {"queued", "failed", "cancelled"}
        BY <3>1
      <3> QED BY <3>2, <3>3, Zenon
    <2> QED BY <2>1, <2>2
  <1>2. PICK j \in {"queued", "failed", "cancelled"} : job' = [job EXCEPT ![d] = j]
    BY <1>1
  <1>3. PICK u, i, c, s, f, a :
          /\ u = work[d] /\ i = job[d] /\ c = claim[d] /\ s = store[d] /\ f = file[d] /\ a = author[d]
          /\ Stock(u, i, c, s, f, a, d)
    BY Zenon DEF Stocked
  <1>4. ASSUME NEW n \in Runs PROVE Execution(u[n], n, j, c, s, f, a, d)
    <2>1. Execution(u[n], n, i, c, s, f, a, d)
      BY <1>3, Zenon DEF Stock
    <2> QED BY <2>1 DEF Execution
  <1>5. Stock(u, j, c, s, f, a, d)
    <2>1. j # "completed"
      OBVIOUS
    <2> QED BY <1>3, <1>4, <2>1, Zenon DEF Stock
  <1>6. UNCHANGED <<work, claim, shared>>
    BY DEF Cancel, RecoverStale, Again
  <1>7. /\ Puts(work, work', d, u) /\ Puts(job, job', d, j) /\ Puts(claim, claim', d, c)
        /\ Puts(store, store', d, s) /\ Puts(file, file', d, f) /\ Puts(author, author', d, a)
        /\ cache' \in Cachable
    <2>1. cache \in Cachable
      BY DEF Stocked
    <2> QED BY <1>2, <1>3, <1>6, <2>1 DEF Puts, shared
  <1> QED BY <1>5, <1>7, OneIsWorked

LEMMA StockedStays ==
  ASSUME Stocked, Titling, AtWork, [IngestNext]_ingestVars
  PROVE  Stocked'
  <1>1. CASE UNCHANGED <<work, jobs, shared>>
    BY <1>1, Zenon DEF Stocked, jobs, shared, OnDocs
  <1>2. ASSUME NEW d \in Docs, NEW n \in Runs,
               Abandon(d, n) \/ WorkerLost(d, n) \/ ServiceFails(d, n)
        PROVE  Stocked'
    <2>1. work[d][n].pc \notin Gone
      BY <1>2, Zenon DEF Abandon, WorkerLost, ServiceFails, Leaves
    <2>2. CASE Abandon(d, n) \/ WorkerLost(d, n)
      <3>1. Goes(d, n, "over", Nothing) /\ UNCHANGED <<jobs, shared>>
        BY <2>2, Zenon DEF Abandon, WorkerLost
      <3>2. UNCHANGED <<claim, shared>> /\ \E j : j = job[d] /\ Puts(job, job', d, j)
        BY <3>1 DEF jobs, Puts
      <3>3. PICK j : j = job[d] /\ Puts(job, job', d, j)
        BY <3>2
      <3>4. "over" \in {"building", "over"}
        OBVIOUS
      <3> QED BY <2>1, <3>1, <3>2, <3>3, <3>4, LetsGo
    <2>3. CASE ServiceFails(d, n)
      BY <2>1, <2>3, FailedKeeps DEF ServiceFails
    <2> QED BY <1>2, <2>2, <2>3
  <1>3. CASE ClassificationFails
    <2>1. phase # "none" /\ Failed(builder, run)
      BY <1>3 DEF ClassificationFails, At
    <2>2. builder \in Docs /\ run \in Runs /\ work[builder][run].pc \notin Gone
      BY <2>1 DEF AtWork, Gone
    <2> QED BY <2>1, <2>2, FailedKeeps
  <1>4. CASE SplitParents \/ BuildChildren \/ Recover \/ StartTitles \/ LabelFamilies \/ StartEnforcing
             \/ EnforceTitle
    BY <1>1, <1>4 DEF SplitParents, BuildChildren, Recover, StartTitles, LabelFamilies, StartEnforcing,
                      EnforceTitle
  <1>5. CASE Done \/ UNCHANGED ingestVars
    BY <1>1, <1>5 DEF Done, ingestVars
  <1> QED BY <1>2, <1>3, <1>4, <1>5, LoadKeeps, ExtractKeeps, SaveProcessedKeeps, LookAgainKeeps, JobGoes,
             ReplaceDocumentKeeps, PutStructureKeeps, CompleteKeeps, VerifyKeeps DEF IngestNext

\* What is being built is let be by the other executions.
LEMMA GoesElsewhere ==
  ASSUME AtWork, Stocked, NEW d \in Docs, NEW n \in Runs, NEW pc, NEW made, Goes(d, n, pc, made),
         UNCHANGED building, work[d][n].pc # "building"
  PROVE  AtWork'
  <1>1. /\ OnDocs(work) /\ work[d] = [m \in Runs |-> work[d][m]]
    <2>1. Stock(work[d], job[d], claim[d], store[d], file[d], author[d], d) /\ OnDocs(work)
      BY Zenon DEF Stocked
    <2> QED BY <2>1, Zenon DEF Stock
  <1>2. PICK v : /\ Puts(work, work', d, v)
                 /\ \A m \in Runs : m # n => v[m] = work[d][m]
    BY <1>1, GoesIs
  <1>3. work'[d] = v /\ \A e \in Docs : e # d => work'[e] = work[e]
    BY <1>1, <1>2 DEF Puts, OnDocs
  <1>4. UNCHANGED <<phase, builder, run>>
    BY DEF building
  <1>5. SUFFICES ASSUME phase # "none", builder \in Docs, run \in Runs, work[builder][run].pc = "building"
                 PROVE  work'[builder][run].pc = "building"
    BY <1>4 DEF AtWork
  <1>6. CASE builder = d
    <2>1. run # n
      BY <1>5, <1>6
    <2> QED BY <1>2, <1>3, <1>5, <1>6, <2>1
  <1>7. CASE builder # d
    BY <1>3, <1>5, <1>7
  <1> QED BY <1>6, <1>7

LEMMA AtWorkStarts == IngestInit => AtWork
  BY DEF IngestInit, AtWork

LEMMA AtWorkStays ==
  ASSUME AtWork, Stocked, [IngestNext]_ingestVars
  PROVE  AtWork'
  <1>1. CASE UNCHANGED <<phase, builder, run, work>>
    BY <1>1, Zenon DEF AtWork
  <1>2. CASE Discarded
    BY <1>2 DEF Discarded, AtWork
  <1>3. CASE SplitParents \/ BuildChildren \/ Recover \/ StartTitles \/ LabelFamilies \/ StartEnforcing
             \/ EnforceTitle
    <2>1. phase # "none" /\ UNCHANGED <<builder, run, work>>
      BY <1>3 DEF SplitParents, BuildChildren, Recover, StartTitles, LabelFamilies, StartEnforcing,
                  EnforceTitle, At
    <2> QED BY <2>1 DEF AtWork
  <1>4. ASSUME NEW d \in Docs, NEW n \in Runs, Extract(d, n) PROVE AtWork'
    <2>1. phase = "none" /\ work[d][n].pc = "missed"
      BY <1>4 DEF Extract
    <2>2. PICK given \in Contents :
            IF Cleaned(given) = <<>> THEN UNCHANGED building
            ELSE Goes(d, n, "building", Nothing) /\ builder' = d /\ run' = n
      BY <1>4, Zenon DEF Extract
    <2>3. CASE UNCHANGED building
      BY <2>1, <2>3 DEF building, AtWork
    <2>4. CASE Goes(d, n, "building", Nothing) /\ builder' = d /\ run' = n
      <3>1. /\ OnDocs(work) /\ work[d] = [m \in Runs |-> work[d][m]]
        <4>1. Stock(work[d], job[d], claim[d], store[d], file[d], author[d], d) /\ OnDocs(work)
          BY Zenon DEF Stocked
        <4> QED BY <4>1, Zenon DEF Stock
      <3>2. PICK v : Puts(work, work', d, v) /\ v[n].pc = "building"
        BY <2>4, <3>1, GoesIs
      <3>3. work'[d] = v
        BY <3>1, <3>2 DEF Puts, OnDocs
      <3> QED BY <2>4, <3>2, <3>3 DEF AtWork
    <2> QED BY <2>2, <2>3, <2>4
  <1>5. ASSUME NEW d \in Docs, Load(d) PROVE AtWork'
    <2>1. Stock(work[d], job[d], claim[d], store[d], file[d], author[d], d)
      BY Zenon DEF Stocked
    <2>2. PICK c, n : c = claim[d] /\ n = c + 1
      OBVIOUS
    <2>3. c \in Nat /\ n \in Runs
      <3>1. c \in Nat
        BY <2>1, <2>2 DEF Stock
      <3>2. c < MaxRuns
        BY <1>5, <2>2 DEF Load
      <3> QED BY <2>2, <3>1, <3>2, IngestAssumption DEF Runs
    <2>4. work[d][n].pc # "building"
      <3>1. Execution(work[d][n], n, job[d], c, store[d], file[d], author[d], d)
        BY <2>1, <2>2, <2>3, Zenon DEF Stock
      <3> QED BY <2>2, <2>3, <3>1 DEF Execution
    <2>5. \E pc, made : Goes(d, n, pc, made)
      BY <1>5, <2>2, Zenon DEF Load
    <2>6. UNCHANGED building
      BY <1>5, Zenon DEF Load
    <2> QED BY <2>3, <2>4, <2>5, <2>6, GoesElsewhere
  <1>6. ASSUME NEW d \in Docs, Cancel(d) \/ RecoverStale(d) PROVE UNCHANGED <<phase, builder, run, work>>
    BY <1>6 DEF Cancel, RecoverStale, building
  <1>7. ASSUME NEW d \in Docs, NEW n \in Runs,
               \/ SaveProcessed(d, n) \/ ReplaceDocument(d, n) \/ LookAgain(d, n)
               \/ PutStructure(d, n) \/ Complete(d, n)
        PROVE  AtWork'
    <2>1. \E pc, made : Goes(d, n, pc, made)
      BY <1>7, Zenon DEF SaveProcessed, ReplaceDocument, LookAgain, PutStructure, Complete
    <2>2. UNCHANGED building
      BY <1>7, Zenon DEF SaveProcessed, ReplaceDocument, LookAgain, PutStructure, Complete
    <2>3. work[d][n].pc # "building"
      BY <1>7 DEF SaveProcessed, ReplaceDocument, LookAgain, PutStructure, Complete
    <2> QED BY <2>1, <2>2, <2>3, GoesElsewhere
  <1>8. ASSUME NEW d \in Docs, NEW n \in Runs,
               Abandon(d, n) \/ WorkerLost(d, n) \/ ServiceFails(d, n)
        PROVE  AtWork'
    <2>1. \E pc, made : Goes(d, n, pc, made)
      BY <1>8, Zenon DEF Abandon, WorkerLost, ServiceFails, Failed
    <2>2. IF work[d][n].pc = "building" THEN Discarded ELSE UNCHANGED building
      BY <1>8, Zenon DEF Abandon, WorkerLost, ServiceFails, Leaves
    <2> QED BY <1>2, <2>1, <2>2, GoesElsewhere
  <1>9. CASE ClassificationFails \/ Verify
    BY <1>2, <1>9 DEF ClassificationFails, Verify
  <1>10. CASE Done \/ UNCHANGED ingestVars
    BY <1>1, <1>10 DEF Done, ingestVars, building
  <1> QED BY <1>1, <1>3, <1>4, <1>5, <1>6, <1>7, <1>8, <1>9, <1>10, Zenon DEF IngestNext

\* The ids of two documents differ.
LEMMA StockedIsSound == Stocked => StoredSound
  <1> SUFFICES ASSUME Stocked PROVE StoredSound
    OBVIOUS
  <1> DEFINE sound(r) == r.lost = {} /\ r.titled
  <1>1. sound(Nothing)
    BY DEF Nothing
  <1>2. sound(cache)
    <2>1. CASE cache = Nothing
      BY <1>1, <2>1
    <2>2. ASSUME NEW e \in Docs, cache \in Structures(Made(e)) PROVE sound(cache)
      BY <2>2, PassedIs
    <2> QED BY <2>1, <2>2 DEF Stocked, Cachable
  <1>3. ASSUME NEW d \in Docs
        PROVE  /\ sound(store[d]) /\ sound(file[d])
               /\ job[d] = "completed" =>
                    /\ store[d] # Nothing /\ store[d] = work[d][claim[d]].made
                    /\ file[d] # Nothing /\ (file[d] # store[d] => author[d] < claim[d])
    <2>1. PICK u, c, s, f, a :
            /\ u = work[d] /\ c = claim[d] /\ s = store[d] /\ f = file[d] /\ a = author[d]
            /\ Stock(u, job[d], c, s, f, a, d)
      BY Zenon DEF Stocked
    <2>2. \A x \in Structures(Own(d)) : sound(x) /\ x # Nothing
      BY PassedIs
    <2>3. \A x \in Perhaps(Own(d)) : sound(x)
      BY <1>1, <2>2 DEF Perhaps
    <2>4. s \in Perhaps(Own(d)) /\ f \in Perhaps(Own(d)) /\ c \in Nat /\ a \in 0 .. c
      BY <2>1 DEF Stock
    <2>5. ASSUME job[d] = "completed"
          PROVE  s # Nothing /\ s = u[c].made /\ f # Nothing /\ (f # s => a < c)
      <3>1. c \in Runs /\ u[c].pc = "done" /\ Execution(u[c], c, "completed", c, s, f, a, d)
        BY <2>1, <2>5 DEF Stock
      <3>2. /\ s = u[c].made /\ u[c].made \in Structures(Own(d)) /\ f # Nothing
            /\ (a = c => f = u[c].made)
        BY <3>1 DEF Execution, Holding, Storing, Filing
      <3>3. s # Nothing
        BY <2>2, <3>2
      <3> QED BY <2>4, <3>2, <3>3
    <2> QED BY <2>1, <2>3, <2>4, <2>5, Zenon
  <1>4. ASSUME NEW d \in Docs, NEW e \in Docs, d # e, store[d] # Nothing
        PROVE  store[d].id # store[e].id
    <2>1. store[d] \in Perhaps(Own(d)) /\ store[e] \in Perhaps(Own(e))
      <3>1. /\ Stock(work[d], job[d], claim[d], store[d], file[d], author[d], d)
            /\ Stock(work[e], job[e], claim[e], store[e], file[e], author[e], e)
        BY Zenon DEF Stocked
      <3> QED BY <3>1, Zenon DEF Stock
    <2>2. PICK i \in Own(d) : store[d] = Passed(i)
      BY <1>4, <2>1 DEF Perhaps, Structures
    <2>3. store[d].id = i
      BY <2>2 DEF Passed
    <2>4. CASE store[e] = Nothing
      <3>1. store[e].id = <<>> /\ i # <<>>
        BY <2>4 DEF Nothing, Own, Made
      <3> QED BY <2>3, <3>1
    <2>5. ASSUME NEW j \in Own(e), store[e] = Passed(j) PROVE i # j
      <3>1. \/ \E n \in Nat : i = <<d, n>>
            \/ \E x \in Docs, n \in Nat : i = <<x, n, d>>
        BY DEF Own, Made
      <3>2. \/ \E n \in Nat : j = <<e, n>>
            \/ \E x \in Docs, n \in Nat : j = <<x, n, e>>
        BY DEF Own, Made
      <3> QED BY <1>4, <3>1, <3>2
    <2>6. ASSUME NEW j \in Own(e), store[e] = Passed(j) PROVE store[d].id # store[e].id
      <3>1. store[e].id = j
        BY <2>6 DEF Passed
      <3> QED BY <2>3, <2>5, <2>6, <3>1
    <2> QED BY <2>1, <2>4, <2>6 DEF Perhaps, Structures
  <1> QED BY <1>2, <1>3, <1>4, Zenon DEF StoredSound

\* What is cached, stored and filed passed the verification and has titles that all
\* differ, and no two documents share a chunk.  A completed job has the chunks of the
\* execution that completed it, and structure.json tells of them or was written last by
\* an execution that had been taken over: however the executions overlap.
THEOREM StoredIsSound == IngestSpec => []StoredSound
  <1> DEFINE I == Divided /\ Titling /\ AtWork /\ Stocked
  <1>1. IngestInit => I
    BY DividedStarts, TitlingStarts, AtWorkStarts, StockedStarts
  <1>2. I /\ [IngestNext]_ingestVars => I'
    <2>1. SUFFICES ASSUME Divided, Titling, AtWork, Stocked, [IngestNext]_ingestVars
                   PROVE  Divided' /\ Titling' /\ AtWork' /\ Stocked'
      OBVIOUS
    <2> QED BY <2>1, DividedStays, TitlingStays, AtWorkStays, StockedStays
  <1>3. I => StoredSound
    BY StockedIsSound
  <1> HIDE DEF I
  <1> QED BY <1>1, <1>2, <1>3, PTL DEF IngestSpec
=============================================================================
