------------------------------ MODULE Chunking ------------------------------
(***************************************************************************)
(* How the text of a document is cut into parents, the sections, and       *)
(* children, what retrieval reads: the functions of semantic_chunker.py.   *)
(*                                                                         *)
(* A document is a sequence of items, of which only the kind counts.  The  *)
(* similarities that the embedding model finds are not known: where they   *)
(* decide, an operator returns the set of what may come out.  A child is   *)
(* the sequence of its sentences; a table, an exercise and what belongs to *)
(* it are never cut, and are one sentence here.                            *)
(***************************************************************************)
EXTENDS Selections, FiniteSetsExt

CONSTANTS
  Shape,      \* the words of each sentence, by the kind of the item
  ParentMin,  \* words: PARENT_MERGE_TOKENS
  ParentMax,  \* words: PARENT_MAX_SIZE
  ChildMin,   \* words: CHILD_MIN_TOKENS_MERGE
  ChildMax,   \* words: CHILD_MAX_SIZE
  FoldMax,    \* words: the 12 of _apply_min_floor
  OverlapMax  \* words: CHILD_OVERLAP_MAX_WORDS

ASSUME SizesAssumption ==
  /\ {ParentMin, ParentMax, ChildMin, ChildMax, FoldMax, OverlapMax} \subseteq Nat
  /\ ParentMin < ParentMax /\ ChildMin < ChildMax /\ ChildMax <= ParentMax
  /\ \A kind \in DOMAIN Shape : Shape[kind] \in Seq(Nat \ {0}) \ {<<>>}

\* The kinds by which the code decides: the others are prose.  A listed item has bullets
\* inside its text, which a child loses.  A quoting paragraph ends with the sentence that
\* a saying consists of.
Tables == {"table", "listed table"}
Listed == {"listed table", "listed exercise"}
Questions == {"question"}
Starts == {"exercise", "listed exercise"} \cup Questions
Junk == {"junk"}

Refrain == <<0, 0>>

WordsOf(s) == FoldLeft(LAMBDA n, x : n + x.words, 0, s)
Whole(units) == WordsOf(FlattenSeq([i \in DOMAIN units |-> units[i].sents]))

-----------------------------------------------------------------------------
(* The paragraphs.                                                         *)

\* clean_pages: junk goes, and prose that was there before.
Kept(kept, kind) ==
  IF kind \in Junk \/ (kind = "saying" /\ kind \in Range(kept)) THEN kept ELSE Append(kept, kind)

Cleaned(items) == FoldLeft(Kept, <<>>, items)

Text(kind, at, j) ==
  IF kind = "saying" \/ (kind = "quoting" /\ j = Len(Shape[kind])) THEN Refrain ELSE <<at, j>>

Unit(kind, at, atom) ==
  [kind |-> kind, at |-> at, atom |-> atom,
   sents |-> [j \in DOMAIN Shape[kind] |->
                [text |-> Text(kind, at, j), words |-> Shape[kind][j]]]]

\* An exercise binds the text that follows it, up to a heading or the next exercise; a
\* table is bound to itself, and the exercise goes on behind it.
Atom(items, at) ==
  LET starts == {i \in 1..at : items[i] \in Starts /\ \A k \in i..at : items[k] # "heading"} IN
  IF items[at] \in Tables THEN at
  ELSE IF items[at] # "heading" /\ starts # {} THEN Max(starts) ELSE 0

Paragraphs(items) == [at \in DOMAIN items |-> Unit(items[at], at, Atom(items, at))]

Bound(u, v) == u.atom # 0 /\ u.atom = v.atom

\* Where the similarity of neighbours falls below the threshold is any set of places, but
\* for those inside an exercise.
Cuts(units) == SUBSET {i \in 2..Len(units) : ~Bound(units[i - 1], units[i])}

\* What lies between the cuts.
Placed(groups, u, cut) ==
  IF groups = <<>> \/ cut THEN Append(groups, <<u>>)
  ELSE Front(groups) \o <<Append(Last(groups), u)>>

Split(units, cuts) ==
  FoldLeftDomain(LAMBDA groups, i : Placed(groups, units[i], i \in cuts), <<>>, units)

-----------------------------------------------------------------------------
(* The parents.                                                            *)

\* The last group, or the first, takes the one behind it.
LastTakes(groups, g) == Front(groups) \o <<Last(groups) \o g>>
FirstTakes(groups) == <<groups[1] \o groups[2]>> \o SubSeq(groups, 3, Len(groups))

\* A small group joins the one before it, a small first one the second.
Joined(groups, g) ==
  IF groups # <<>> /\ Whole(g) < ParentMin THEN LastTakes(groups, g) ELSE Append(groups, g)

Merged(groups) ==
  LET joined == FoldLeft(Joined, <<>>, groups) IN
  IF Len(joined) >= 2 /\ Whole(joined[1]) < ParentMin THEN FirstTakes(joined) ELSE joined

\* A paragraph too large for a parent: its sentences, and slices of those too large
\* themselves, each a paragraph of its own.
Slices(sentence) ==
  [k \in 1..((sentence.words + ParentMax - 1) \div ParentMax) |->
     [sentence EXCEPT !.words = IF @ >= k * ParentMax THEN ParentMax ELSE @ % ParentMax]]

Pieces(u) ==
  IF u.atom # 0 \/ WordsOf(u.sents) <= ParentMax THEN <<u>>
  ELSE LET slices == FlattenSeq([j \in DOMAIN u.sents |-> Slices(u.sents[j])]) IN
       [k \in DOMAIN slices |->
          [u EXCEPT !.sents = <<IF slices[k].text = Refrain THEN slices[k]
                                ELSE [slices[k] EXCEPT !.text = <<u.at, k>>]>>]]

\* As many units as fit, in order; a unit of a kind in `alone' is a pack by itself.
Full(pack, u, max, alone) ==
  u.kind \in alone \/ Last(pack).kind \in alone \/ Whole(Append(pack, u)) > max

Packed(units, max, alone) ==
  FoldLeft(LAMBDA packs, u : Placed(packs, u, packs # <<>> /\ Full(Last(packs), u, max, alone)),
           <<>>, units)

\* A last pack that is too small takes units from the one before it.
Balanced(packs) ==
  IF Len(packs) < 2 THEN packs
  ELSE LET n == Len(packs)
           both == packs[n - 1] \o packs[n]
           enough == {k \in 1..Len(packs[n - 1]) :
                        k = 1 \/ Whole(SubSeq(both, k + 1, Len(both))) >= ParentMin}
           k == Max(enough) IN
       SubSeq(packs, 1, n - 2) \o <<SubSeq(both, 1, k), SubSeq(both, k + 1, Len(both))>>

Parents(groups) ==
  FlattenSeq([i \in DOMAIN groups |->
    IF Whole(groups[i]) <= ParentMax THEN <<groups[i]>>
    ELSE Balanced(Packed(FlattenSeq([j \in DOMAIN groups[i] |-> Pieces(groups[i][j])]),
                         ParentMax, {}))])

-----------------------------------------------------------------------------
(* The children of one parent.                                             *)

\* The text of a unit, with its bullets or without them; only a listed one differs.  A
\* unit that is not cut is one sentence: it says those it was made of, the end last.
Rendered(u, form) ==
  LET as(text, words, sents) ==
        [text |-> text, words |-> words, kind |-> u.kind, at |-> u.at, atom |-> u.atom,
         own |-> TRUE,
         form |-> IF u.kind \in Listed THEN form ELSE "plain",
         says |-> {text} \cup {x.text : x \in Range(sents)}, end |-> Last(sents)] IN
  IF u.atom # 0 THEN <<as(<<u.at, 0>>, WordsOf(u.sents), u.sents)>>
  ELSE [j \in DOMAIN u.sents |-> as(u.sents[j].text, u.sents[j].words, <<u.sents[j]>>)]

Says(child) == UNION {s.says : s \in Range(child)}

Content(units, form) == FlattenSeq([i \in DOMAIN units |-> Rendered(units[i], form)])

\* A sentence that was just said is not said again.
Said(said, s) ==
  IF said # <<>> /\ s.atom = 0 /\ Last(said).text = s.text THEN said ELSE Append(said, s)

Sentences(parent) == FoldLeft(Said, <<>>, Content(parent, "plain"))

\* Six tenths of the sentences are questions (a bullet is a sentence too).
QuestionParent(parent) ==
  LET sentences == FoldLeft(LAMBDA n, u : n + Len(u.sents), 0, parent)
      questions == Cardinality({i \in DOMAIN parent : parent[i].kind \in Questions}) IN
  10 * questions >= 6 * sentences

IsHeading(s) == s.kind = "heading"

Open(groups, s) ==
  [groups |-> groups, open |-> <<s>>, heading |-> IsHeading(s), atom |-> s.atom,
   table |-> s.kind \in Tables]

\* Mutant: the size is looked at before what belongs together.
MeetsBySize(c, s) ==
  LET fits == WordsOf(c.open) + s.words <= ChildMax
      taken == [c EXCEPT !.open = Append(@, s), !.heading = FALSE, !.table = FALSE]
      closed == Open(Append(c.groups, c.open), s) IN
  IF ~fits THEN {closed}
  ELSE IF c.atom # 0 /\ c.atom = s.atom THEN {taken}
  ELSE IF c.heading /\ IsHeading(s) THEN {[taken EXCEPT !.heading = TRUE]}
  ELSE IF IsHeading(s) \/ s.kind \in Tables \/ c.table THEN {closed}
  ELSE {[taken EXCEPT !.atom = IF s.atom # 0 THEN s.atom ELSE @], closed}

\* The child under construction meets the next sentence: it takes it or is closed, and
\* where neither the structure nor the size decides, either.
Meets(c, s) ==
  LET fits == WordsOf(c.open) + s.words <= ChildMax
      taken == [c EXCEPT !.open = Append(@, s), !.heading = FALSE, !.table = FALSE]
      titled == [taken EXCEPT !.atom = IF s.atom # 0 THEN s.atom ELSE @]
      closed == Open(Append(c.groups, c.open), s) IN
  IF c.atom # 0 /\ c.atom = s.atom THEN {taken}
  ELSE IF c.heading /\ IsHeading(s) /\ fits THEN {[taken EXCEPT !.heading = TRUE]}
  ELSE IF IsHeading(s) \/ s.kind \in Tables \/ c.table THEN {closed}
  ELSE IF c.heading /\ fits THEN {titled}
  ELSE IF ~fits THEN {closed} ELSE {titled, closed}

Packings(sentences) ==
  {Append(c.groups, c.open) :
     c \in FoldLeft(LAMBDA cs, s : UNION {Meets(c, s) : c \in cs},
                    {Open(<<>>, Head(sentences))}, Tail(sentences))}

\* Mutant: small groups are dropped.
FlooredAway(groups) ==
  SelectSeq(groups, LAMBDA g : WordsOf(g) > ChildMin \/ Len(groups) = 1)

Fit(g, h) == WordsOf(g) + WordsOf(h) <= ChildMax
Small(g) == WordsOf(g) <= ChildMin

\* Small groups join the one before, and a small first one the second.
Raised(groups, g) ==
  IF groups # <<>> /\ Small(g) /\ ~IsHeading(g[1]) /\ Fit(Last(groups), g)
  THEN LastTakes(groups, g) ELSE Append(groups, g)

Floor(groups) ==
  LET raised == FoldLeft(Raised, <<>>, groups) IN
  IF Len(raised) >= 2 /\ Small(raised[1]) /\ Fit(raised[1], raised[2])
  THEN FirstTakes(raised) ELSE raised

\* A heading that stands alone joins what follows.
Headed(led, g) ==
  IF /\ led.out # <<>> /\ led.open /\ IsHeading(Last(led.out)[1])
     /\ WordsOf(Last(led.out)) <= FoldMax /\ Fit(Last(led.out), g)
  THEN [out |-> LastTakes(led.out, g), open |-> FALSE]
  ELSE [out |-> Append(led.out, g), open |-> TRUE]

Floored(groups) == FoldLeft(Headed, [out |-> <<>>, open |-> TRUE], Floor(groups)).out

\* The last sentence of a child leads the next one too, if there is room.
Carried(s) ==
  [s EXCEPT !.own = FALSE, !.text = s.end.text, !.words = s.end.words, !.says = {s.end.text}]

Carries(g, h) ==
  /\ \A i \in DOMAIN g : g[i].kind \notin Tables
  /\ g[1].kind \notin Starts /\ Last(g).end.words <= OverlapMax
  /\ Last(g).end.text \notin Says(h)
  /\ WordsOf(h) + Last(g).end.words <= ChildMax

Overlapped(groups) ==
  [i \in DOMAIN groups |->
     IF i > 1 /\ Carries(groups[i - 1], groups[i])
     THEN <<Carried(Last(groups[i - 1]))>> \o groups[i] ELSE groups[i]]

\* A parent of questions is kept as it is.
Children(parent) ==
  IF QuestionParent(parent) THEN {<<Content(parent, "raw")>>}
  ELSE {Overlapped(Floored(groups)) : groups \in Packings(Sentences(parent))}

-----------------------------------------------------------------------------
(* The integrity of what came out, and its recovery.                       *)

\* A table is looked for as the parser gave it, everything else without bullets.
Intact(u, siblings) ==
  LET form == IF u.kind \in Tables THEN "raw" ELSE "plain" IN
  \A s \in Range(Rendered(u, form)) :
    \E b \in Range(FlattenSeq(siblings)) : b.text = s.text /\ b.form = s.form

Damaged(parent, siblings) ==
  \E i \in DOMAIN parent : parent[i].atom # 0 /\ ~Intact(parent[i], siblings)

Rebuilt(parent) ==
  LET packs == Packed(parent, ChildMax, Tables) IN
  [i \in DOMAIN packs |-> Content(packs[i], "raw")]

\* The first unit of the parent that has a sentence in the child.
FirstUnit(parent, child) ==
  Min({parent[i].at : i \in {k \in DOMAIN parent :
                               Says(Rendered(parent[k], "plain")) \cap Says(child) # {}}})

Sorted(parent, siblings) ==
  FlattenSeq([at \in 1..Last(parent).at |->
    Only(siblings, {child \in Range(siblings) : FirstUnit(parent, child) = at})])

\* If a protected unit is missing anywhere, the children of its parent are built again
\* from its units, and all children of the document are sorted.
Recovered(parents, families) ==
  LET damaged == {p \in DOMAIN parents : Damaged(parents[p], families[p])} IN
  IF damaged = {} THEN families
  ELSE [p \in DOMAIN parents |->
          IF p \in damaged THEN Rebuilt(parents[p]) ELSE Sorted(parents[p], families[p])]

\* verify_chunk_invariants: the units that are still not there are lost, fatally.
Places(parents) == UNION {{p} \X DOMAIN parents[p] : p \in DOMAIN parents}

Lost(parents, families) ==
  {x \in Places(parents) : ~Intact(parents[x[1]][x[2]], families[x[1]])}
=============================================================================
