---------------------------- MODULE MCStructure ----------------------------
(* Values for the constants of Structure.                                  *)
EXTENDS Structure

\* The words of the sentences of each kind.  A run-on paragraph exceeds a parent, its
\* sentence too; an exercise with its text may exceed a child, a table too.
MCShape ==
  [heading |-> <<1>>, prose |-> <<1, 2>>, quoting |-> <<2, 1>>, saying |-> <<1>>,
   runon |-> <<1, 10>>, exercise |-> <<2, 1>>, question |-> <<2>>, table |-> <<4>>,
   junk |-> <<1>>]
  @@ ("listed exercise" :> <<1, 1>>) @@ ("listed table" :> <<2, 1>>)

Few == UNION {[1..n -> DOMAIN MCShape] : n \in 1..2}
       \cup [1..3 -> {"heading", "exercise", "listed table"}]

\* Longer ones: questions, exercises that go on behind a table, repeated sentences
\* among what an integrity recovery sorts.
Long ==
  {<<"question", "question", "question", "listed exercise">>,
   <<"exercise", "prose", "prose", "prose">>,
   <<"exercise", "table", "prose", "heading">>,
   <<"quoting", "prose", "quoting", "listed table">>,
   <<"prose", "quoting", "saying", "junk", "saying">>,
   <<"exercise", "prose", "prose", "question">>,
   <<"heading", "heading", "prose", "saying">>,
   <<"prose", "prose", "prose", "saying">>}

MCDocs == Permutations(Docs)

MCContents == Few \cup Long
=============================================================================
