----------------------------- MODULE MCPlanning -----------------------------
(* Values for the constants of Planning.                                   *)
EXTENDS Planning

V(work, scenario, types, sound) ==
  [work |-> work, scenario |-> scenario, types |-> types, sound |-> sound]

T(family, level, scenario, variations) ==
  [family |-> family, level |-> level, scenario |-> scenario, variations |-> variations]

Both == {"essay", "mcq"}

\* What a task may be asked as: one variation; two, of another scenario; one of
\* them unsound; of one type only.
MCVariations ==
  {<<V(1, 1, Both, TRUE)>>,
   <<V(1, 1, {"mcq"}, TRUE), V(2, 2, {"mcq"}, TRUE)>>,
   <<V(2, 0, {"mcq"}, FALSE), V(3, 0, Both, TRUE)>>,
   <<V(3, 3, {"essay"}, TRUE)>>}

MCFirst == {T(1, level, 1, vs) : level \in {"easy", "hard"}, vs \in MCVariations}

\* The second task is about the same knowledge as the first, or not.
MCSecond == {T(family, "hard", 1, vs) : family \in {1, 2}, vs \in MCVariations}

MCSpare == T(2, "easy", 2, <<V(4, 2, Both, TRUE)>>)

MCCatalogs ==
  [tasks : {<<t, u>> : t \in MCFirst, u \in MCSecond}
           \cup {<<t, u, MCSpare>> : t \in MCFirst, u \in MCSecond},
   bank : {1}]

R(essays, choices, blanks, models, difficulty) ==
  [types |-> SelectSeq(<<[type |-> "essay", count |-> essays],
                         [type |-> FillBlank, count |-> blanks],
                         [type |-> "mcq", count |-> choices]>>, LAMBDA t : t.count > 0),
   models |-> models, difficulty |-> difficulty]

MCRequests == {R(1, 1, 0, 1, "easy"), R(0, 2, 0, 1, "easy"), R(0, 1, 1, 2, "mix"),
               R(1, 2, 0, 1, "mix"), R(0, 3, 0, 1, "mix")}
=============================================================================
