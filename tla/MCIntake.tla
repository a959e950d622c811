------------------------------ MODULE MCIntake ------------------------------
(* Values for the constants of Intake.                                     *)
EXTENDS Intake, TLC

CONSTANTS r1, r2, home, other, anna, ben

Ask(kind, browser, user, key, payload) ==
  [kind |-> kind, browser |-> browser, user |-> user, key |-> key, payload |-> payload]

\* Two browsers of one user, somebody else at the first, and a visitor.  A key is sent
\* twice, once with other data.
MCAsks ==
  {Ask("generate", home, anna, "k", 1), Ask("generate", other, anna, NoKey, 1),
   Ask("generate", home, anna, "k", 2), Ask("generate", home, ben, NoKey, 1),
   Ask("generate", home, Nobody, NoKey, 1),
   Ask("upload", home, anna, "k", 1), Ask("logout", home, anna, NoKey, 0)}

MCRequests == Permutations(Requests)
=============================================================================
