------------------------------- MODULE MCCalls -------------------------------
(* Two reviewers at once on one question, and one after the other on two. *)
EXTENDS RoleReview
MCThreads == {1, 2}
\* The first reviewer does not look at the key; the second question has no calculations
\* for the second.
MCParts == {"shown", "key"}
MCDepends == <<{"shown"}, {"shown", "key"}>>
MCSettings ==
  {[questions |-> {1}, roles |-> <<{1, 2}>>, workers |-> 2],
   [questions |-> {1, 2}, roles |-> <<{1, 2}, {1}>>, workers |-> 1]}
MCPauses == {0, 1}
MCProviders == {"deepseek", "openai"}
==============================================================================
