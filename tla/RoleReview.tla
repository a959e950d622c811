----------------------------- MODULE RoleReview -----------------------------
(***************************************************************************)
(* validate_exam_multi, on top of CatalogBuild: every reviewer role is     *)
(* asked about a batch of questions, on a thread of its own.  What its     *)
(* answer leaves out is asked again in halves and then question by         *)
(* question; what is left is an error of that role.  What passed is        *)
(* remembered by the process, by that part of the text which the role      *)
(* depends on.  Between two reviews a part of a question is repaired.      *)
(***************************************************************************)
EXTENDS CatalogBuild

CONSTANTS
  Settings,        \* the questions of a batch, the roles each needs, MAX_PARALLEL_VALIDATOR_CALLS
  Parts,           \* of a question: what the student is shown, and what is the key to it
  Depends,         \* the parts the verdict of each role is kept for
  JobLimit,        \* LLM_JOB_CONCURRENCY_LIMIT
  MaxStructured,   \* DEEPSEEK_MAX_STRUCTURED_ATTEMPTS
  MaxRounds        \* bound on the reviews after a repair

ASSUME ReviewAssumption ==
  /\ JobLimit \in Nat /\ Depends \in [Threads -> SUBSET Parts]
  /\ \A s \in Settings : /\ s.questions \subseteq Nat /\ IsFiniteSet(s.questions)
                         /\ s.roles \in [s.questions -> SUBSET Threads]

VARIABLES
  setting,
  text,      \* the revision of each part of each question, in this process
  passed,    \* _JOB_PASS_CACHE
  rows,      \* what each role says of each question in this review
  todo,      \* the groups of questions each role still asks about, one call each
  phase,     \* of each role: "batch", "corrective", "single", or "ended"
  verdict,
  round,
  earned     \* history: the texts each role passed

reviewVars == <<setting, text, passed, rows, todo, phase, verdict, round, earned>>
vars == <<callVars, catalogVars, reviewVars>>

Roles == Threads
Questions == setting.questions

\* The roles a question needs: that which looks at calculations only where there are some.
Asked(r) == {q \in Questions : r \in setting.roles[q]}

\* What of a text the verdict of a role is said to depend on.
Dependency(r, t) == [p \in Depends[r] |-> t[p]]

\* Mutant: the cache does not look at the text.
KnownByName(q, r) == \E e \in passed : e[1] = q /\ e[2] = r

Known(q, r) == <<q, r, Dependency(r, text[q])>> \in passed

NoRows == [r \in Roles |-> [q \in Questions |-> "none"]]

\* The first half of the questions, and the second.
Halves(some) ==
  LET size == (Cardinality(some) + 1) \div 2
      half == {q \in some : Cardinality({p \in some : p < q}) < size}
  IN IF some = half THEN <<half>> ELSE <<half, some \ half>>

OneByOne(some) ==
  [n \in 1..Cardinality(some) |-> {CHOOSE q \in some : Cardinality({p \in some : p < q}) = n - 1}]

\* The roles whose thread of the pool is at work.
Reviewing == {r \in Roles : phase[r] # "ended" /\ \/ call[r].pc # "none" \/ phase[r] # "batch"}

-----------------------------------------------------------------------------
\* A review begins: what is known needs no call; but after its repair a question may be
\* looked at anew, force_full_revalidation.
Open ==
  /\ node = "review"
  /\ \E anew \in SUBSET {q \in Questions : round > 1} :
       LET settled(q, r) == Known(q, r) /\ q \notin anew IN
       /\ rows' = [r \in Roles |->
                    [q \in Questions |-> IF q \in Asked(r) /\ settled(q, r) THEN "PASS" ELSE "none"]]
       /\ todo' = [r \in Roles |-> <<{q \in Asked(r) : ~settled(q, r)}>>]
       /\ phase' = [r \in Roles |-> IF \A q \in Asked(r) : settled(q, r) THEN "ended" ELSE "batch"]
  /\ node' = "reviewing"
  /\ UNCHANGED <<callVars, provider, batch, stored, whole, compatible, catalog, first, cancelled, runs,
                 setting, text, passed, verdict, round, earned>>

\* _call_once.
AskRole(r) ==
  /\ node = "reviewing" /\ phase[r] # "ended"
  /\ r \in Reviewing \/ Cardinality(Reviewing) < setting.workers
  /\ Request(r, MaxStructured)
  /\ UNCHANGED <<catalogVars, reviewVars>>

\* The rows that are well formed; a call that fails has none.
Rows(r) ==
  IF call[r].answer = "complete" THEN [Head(todo[r]) -> {"PASS", "FAIL", "none"}]
  ELSE {[q \in Head(todo[r]) |-> "none"]}

\* What a role asks next: the rest of its groups, or the groups of its next phase.
Continued(r, left) ==
  IF Len(todo[r]) > 1 THEN [phase |-> phase[r], todo |-> Tail(todo[r])]
  ELSE CASE left = {} -> [phase |-> "ended", todo |-> <<>>]
         [] left # {} /\ phase[r] = "batch" -> [phase |-> "corrective", todo |-> Halves(left)]
         [] left # {} /\ phase[r] = "corrective" -> [phase |-> "single", todo |-> OneByOne(left)]
         [] OTHER -> [phase |-> "ended", todo |-> <<>>]

\* _run_role_batch: a question that has no row after a call of its own is an error; what
\* passed is remembered when the role has ended.
Judged(r) ==
  /\ node = "reviewing" /\ phase[r] # "ended" /\ call[r].pc = "done"
  /\ call' = [call EXCEPT ![r] = NoCall] /\ UNCHANGED sharedVars
  /\ \E answer \in Rows(r) :
       LET given == [q \in Head(todo[r]) |->
                       IF answer[q] = "none" /\ phase[r] = "single" THEN "ERROR" ELSE answer[q]]
           now == [q \in Questions |-> IF q \in Head(todo[r]) THEN given[q] ELSE rows[r][q]]
           next == Continued(r, {q \in Asked(r) : now[q] = "none"})
       IN /\ rows' = [rows EXCEPT ![r] = now]
          /\ earned' = earned \cup {<<q, r, text[q]>> : q \in {p \in Head(todo[r]) : answer[p] = "PASS"}}
          /\ todo' = [todo EXCEPT ![r] = next.todo] /\ phase' = [phase EXCEPT ![r] = next.phase]
          /\ passed' = IF next.phase # "ended" THEN passed
                       ELSE passed \cup {<<q, r, Dependency(r, text[q])>> :
                                           q \in {p \in Asked(r) : now[p] = "PASS"}}
  /\ UNCHANGED <<catalogVars, setting, text, verdict, round>>

\* _compatibility_verdict: a role that has no row for the question says nothing of it.
Combined(q) ==
  CASE \E r \in Roles : rows[r][q] = "ERROR" -> "blocked"
    [] \A r \in Roles : rows[r][q] \notin {"ERROR", "FAIL"} -> "PASS"
    [] OTHER -> "FAIL"

\* What the checks of the code find wrong with a question is as good as a role's FAIL.
Close ==
  /\ node = "reviewing" /\ \A r \in Roles : phase[r] = "ended"
  /\ \E wrong \in SUBSET Questions :
       verdict' = [q \in Questions |->
                    IF q \in wrong /\ Combined(q) = "PASS" THEN "FAIL" ELSE Combined(q)]
  /\ node' = "reviewed"
  /\ rows' = NoRows /\ todo' = [r \in Roles |-> <<>>] /\ phase' = [r \in Roles |-> "ended"]
  /\ UNCHANGED <<callVars, provider, batch, stored, whole, compatible, catalog, first, cancelled, runs,
                 setting, text, passed, round, earned>>

\* A repair commits another text of some parts of a question, and there is another review.
Revise ==
  /\ node = "reviewed" /\ round < MaxRounds
  /\ \E q \in Questions, new \in (SUBSET Parts) \ {{}} :
       text' = [text EXCEPT ![q] = [p \in Parts |-> IF p \in new THEN @[p] + 1 ELSE @[p]]]
  /\ round' = round + 1 /\ node' = "review"
  /\ earned' = {e \in earned : Dependency(e[2], e[3]) = Dependency(e[2], text'[e[1]])}
  /\ verdict' = [q \in Questions |-> "none"]
  /\ UNCHANGED <<callVars, provider, batch, stored, whole, compatible, catalog, first, cancelled, runs,
                 setting, passed, rows, todo, phase>>

\* The memory of a process dies with it; texts are numbered within a process.
CrashReviewing ==
  /\ Crash
  /\ passed' = {} /\ earned' = {} /\ rows' = NoRows
  /\ text' = [q \in Questions |-> [p \in Parts |-> 1]]
  /\ todo' = [r \in Roles |-> <<>>] /\ phase' = [r \in Roles |-> "ended"]
  /\ verdict' = [q \in Questions |-> "none"]
  /\ UNCHANGED <<setting, round>>

Permits == IF node \in {"review", "reviewing", "reviewed"} THEN JobLimit ELSE CatalogWorkers

Finished ==
  /\ node \in {"reviewed", "failed"}
  /\ node = "failed" => Underway = {} /\ Running = {} /\ Queued = {}

Done == Finished /\ UNCHANGED vars

Init ==
  /\ CatalogInit
  /\ setting \in Settings
  /\ text = [q \in Questions |-> [p \in Parts |-> 1]]
  /\ passed = {} /\ earned = {} /\ round = 1
  /\ rows = NoRows /\ todo = [r \in Roles |-> <<>>] /\ phase = [r \in Roles |-> "ended"]
  /\ verdict = [q \in Questions |-> "none"]

Next ==
  \/ Building /\ UNCHANGED reviewVars
  \/ Calling(Permits) /\ UNCHANGED <<catalogVars, reviewVars>>
  \/ Open \/ Close \/ Revise \/ CrashReviewing \/ Done
  \/ \E r \in Roles : AskRole(r) \/ Judged(r)

Spec == Init /\ [][Next]_vars

\* The provider answers or its timeout strikes, the threads of a pool run, and time goes
\* on: as long as something can happen, something does.
GoesOn == <>[]Finished \/ []<><<TRUE>>_vars
GoingSpec == Spec /\ GoesOn

-----------------------------------------------------------------------------
\* Types; the gate counts the calls inside it, and no more are inside than its limit.
TypeOK ==
  /\ CallsTypeOK /\ active <= Permits
  /\ \A b \in Batches : batch[b].attempt \in 0..MaxAttempts
  /\ \A r \in Roles, q \in Questions : rows[r][q] \in {"none", "PASS", "FAIL", "ERROR"}
  /\ stored \subseteq Batches /\ runs \in 1..MaxRuns

\* The role passed a text that was, for all its verdict depends on, this one.
PassedFor(q, r) ==
  \E e \in earned : e[1] = q /\ e[2] = r /\ Dependency(r, e[3]) = Dependency(r, text[q])

\* A question passes the review only if every role it needs was asked about it and passed
\* it: never for silence, for a malformed row, or for a text that a repair has changed in
\* what that role depends on.
PassIsEarned ==
  \A q \in Questions : verdict[q] = "PASS" => \A r \in setting.roles[q] : PassedFor(q, r)

\* Whatever the provider does, the build and the reviews end.
CallsEnd == <>Finished
=============================================================================
