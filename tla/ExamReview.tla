----------------------------- MODULE ExamReview -----------------------------
(***************************************************************************)
(* The rounds of validation and repair of one exam: candidates are         *)
(* reviewed and committed, answer positions balanced, the exam reviewed    *)
(* and scanned for duplicates, and each slot that is left unresolved is    *)
(* repaired, regenerated or given another task, within its budgets.        *)
(*                                                                         *)
(* The slots of a node are visited in the order of the manifest, a slot at *)
(* a time: a repair works on a snapshot and changes only what is its own,  *)
(* so the threads of a round cannot see each other before Reserve.         *)
(*                                                                         *)
(* A question is the task it asks and one of a few texts.  Reviewers and   *)
(* repairers are language models: they may answer anything, at most        *)
(* MaxTrouble times something other than success.  Left out: the word      *)
(* bank of fill-in-the-blank sections.                                     *)
(***************************************************************************)
EXTENDS Integers, FiniteSets

CONSTANTS
  Slots,              \* 1..n, in the order of the manifest
  Tasks, Texts,
  InitialPlan,        \* the reviewed plan
  InitialText,        \* what the generator wrote
  MaxFailures,        \* MAX_QUESTION_REPAIR_ATTEMPTS, MAX_FAILED_REPAIR_ATTEMPTS_PER_SLOT
  MaxDuplicate,       \* MAX_DUPLICATE_REPLACEMENT_ATTEMPTS_PER_SLOT
  MaxCalls,           \* MAX_CONTENT_REPAIR_CALLS_PER_SLOT
  MaxCompletion,      \* MAX_COMPLETION_ATTEMPTS_PER_SLOT
  MaxAssignment,      \* MAX_ASSIGNMENT_REPAIR_ATTEMPTS
  MaxGeneration,      \* MAX_CANDIDATE_GENERATION_FAILURES
  MaxRetries,         \* REVALIDATION_OPERATIONAL_RETRIES
  MaxTrouble          \* bound on the answers that are not a success

VARIABLES
  plan,       \* the task of each slot, and whether its reuse is contracted
  question,   \* the active question of each slot
  verdict,    \* the report
  target,     \* repair_manifest
  cand,       \* repair_candidates
  budget,     \* what was spent on each slot
  memory,     \* repair_replacement_memory
  seed,       \* repair_retry_seeds: the snapshot of the last rejected candidate
  work,       \* repair_working_candidates
  accepted,   \* the slots of the assembled exam that count
  record,     \* slot_lifecycle: what each node leaves behind for the next and for the end
  node, todo, \* the node (the first two are ExamPool's), and the slots it has not visited yet
  committed,  \* slots whose candidate was committed in this validation
  released,   \* slots whose question reserved nothing when the round of repairs began
  trouble

content == <<plan, question, verdict>>
staging == <<cand, seed, work>>
spending == <<budget, memory>>
flow == <<accepted, record, node, todo, committed, released>>
vars == <<content, target, staging, spending, flow, trouble>>

NoQuestion == [task |-> 0, text |-> 0]
Question == [task : Tasks, text : Texts]
Item == [task : Tasks, reuse : BOOLEAN]

\* Two slots of a reviewed plan share a task only under a contract of one of them
\* (TwinsAuthorized of Planning).
ASSUME ExamAssumption ==
  /\ Slots \subseteq Nat /\ 0 \notin Tasks /\ InitialText \in Texts
  /\ InitialPlan \in [Slots -> Item]
  /\ \A s, t \in Slots : s # t /\ InitialPlan[s].task = InitialPlan[t].task =>
       InitialPlan[s].reuse \/ InitialPlan[t].reuse
  /\ MaxFailures \in Nat /\ MaxCalls \in Nat

Failures == {"content", "task", "difficulty", "blocked"}

NoVerdict == [roles |-> "none", cross |-> "PASS", task |-> 0, on |-> NoQuestion]
Verdict == [roles : Failures \cup {"none", "PASS"}, cross : {"PASS", "duplicate", "outage"},
            task : Tasks \cup {0}, on : Question \cup {NoQuestion}]

NoTarget == [status |-> "none", type |-> "none", why |-> "none", dup |-> FALSE,
             last |-> "none", open |-> FALSE]

NoCand == [exam |-> <<>>, plans |-> <<>>, act |-> "none", why |-> "none",
           base |-> <<>>, retries |-> 0]

NoSeed == [exam |-> <<>>, plans |-> <<>>]

Passed(v) == v.roles = "PASS" /\ v.cross = "PASS"
Passes(s) == Passed(verdict[s])
Present(exam) == {s \in Slots : exam[s] # NoQuestion}
Open(s) == target[s].status # "none"
Closed == {"terminal", "blocked"}

-----------------------------------------------------------------------------
(* The counters.                                                           *)

NoBudget == [failures |-> 0, calls |-> 0, completion |-> 0, attempts |-> 0,
             generation |-> 0, operations |-> 0, adjusted |-> 0]

NoMemory == [black |-> {}, tried |-> {}, rejected |-> {}, inputs |-> {},
             force |-> FALSE, checked |-> [t \in Tasks |-> 0]]

Capped(n) == IF n < MaxFailures THEN n + 1 ELSE MaxFailures

\* question_repair_failures or question_repair_attempts: when no slot has a failure
\* on record, the attempts of all of them are taken for failures.
Recalled ==
  IF \A s \in Slots : budget[s].failures = 0
  THEN [s \in Slots |-> [budget[s] EXCEPT !.failures = budget[s].attempts]]
  ELSE budget

ContentSpent(b, limit) == b.failures >= limit \/ b.calls >= MaxCalls
CompletionSpent(b) == b.completion >= MaxCompletion

Troubled(n) == trouble + n <= MaxTrouble /\ trouble' = trouble + n

-----------------------------------------------------------------------------
(* validate_generated_questions: the candidates.                           *)

Stale(s) == cand[s].base # <<plan[s], question[s]>>

Validating(s) == node = "candidates" /\ s \in todo /\ \A t \in todo : s <= t

Visited(s) == todo' = todo \ {s}

\* A candidate of a slot that is closed, or made for another revision of it.
Drop(s) ==
  /\ Validating(s)
  /\ target[s].status \in Closed \/ Stale(s)
  /\ cand' = [cand EXCEPT ![s] = NoCand] /\ Visited(s)
  /\ UNCHANGED <<content, target, seed, work, spending, accepted, record, node, committed, released, trouble>>

Judged(s) == Validating(s) /\ target[s].status \notin Closed /\ ~Stale(s)

Commit(s) ==
  /\ Judged(s)
  /\ plan' = [plan EXCEPT ![s] = cand[s].plans[s]]
  /\ question' = [question EXCEPT ![s] = cand[s].exam[s]]
  /\ verdict' = [verdict EXCEPT ![s] = [roles |-> "PASS", cross |-> "PASS",
                                        task |-> cand[s].plans[s].task, on |-> cand[s].exam[s]]]
  /\ target' = [target EXCEPT ![s] = NoTarget]
  /\ seed' = [seed EXCEPT ![s] = NoSeed]
  /\ cand' = [cand EXCEPT ![s] = NoCand]
  /\ committed' = committed \cup {s} /\ Visited(s)
  /\ UNCHANGED <<work, spending, accepted, record, node, released, trouble>>

\* Some reviewer could not be asked: the candidate waits, or its slot is blocked when one of
\* them failed too often; retries is the count of the reviewer that failed most often.
Postpone(s) ==
  /\ Judged(s) /\ Troubled(1)
  /\ \E retries \in {cand[s].retries, cand[s].retries + 1} \ {0} :
       IF retries > MaxRetries
       THEN /\ cand' = [cand EXCEPT ![s] = NoCand]
            /\ target' = [target EXCEPT ![s].status = "blocked"]
       ELSE /\ cand' = [cand EXCEPT ![s].retries = retries]
            /\ target' = [target EXCEPT ![s].status = "pending"]
  /\ Visited(s)
  /\ UNCHANGED <<content, seed, work, spending, accepted, record, node, committed, released>>

\* _repair_classification
Classified(code) ==
  CASE code = "content" -> "repair"
    [] code = "difficulty" -> "adjust"
    [] code = "missing" -> "regenerate"
    [] OTHER -> "replace"

Reject(s) ==
  /\ Judged(s) /\ Troubled(1)
  /\ \E code \in Failures \ {"blocked"} :
       LET spent == [budget[s] EXCEPT !.failures =
                       IF cand[s].act = "repair" THEN Capped(@) ELSE @]
       IN
       /\ budget' = [budget EXCEPT ![s] = spent]
       /\ target' = [target EXCEPT ![s] =
            [@ EXCEPT !.status = IF spent.failures >= MaxFailures /\ CompletionSpent(spent)
                                 THEN "terminal"
                                 ELSE IF question[s] = NoQuestion THEN "missing" ELSE "invalid",
                      !.type = Classified(code), !.why = code, !.open = TRUE,
                      !.last = IF code = cand[s].why THEN "unchanged" ELSE "other"]]
  /\ memory' = [memory EXCEPT ![s].black = @ \cup {cand[s].plans[s].task},
                              ![s].rejected = @ \cup {cand[s].exam[s]}]
  /\ seed' = [seed EXCEPT ![s] = [exam |-> cand[s].exam, plans |-> cand[s].plans]]
  /\ cand' = [cand EXCEPT ![s] = NoCand] /\ Visited(s)
  /\ UNCHANGED <<content, work, accepted, record, node, committed, released>>

-----------------------------------------------------------------------------
(* validate_generated_questions: balancing and the review of the exam.     *)

\* Mutant: the ledger of what passed is emptied by a commit elsewhere in the exam.
KeptUntilACommit(s) == verdict[s].roles = "PASS" /\ committed # {}

\* The role verdicts of the questions that are asked about.  What passed is not asked
\* again while it is the same.
Kept(s) == verdict[s].roles = "PASS" /\ verdict[s].on = question[s] /\ verdict[s].task = plan[s].task

Reviewed(ids, exam, answer) ==
  [s \in Slots |->
     IF s \in ids
     THEN [roles |-> answer[s], cross |-> "PASS", task |-> plan[s].task, on |-> exam[s]]
     ELSE verdict[s]]

\* _manifest_from_report
Found(s, v, exam) ==
  CASE exam[s] = NoQuestion ->
         [NoTarget EXCEPT !.status = "missing", !.type = "regenerate", !.why = "missing"]
    [] v[s].cross = "duplicate" ->
         [NoTarget EXCEPT !.status = "invalid", !.type = "replace", !.why = "duplicate", !.dup = TRUE]
    [] v[s].cross = "outage" ->
         [NoTarget EXCEPT !.status = "invalid", !.type = "replace", !.why = "outage", !.dup = TRUE]
    [] v[s].roles \in Failures ->
         [NoTarget EXCEPT !.status = "invalid", !.type = Classified(v[s].roles), !.why = v[s].roles]
    [] OTHER -> NoTarget

\* _merge_repair_manifest: a finding does not reopen a slot that waits or is closed,
\* and the last failure of a slot stands until a candidate resolves it.
Merged(old, new) ==
  IF new.status = "none" THEN old
  ELSE IF old.status = "none" THEN new
  ELSE LET held == old.status \in Closed \cup {"pending"}
           past == held \/ old.open
       IN [new EXCEPT !.status = IF held THEN old.status ELSE @,
                      !.type = IF past THEN old.type ELSE @,
                      !.why = IF past THEN old.why ELSE @,
                      !.last = old.last, !.open = old.open]

\* Mutant: what balancing changed is not reviewed again.
AskedSparingly(balanced) ==
  IF committed # {} THEN {}
  ELSE {s \in Present(question) : target[s].status \notin Closed}

Asked(balanced) ==
  IF committed # {} THEN balanced
  ELSE {s \in Present(question) : target[s].status \notin Closed}

\* balance_mcq_answer_positions, after a commit: other texts of the same questions.
Balanced ==
  IF committed = {} THEN {question}
  ELSE {exam \in [Slots -> Question \cup {NoQuestion}] :
          \A s \in Slots : exam[s].task = question[s].task}

Answers(ids, exam) ==
  {a \in [ids -> Failures \cup {"PASS"}] :
     \A s \in ids : Kept(s) /\ exam[s] = question[s] => a[s] = "PASS"}

Review ==
  /\ node = "candidates" /\ todo = {}
  /\ \E exam \in Balanced :
     LET ids == Asked({s \in Slots : exam[s] # question[s]}) IN
     \E answer \in Answers(ids, exam) :
       LET v == Reviewed(ids, exam, answer)
           manifest == [s \in Slots |-> Merged(target[s], Found(s, v, exam))]
       IN
       /\ Troubled(Cardinality({s \in ids : answer[s] # "PASS"}))
       /\ question' = exam /\ verdict' = v /\ target' = manifest
  /\ node' = "scan" /\ committed' = {}
  /\ UNCHANGED <<plan, cand, seed, work, spending, accepted, record, todo, released>>

-----------------------------------------------------------------------------
(* The lifecycle of the slots, brought up to date after each node.         *)

NoRecord == [passed |-> FALSE, failed |-> FALSE, status |-> "none"]

\* Mutant: a later verdict does not clear the failure.
ReconciledForGood(v, manifest) ==
  [s \in Slots |->
     [passed |-> Passed(v[s]),
      failed |-> manifest[s].status # "none" \/ record[s].failed,
      status |-> IF manifest[s].status = "none" THEN record[s].status ELSE manifest[s].status]]

\* reconcile_slot_lifecycle: verdicts first, then the manifest.  A slot that has left the
\* manifest keeps the status it had there.
Reconciled(v, manifest) ==
  [s \in Slots |->
     [passed |-> Passed(v[s]),
      failed |-> manifest[s].status # "none" \/ (v[s].roles # "none" /\ ~Passed(v[s])),
      status |-> IF manifest[s].status = "none" THEN record[s].status ELSE manifest[s].status]]

CurrentStatus(s) ==
  CASE cand[s] # NoCand \/ record[s].status = "pending" -> "REVALIDATING"
    [] \/ verdict[s].roles = "blocked" \/ verdict[s].cross = "outage"
       \/ record[s].status \in {"blocked", "retry"} -> "VALIDATION_BLOCKED"
    [] record[s].status = "terminal" -> "FAILED_TO_REPAIR"
    [] record[s].passed /\ ~record[s].failed -> "PASS"
    [] OTHER -> "FAIL"

-----------------------------------------------------------------------------
(* _integrate_duplicate_validation.                                        *)

Scanned == {s \in Present(question) : Passes(s) /\ target[s].status \notin Closed}

\* The pairs of questions that have enough in common to be put to the judge.
Shortlisted == {pair \in SUBSET Scanned : Cardinality(pair) = 2}

\* The fewest questions whose replacement leaves no conflicting pair.
Replaced(conflicts) ==
  LET covers == {c \in SUBSET UNION conflicts : \A pair \in conflicts : pair \cap c # {}}
  IN {c \in covers : \A d \in covers : Cardinality(c) <= Cardinality(d)}

\* The judge finds conflicts.  (The scan asks about a pair once, until one of the two
\* changes; here it may ask again.)
ScanFinds ==
  /\ node = "scan" /\ Troubled(1)
  /\ \E conflicts \in SUBSET Shortlisted \ {{}} : \E dups \in Replaced(conflicts) :
       LET v == [s \in Slots |-> IF s \in dups THEN [verdict[s] EXCEPT !.cross = "duplicate"]
                                 ELSE verdict[s]]
       IN /\ verdict' = v
          /\ target' = [s \in Slots |-> IF s \in dups THEN Merged(target[s], Found(s, v, question))
                                        ELSE target[s]]
  /\ node' = "route" /\ record' = Reconciled(verdict', target')
  /\ UNCHANGED <<plan, question, staging, spending, accepted, todo, committed, released>>

ScanPasses ==
  /\ node = "scan" /\ node' = "route" /\ record' = Reconciled(verdict, target)
  /\ UNCHANGED <<content, target, staging, spending, accepted, todo, committed, released, trouble>>

\* The scan raises: every question of the exam is blocked.
ScanFails ==
  /\ node = "scan" /\ Troubled(1)
  /\ LET there == Present(question)
         outage == [NoTarget EXCEPT !.status = "blocked", !.why = "outage", !.dup = TRUE]
     IN /\ verdict' = [s \in Slots |-> IF s \in there THEN [verdict[s] EXCEPT !.cross = "outage"]
                                       ELSE verdict[s]]
        /\ target' = [s \in Slots |-> IF s \in there THEN Merged(target[s], outage) ELSE target[s]]
  /\ node' = "route" /\ record' = Reconciled(verdict', target')
  /\ UNCHANGED <<plan, question, staging, spending, accepted, todo, committed, released>>

-----------------------------------------------------------------------------
(* _route_after_validation.                                                *)

\* Mutant: a slot that is resolved is not told from one that is not.
RepairableWhenResolved(s, b) ==
  LET left == b.completion < MaxCompletion IN
  IF target[s].status = "blocked" THEN left ELSE ~ContentSpent(b, MaxFailures) \/ left

\* Unresolved slots with budget left; a closed slot is reopened by what is left of it.
Repairable(s, b) ==
  LET left == b.completion < MaxCompletion IN
  CASE target[s].status = "none" -> FALSE
    [] target[s].status = "blocked" -> left
    [] OTHER -> ~ContentSpent(b, MaxFailures) \/ left

Candidates == {s \in Slots : cand[s] # NoCand}

RouteToValidation ==
  /\ node = "route" /\ Candidates # {}
  /\ node' = "candidates" /\ todo' = Candidates /\ budget' = Recalled
  /\ UNCHANGED <<content, target, staging, memory, accepted, record, committed, released, trouble>>

RouteToRepair ==
  /\ node = "route" /\ Candidates = {}
  /\ \E s \in Slots : Repairable(s, Recalled[s])
  /\ node' = "repair" /\ budget' = Recalled
  /\ todo' = {s \in Slots : target[s].status \notin {"none", "pending"}}
  /\ released' = {s \in Slots : CurrentStatus(s) \in {"FAILED_TO_REPAIR", "VALIDATION_BLOCKED"}}
  /\ UNCHANGED <<content, target, staging, memory, accepted, record, committed, trouble>>

\* What becomes of each slot in the assembled exam.
Assemble ==
  /\ node = "route" /\ Candidates = {}
  /\ \A s \in Slots : ~Repairable(s, Recalled[s])
  /\ accepted' = {s \in Present(question) : CurrentStatus(s) = "PASS"}
  /\ node' = "assembled" /\ record' = Reconciled(verdict, target)
  /\ UNCHANGED <<content, target, staging, spending, todo, committed, released, trouble>>

-----------------------------------------------------------------------------
(* repair_invalid_questions: what is staged, and which strategy is next.   *)

Repairing(s) == node = "repair" /\ s \in todo /\ \A t \in todo : s <= t

Limit(s) == IF target[s].dup THEN MaxDuplicate ELSE MaxFailures
Spent(s) == ContentSpent(budget[s], Limit(s))

\* The exam and the plan of the last rejected candidate, or the active ones, with the
\* last accepted revision of the question.
Staged(s) ==
  LET exam == IF seed[s] = NoSeed THEN question ELSE seed[s].exam
  IN [exam |-> [exam EXCEPT ![s] = IF work[s] # NoQuestion THEN work[s] ELSE @],
      plans |-> IF seed[s] = NoSeed THEN plan ELSE seed[s].plans]

CloseSpent(s) ==
  /\ Repairing(s)
  /\ Spent(s) /\ (target[s].dup \/ CompletionSpent(budget[s]))
  /\ target' = [target EXCEPT ![s].status = "terminal", ![s].why = "spent"]
  /\ Visited(s)
  /\ UNCHANGED <<content, staging, spending, accepted, record, node, committed, released, trouble>>

Strategy(act, how) == [act |-> act, how |-> how]

Preferred(s) ==
  LET t == target[s]
      again == budget[s].attempts + 1
      blocked == t.status = "blocked"
      type == IF blocked \/ (Spent(s) /\ ~t.dup) THEN "replace" ELSE t.type
      first ==
        CASE type = "adjust" /\ budget[s].adjusted >= 2 -> Strategy("replace", "afterDifficulty")
          [] type = "adjust" /\ budget[s].adjusted < 2 -> Strategy("adjust", "adjust")
          [] type = "repair" /\ memory[s].force ->
               IF again < 3 THEN Strategy("regenerate", "regenerate") ELSE Strategy("replace", "catalog")
          [] type = "repair" /\ ~memory[s].force /\ t.last = "conflict" -> Strategy("repair", "reconciled")
          [] type = "repair" /\ ~memory[s].force /\ seed[s] # NoSeed /\ t.last \notin {"conflict", "unchanged"} ->
               Strategy("repair", "followup")
          [] type = "repair" /\ ~memory[s].force /\ (seed[s] = NoSeed \/ t.last = "unchanged")
               /\ t.last \notin {"none", "conflict"} -> Strategy("regenerate", "regenerate")
          [] type = "regenerate" -> Strategy("regenerate", "regenerate")
          [] type = "replace" -> Strategy("replace", IF Spent(s) \/ blocked THEN "completion" ELSE "catalog")
          [] OTHER -> Strategy(type, "targeted")
  IN IF first.act = "regenerate" /\ again >= 3 THEN Strategy("replace", "catalog") ELSE first

\* The first choice is charged, what the guard against repetition makes of it is not.
Charged(s) == budget[s].completion + IF Preferred(s).act = "replace" THEN 1 ELSE 0

Input(s, strategy) ==
  [exam |-> Staged(s).exam, why |-> target[s].why, strategy |-> strategy,
   black |-> memory[s].black, tried |-> memory[s].tried]

Seen(s, strategy) == Input(s, strategy) \in memory[s].inputs

Chosen(s) ==
  LET first == Preferred(s)
      second == IF first.act = "repair" /\ Seen(s, first)
                THEN Strategy("regenerate", "regenerate") ELSE first
  IN IF second.act = "regenerate" /\ Seen(s, second) THEN Strategy("replace", "catalog") ELSE second

Stuck(s) == Seen(s, Chosen(s))

\* A target that is not closed by its budgets is taken up.
Taken(s) ==
  /\ Repairing(s)
  /\ ~(Spent(s) /\ (target[s].dup \/ CompletionSpent(budget[s])))

Pending(s) == IF target[s].status = "blocked" \/ (Spent(s) /\ ~target[s].dup)
              THEN "completion" ELSE target[s].status

\* What the memory holds once the strategy is chosen.
Recorded(s) ==
  [memory[s] EXCEPT !.inputs = @ \cup {Input(s, Chosen(s))},
                    !.force = IF target[s].type = "repair" /\ Pending(s) # "completion" THEN FALSE ELSE @]

NoProgress(s) ==
  /\ Taken(s) /\ Stuck(s)
  /\ budget' = [budget EXCEPT ![s] = [budget[s] EXCEPT !.completion = Charged(s), !.attempts = @ + 1,
                                                       !.failures = Capped(@)]]
  /\ target' = [target EXCEPT ![s] = [@ EXCEPT !.status = "terminal", !.why = "stuck", !.open = TRUE]]
  /\ memory' = [memory EXCEPT ![s].force = Recorded(s).force]
  /\ Visited(s)
  /\ UNCHANGED <<content, staging, accepted, record, node, committed, released, trouble>>

Underway(s, act) == Taken(s) /\ ~Stuck(s) /\ Chosen(s).act = act

-----------------------------------------------------------------------------
(* A replacement: the pool of catalog_exhaustion_replacement, seen from    *)
(* the staged exam.                                                        *)

Used(s) == {Staged(s).plans[t].task : t \in Present(Staged(s).exam) \ {s}}

Excluded(s) == {plan[s].task} \cup memory[s].black \cup memory[s].tried

\* Unused tasks first, then tasks of other slots under a contract of reuse; the choice
\* is a language model's.
Pool(s) == [task : Tasks \ (Excluded(s) \cup Used(s)), reuse : {FALSE}]
           \cup [task : Used(s) \ Excluded(s), reuse : {TRUE}]

\* The agent that chooses an item may reject others for good.
Rejected(s, item) == SUBSET {other.task : other \in Pool(s) \ {item}}

NoReplacement(s) ==
  /\ Underway(s, "replace") /\ Pool(s) = {}
  /\ budget' = [budget EXCEPT ![s].completion = Charged(s)]
  /\ target' = [target EXCEPT ![s] =
       [@ EXCEPT !.status = IF Charged(s) >= MaxCompletion THEN "terminal" ELSE "completion",
                 !.why = IF Charged(s) >= MaxCompletion THEN "none left" ELSE "unavailable"]]
  /\ memory' = [memory EXCEPT ![s] = Recorded(s)]
  /\ Visited(s)
  /\ UNCHANGED <<content, staging, accepted, record, node, committed, released, trouble>>

\* The catalog or the evidence does not support the replacement.
Unbound(s) ==
  /\ Underway(s, "replace") /\ Troubled(1)
  /\ \E item \in Pool(s) : \E others \in Rejected(s, item) :
       memory' = [memory EXCEPT ![s] =
         [Recorded(s) EXCEPT !.black = @ \cup others \cup {item.task}, !.tried = @ \cup {item.task}]]
  /\ budget' = [budget EXCEPT ![s].completion = Charged(s)]
  /\ target' = [target EXCEPT ![s] = [@ EXCEPT !.status = "invalid", !.why = "unbound"]]
  /\ Visited(s)
  /\ UNCHANGED <<content, staging, accepted, record, node, committed, released>>

-----------------------------------------------------------------------------
(* What came of a strategy.                                                *)

Terminal(b, generation, limit) ==
  (b.failures >= limit /\ CompletionSpent(b)) \/ generation >= MaxGeneration

\* A proposal that could not be made.
Failed(s, b, m) ==
  LET generation == b.generation + 1 IN
  /\ budget' = [budget EXCEPT ![s] = [b EXCEPT !.generation = generation]]
  /\ memory' = [memory EXCEPT ![s] = [m EXCEPT !.force = TRUE]]
  /\ target' = [target EXCEPT ![s] =
       [@ EXCEPT !.status = IF Terminal(b, generation, Limit(s)) THEN "terminal" ELSE "invalid",
                 !.why = IF Terminal(b, generation, Limit(s)) THEN "spent" ELSE "generation",
                 !.last = "other", !.open = TRUE]]
  /\ UNCHANGED cand

\* A question made from staged plans: refused when its assignment had its share of
\* candidates or the same text was rejected before, and a candidate otherwise.
Offered(s, b, m, plans, made, act) ==
  LET item == plans[s]
      exam == [Staged(s).exam EXCEPT ![s] = made]
  IN
  IF m.checked[item.task] >= MaxAssignment
  THEN /\ target' = [target EXCEPT ![s] =
            [@ EXCEPT !.status = IF CompletionSpent(b) THEN "terminal" ELSE "invalid",
                      !.why = "assignment", !.type = "replace"]]
       /\ budget' = [budget EXCEPT ![s] = b] /\ memory' = [memory EXCEPT ![s] = m]
       /\ UNCHANGED cand
  ELSE IF made \in m.rejected
  THEN /\ target' = [target EXCEPT ![s] =
            [@ EXCEPT !.status = IF (Spent(s) \/ target[s].status = "blocked") /\ CompletionSpent(b)
                                 THEN "terminal" ELSE "invalid",
                      !.why = "identical", !.last = "other", !.open = TRUE]]
       /\ budget' = [budget EXCEPT ![s] = b]
       /\ memory' = [memory EXCEPT ![s] = [m EXCEPT !.force = TRUE]]
       /\ UNCHANGED cand
  ELSE /\ cand' = [cand EXCEPT ![s] =
            [exam |-> exam, plans |-> plans, act |-> act, why |-> target[s].why,
             base |-> <<plan[s], question[s]>>, retries |-> 0]]
       /\ target' = [target EXCEPT ![s] = [@ EXCEPT !.status = "candidate", !.open = FALSE]]
       /\ budget' = [budget EXCEPT ![s] = b]
       /\ memory' = [memory EXCEPT ![s] = [m EXCEPT !.checked[item.task] = @ + 1]]

Tried(s) == [budget[s] EXCEPT !.completion = Charged(s), !.attempts = @ + 1]

\* regenerate_missing_slot, and the replacement of the task: the slot is written anew.
Regenerate(s) ==
  /\ Underway(s, "regenerate")
  /\ \/ \E text \in Texts :
          LET plans == Staged(s).plans IN
          Offered(s, Tried(s), Recorded(s), plans, [task |-> plans[s].task, text |-> text], "regenerate")
          /\ UNCHANGED trouble
     \/ Failed(s, Tried(s), Recorded(s)) /\ Troubled(1)
  /\ Visited(s)
  /\ UNCHANGED <<content, seed, work, accepted, record, node, committed, released>>

Replace(s) ==
  /\ Underway(s, "replace")
  /\ \E item \in Pool(s) : \E others \in Rejected(s, item) :
       LET m == [Recorded(s) EXCEPT !.tried = @ \cup {item.task}, !.black = @ \cup others]
           plans == [Staged(s).plans EXCEPT ![s] = item]
       IN \/ \E text \in Texts :
               /\ Offered(s, Tried(s), m, plans, [task |-> item.task, text |-> text], "replace")
               /\ UNCHANGED trouble
          \/ /\ Failed(s, Tried(s), [m EXCEPT !.black = @ \cup {item.task}])
             /\ Troubled(1)
  /\ Visited(s)
  /\ UNCHANGED <<content, seed, work, accepted, record, node, committed, released>>

\* adjust_failed_plan_slot: the target of the task is rewritten and the slot written
\* anew; the second time it cannot be, the difficulty found is accepted.
Adjust(s) ==
  /\ Underway(s, "adjust")
  /\ LET b == [Tried(s) EXCEPT !.adjusted = @ + 1]
         plans == Staged(s).plans
         there == Staged(s).exam[s]
         same == IF there = NoQuestion THEN plans[s].task ELSE there.task
     IN \/ \E text \in Texts :
             /\ Offered(s, b, Recorded(s), plans, [task |-> plans[s].task, text |-> text], "adjust")
             /\ UNCHANGED trouble
        \/ /\ b.adjusted >= 2 /\ UNCHANGED trouble
           /\ \E text \in Texts :
                Offered(s, b, Recorded(s), plans, [task |-> same, text |-> text], "adjust")
        \/ Failed(s, b, Recorded(s)) /\ Troubled(1)
  /\ Visited(s)
  /\ UNCHANGED <<content, seed, work, accepted, record, node, committed, released>>

-----------------------------------------------------------------------------
(* repair_question_specialized: proposals, each of them a call, until one  *)
(* is applied or a budget ends.                                            *)

Proposals(s) ==
  {b \in [calls : budget[s].calls..MaxCalls, failures : budget[s].failures..MaxFailures] :
     b.calls - budget[s].calls >= b.failures - budget[s].failures}

After(s, n) == [Tried(s) EXCEPT !.calls = n.calls, !.failures = n.failures]

Rewritten(s, text) ==
  LET there == Staged(s).exam[s]
  IN [task |-> IF there = NoQuestion THEN Staged(s).plans[s].task ELSE there.task, text |-> text]

Repairer(s) == Underway(s, "repair") \/ Underway(s, "none")

RepairCompletes(s) ==
  /\ Underway(s, "repair")
  /\ \E n \in Proposals(s), text \in Texts :
       /\ n.calls - budget[s].calls > n.failures - budget[s].failures
       /\ n.failures = budget[s].failures \/ n.failures < MaxFailures
       /\ Offered(s, After(s, n), Recorded(s), Staged(s).plans, Rewritten(s, text), "repair")
       /\ work' = [work EXCEPT ![s] = Rewritten(s, text)]
       /\ Troubled(n.failures - budget[s].failures)
  /\ Visited(s)
  /\ UNCHANGED <<content, seed, accepted, record, node, committed, released>>

\* The calls or the failures run out; a revision may have been accepted before.
RepairExhausted(s) ==
  /\ Underway(s, "repair") /\ Troubled(1)
  /\ \E n \in Proposals(s) :
       /\ n.calls = MaxCalls \/ n.failures = MaxFailures
       /\ Failed(s, After(s, n), Recorded(s))
       /\ \/ work' = [work EXCEPT ![s] = NoQuestion] /\ n.failures > budget[s].failures
          \/ /\ n.calls - budget[s].calls > n.failures - budget[s].failures
             /\ \E text \in Texts : work' = [work EXCEPT ![s] = Rewritten(s, text)]
  /\ Visited(s)
  /\ UNCHANGED <<content, seed, accepted, record, node, committed, released>>

Outages(s) == budget[s].operations + 1

\* The provider fails, after some proposals perhaps: the attempt does not count, and its
\* input may be tried again, but what was proposed is spent.
RepairOutage(s) ==
  /\ Underway(s, "repair")
  /\ \E n \in Proposals(s) :
       /\ n.calls < MaxCalls /\ n.failures < MaxFailures
       /\ budget' = [budget EXCEPT ![s] =
            [@ EXCEPT !.operations = Outages(s), !.calls = n.calls, !.failures = n.failures]]
       /\ \/ n.calls = budget[s].calls /\ UNCHANGED work
          \/ n.failures > budget[s].failures /\ work' = [work EXCEPT ![s] = NoQuestion]
          \/ /\ n.calls - budget[s].calls > n.failures - budget[s].failures
             /\ \E text \in Texts : work' = [work EXCEPT ![s] = Rewritten(s, text)]
       /\ Troubled(1 + n.failures - budget[s].failures)
  /\ memory' = [memory EXCEPT ![s].force = Recorded(s).force]
  /\ target' = [target EXCEPT ![s] =
       [@ EXCEPT !.status = IF Outages(s) >= MaxGeneration THEN "blocked" ELSE "retry",
                 !.why = "operational", !.open = TRUE]]
  /\ Visited(s)
  /\ UNCHANGED <<content, cand, seed, accepted, record, node, committed, released>>

\* The findings contradict each other, no agent may act upon them, or they ask for
\* evidence there is not.  The outage of the scan is nobody's to repair.
Misrouted(s) ==
  /\ Repairer(s)
  /\ IF Chosen(s).act = "none" THEN UNCHANGED trouble ELSE Troubled(1)
  /\ \E why \in IF Chosen(s).act = "none" THEN {"unroutable"} ELSE {"conflict", "unroutable", "blocked"} :
       LET b == IF why = "conflict" THEN [Tried(s) EXCEPT !.failures = @ + 1] ELSE Tried(s)
           status == CASE why = "blocked" -> "blocked"
                       [] why = "conflict" /\ b.failures < Limit(s) -> "invalid"
                       [] OTHER -> "terminal"
       IN /\ budget' = [budget EXCEPT ![s] = b]
          /\ target' = [target EXCEPT ![s] =
               [target[s] EXCEPT !.status = status, !.why = why, !.open = TRUE,
                                 !.last = IF why = "conflict" THEN "conflict" ELSE @]]
  /\ memory' = [memory EXCEPT ![s] = Recorded(s)]
  /\ Visited(s)
  /\ UNCHANGED <<content, staging, accepted, record, node, committed, released>>

Repair(s) ==
  \/ CloseSpent(s) \/ NoProgress(s) \/ NoReplacement(s) \/ Unbound(s)
  \/ Regenerate(s) \/ Replace(s) \/ Adjust(s)
  \/ RepairCompletes(s) \/ RepairExhausted(s) \/ RepairOutage(s) \/ Misrouted(s)

-----------------------------------------------------------------------------
(* The coordinator: two candidates of a round, or a candidate and another  *)
(* slot, cannot be the same question of the same task.                     *)

Instance(item, q) == <<item.task, q>>

Reserved(s) ==
  /\ cand[s] # NoCand
  /\ \E t \in Slots \ {s} :
       LET made == Instance(cand[s].plans[s], cand[s].exam[s]) IN
       \/ question[t] # NoQuestion /\ t \notin released /\ made = Instance(plan[t], question[t])
       \/ t < s /\ cand[t] # NoCand /\ made = Instance(cand[t].plans[t], cand[t].exam[t])

\* Only a round of several targets has a coordinator.
Reserve ==
  /\ node = "repair" /\ todo = {}
  /\ LET several == Cardinality({s \in Slots : target[s].status \notin {"none", "pending"}}) > 1
         refused == IF several THEN {s \in Slots : Reserved(s)} ELSE {}
         kept == [s \in Slots |-> IF s \in refused THEN NoCand ELSE cand[s]]
     IN /\ cand' = kept
        /\ target' = [s \in Slots |-> IF s \in refused
                                      THEN [target[s] EXCEPT !.status = "invalid", !.why = "reserved"]
                                      ELSE target[s]]
        /\ todo' = {s \in Slots : kept[s] # NoCand}
  /\ node' = "candidates" /\ budget' = Recalled /\ record' = Reconciled(verdict, target')
  /\ UNCHANGED <<content, seed, work, memory, accepted, committed, released, trouble>>

-----------------------------------------------------------------------------
Init ==
  /\ plan = InitialPlan
  /\ question = [s \in Slots |-> NoQuestion]
  /\ verdict = [s \in Slots |-> NoVerdict]
  /\ target = [s \in Slots |-> NoTarget]
  /\ cand = [s \in Slots |-> NoCand]
  /\ seed = [s \in Slots |-> NoSeed] /\ work = [s \in Slots |-> NoQuestion]
  /\ budget = [s \in Slots |-> NoBudget] /\ memory = [s \in Slots |-> NoMemory]
  /\ record = [s \in Slots |-> NoRecord]
  /\ accepted = {} /\ released = {} /\ committed = {}
  /\ node = "pool" /\ todo = {} /\ trouble = 0

Done == node = "assembled" /\ UNCHANGED vars

Next ==
  \/ \E s \in Slots : Drop(s) \/ Commit(s) \/ Postpone(s) \/ Reject(s) \/ Repair(s)
  \/ Review \/ ScanFinds \/ ScanPasses \/ ScanFails
  \/ RouteToValidation \/ RouteToRepair \/ Assemble \/ Reserve \/ Done

-----------------------------------------------------------------------------
(* Properties.                                                             *)

\* Every variable is of its type, and no slot spends more content repair calls than
\* MAX_CONTENT_REPAIR_CALLS_PER_SLOT over all rounds, strategies and resumed tasks.
TypeOK ==
  /\ plan \in [Slots -> Item] /\ question \in [Slots -> Question \cup {NoQuestion}]
  /\ verdict \in [Slots -> Verdict]
  /\ \A s \in Slots :
       /\ target[s].status \in {"none", "invalid", "missing", "pending", "blocked", "terminal",
                                "completion", "retry", "candidate"}
       /\ budget[s].calls \in 0..MaxCalls /\ budget[s].failures \in Nat
       /\ memory[s].tried \subseteq Tasks
       /\ work[s] \in Question \cup {NoQuestion}
  /\ node \in {"pool", "shortfall", "candidates", "scan", "route", "repair", "assembled"}
  /\ todo \subseteq Slots /\ accepted \subseteq Slots

\* A slot whose candidate waited for a reviewer and then passed: the lifecycle goes on
\* saying that it waits.
StillWaiting(s) == record[s].status = "pending" /\ target[s].status = "none"

\* What is counted as accepted in the assembled exam is, to the letter, the question
\* the reviewers passed, for the task the plan now gives its slot: no balancing, commit,
\* or replacement of another slot came in between.  And every question that passed and
\* has no open finding is accepted, whatever happened to its slot in the rounds before,
\* except where a candidate had to wait for a reviewer.
AcceptedWasReviewed ==
  /\ \A s \in accepted : /\ verdict[s].on = question[s]
                         /\ verdict[s].task = plan[s].task
                         /\ Passes(s) /\ ~Open(s)
  /\ node = "assembled" =>
       \A s \in Slots : Passes(s) /\ ~Open(s) => s \in accepted \/ StillWaiting(s)

\* A question that passed and is still the same question of the same task is not found
\* invalid by the reviewers, in whatever round, whatever becomes of the others: only the
\* scan for duplicates can take it back.
KeptStands ==
  [][\A s \in Slots :
       Passes(s) /\ ~Open(s) /\ verdict[s].on = question[s] /\ verdict[s].task = plan[s].task
       /\ question'[s] = question[s] /\ plan'[s] = plan[s] /\ node # "scan"
         => ~Open(s)']_vars

\* The repair marks the slot and goes on, at no cost; the route sends it back: its
\* candidate was dropped while it waited, or what is left of its budget is not what
\* the repair looks at.
DeadEnd(s) ==
  \/ target[s].status = "pending" /\ cand[s] = NoCand
  \/ target[s].dup /\ Spent(s) /\ Repairable(s, Recalled[s])

\* A language model that fails a bounded number of times cannot keep the rounds from
\* ending, unless a slot reaches one of the two dead ends.
Settles == <>(node = "assembled" \/ \E s \in Slots : DeadEnd(s))

\* "Route unresolved requested slots through their own bounded budgets": the rounds end.
Assembles == <>(node = "assembled")
=============================================================================
