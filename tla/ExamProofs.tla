----------------------------- MODULE ExamProofs -----------------------------
(***************************************************************************)
(* Proofs about ExamPool and ExamReview, the generation and the review of  *)
(* one exam: for any slots, tasks, texts, budgets and answers.             *)
(***************************************************************************)
EXTENDS ExamPool, TLAPS

-----------------------------------------------------------------------------
(* The invariant.                                                          *)

Some == Question \cup {NoQuestion}

Statuses == {"none", "invalid", "missing", "pending", "blocked", "terminal", "completion",
             "retry", "candidate"}
TargetFields == {"status", "type", "why", "dup", "last", "open"}
CandFields == {"exam", "plans", "act", "why", "base", "retries"}
BudgetFields == {"failures", "calls", "completion", "attempts", "generation", "operations", "adjusted"}
MemoryFields == {"black", "tried", "rejected", "inputs", "force", "checked"}
ThreadFields == {"pc", "item", "pass", "attempt", "pick", "view", "excluded", "made"}

ContentTyped == plan \in [Slots -> Item] /\ question \in [Slots -> Some] /\ verdict \in [Slots -> Verdict]

TargetTyped(t) == DOMAIN t = TargetFields /\ t.status \in Statuses
TargetsTyped == DOMAIN target = Slots /\ \A s \in Slots : TargetTyped(target[s])

\* A snapshot of the exam with its plan.
Snapshot(c) == c.exam \in [Slots -> Some] /\ c.plans \in [Slots -> Item]
CandTyped(s, c) == c = NoCand \/ (DOMAIN c = CandFields /\ Snapshot(c) /\ c.exam[s] \in Question)

StagingTyped ==
  /\ DOMAIN cand = Slots /\ DOMAIN seed = Slots /\ work \in [Slots -> Some]
  /\ \A s \in Slots : CandTyped(s, cand[s]) /\ (seed[s] = NoSeed \/ Snapshot(seed[s]))

BudgetTyped(b) ==
  /\ DOMAIN b = BudgetFields
  /\ b.calls \in 0..MaxCalls /\ b.failures \in Nat /\ b.attempts \in Nat
MemoryTyped(m) == DOMAIN m = MemoryFields /\ m.tried \subseteq Tasks
SpendingTyped ==
  /\ DOMAIN budget = Slots /\ DOMAIN memory = Slots
  /\ \A s \in Slots : BudgetTyped(budget[s]) /\ MemoryTyped(memory[s])

FlowTyped ==
  /\ node \in {"pool", "shortfall", "candidates", "scan", "route", "repair", "assembled"}
  /\ todo \subseteq Slots /\ accepted \subseteq Slots
  /\ DOMAIN record = Slots
  /\ \A s \in Slots : DOMAIN record[s] = {"passed", "failed", "status"}

ReviewTyped == ContentTyped /\ TargetsTyped /\ StagingTyped /\ SpendingTyped /\ FlowTyped

Early == {"pool", "shortfall"}

\* Before the review there is nothing of it.
Untouched ==
  node \in Early =>
    /\ todo = {}
    /\ \A s \in Slots : /\ verdict[s] = NoVerdict /\ target[s] = NoTarget /\ cand[s] = NoCand
                        /\ record[s] = NoRecord

\* A verdict is of the question and the task that are there now.
Current ==
  \A s \in Slots : verdict[s].roles # "none" =>
    verdict[s].on = question[s] /\ verdict[s].task = plan[s].task /\ question[s] # NoQuestion

\* Where each candidate is between the nodes that make it and the one that judges it.
Waits(s) == cand[s] # NoCand => target[s].status = "pending"
Awaited ==
  \A s \in Slots :
    /\ node = "candidates" /\ s \in todo =>
         cand[s] # NoCand /\ target[s].status \in {"candidate", "pending"}
         /\ record[s].status = target[s].status
    /\ node = "candidates" /\ s \notin todo => Waits(s)
    /\ node \in {"scan", "route"} => Waits(s)
    /\ node = "repair" /\ s \in todo => cand[s] = NoCand /\ target[s].status \notin {"none", "pending"}
    /\ node = "repair" /\ cand[s] # NoCand => target[s].status = "candidate"

\* What the lifecycle says of a slot when the route, and then the assembly, reads it.
Agrees(s) ==
  /\ target[s].status # "none" => record[s].status = target[s].status
  /\ (record[s].passed /\ ~record[s].failed) <=> (Passes(s) /\ ~Open(s))
Lifecycle ==
  \A s \in Slots :
    /\ target[s].status = "none" => record[s].status \in {"none", "candidate", "pending"}
    /\ node \in {"route", "assembled"} => Agrees(s)

Assembled ==
  /\ node # "assembled" => accepted = {}
  /\ AcceptedWasReviewed

\* The threads of the pool.
ThreadTyped(t) ==
  /\ DOMAIN t = ThreadFields /\ t.made \in Some /\ t.pass \in Nat
  /\ t.pc # "idle" => t.item \in Item
  /\ t.pc \in Changing => t.pick \in Item
  /\ t.pc = "read" => t.view \in [Slots -> Item]
  /\ t.pc = "entry" => t.pass # 0
PoolTyped ==
  /\ DOMAIN thread = Slots /\ \A s \in Slots : ThreadTyped(thread[s])
  /\ node \in Early => items \in [Slots -> Item]

\* The passes are those of the recovery; there the slot that changes its task has the
\* turn, and keeps it.
Changes(s) == thread[s].pc \in Changing
Turns ==
  /\ node = "pool" => \A s \in Slots : thread[s].pass = 0
  /\ node = "shortfall" => \A s \in Slots : Changes(s) => Turn(s)

\* Unless two threads changed their tasks at the same time, what a thread has chosen is as
\* good as when it chose it.
Undisturbed ==
  node \in Early /\ ~raced =>
    \A s, t \in Slots : s # t =>
      /\ ~(Changes(s) /\ Changes(t))
      /\ thread[s].pc = "chosen" => thread[s].pick.reuse \/ plan[t].task # thread[s].pick.task
      /\ plan[s].task = plan[t].task => plan[s].reuse \/ plan[t].reuse

IInv ==
  /\ ReviewTyped /\ Untouched /\ Current /\ Awaited /\ Lifecycle /\ Assembled
  /\ PoolTyped /\ Turns /\ Undisturbed

-----------------------------------------------------------------------------
(* The steps of the review, and what they leave alone.                     *)

LEMMA NoQuestionLeft == NoQuestion \notin Question
  BY ExamAssumption DEF NoQuestion, Question

\* A step from one node of the review to another, or within one.
LEMMA LateStep ==
  ASSUME IInv, node \notin Early \cup {"assembled"}, node' \notin Early \cup {"assembled"},
         UNCHANGED <<accepted, poolVars>>,
         ContentTyped', TargetsTyped', StagingTyped', SpendingTyped', FlowTyped',
         Current', Awaited', Lifecycle'
  PROVE  IInv'
  <1>1. PoolTyped' /\ Undisturbed' /\ Untouched' /\ Turns'
    BY DEF IInv, poolVars, PoolTyped, ThreadTyped, Undisturbed, Untouched, Changing, Turns, Early
  <1>2. Assembled'
    BY DEF IInv, Assembled, AcceptedWasReviewed
  <1> QED BY <1>1, <1>2 DEF IInv, ReviewTyped

\* A step of one slot.
Only(s) ==
  /\ DOMAIN target' = Slots /\ DOMAIN cand' = Slots
  /\ \A t \in Slots : t # s => target'[t] = target[t] /\ cand'[t] = cand[t]

LEMMA CandStep ==
  ASSUME IInv, NEW s \in Slots, Validating(s), Visited(s), Only(s),
         UNCHANGED <<node, record, accepted, poolVars>>,
         TargetTyped(target'[s]), cand'[s] # NoCand => target'[s].status = "pending",
         ContentTyped', StagingTyped', SpendingTyped', Current'
  PROVE  IInv'
  <1>1. node = "candidates" /\ s \in todo /\ todo' = todo \ {s}
    BY DEF Validating, Visited
  <1>2. TargetsTyped'
    BY DEF IInv, ReviewTyped, TargetsTyped, Only, TargetTyped
  <1>3. FlowTyped'
    BY <1>1 DEF IInv, ReviewTyped, FlowTyped
  <1>4. Awaited'
    BY <1>1 DEF IInv, Awaited, Waits, Only
  <1>5. Lifecycle'
    BY <1>1 DEF IInv, Awaited, Lifecycle, Only
  <1> QED BY <1>1, <1>2, <1>3, <1>4, <1>5, LateStep DEF Early

LEMMA DropSafe ==
  ASSUME IInv, NEW s \in Slots, Drop(s), UNCHANGED poolVars PROVE IInv'
  <1>1. /\ Validating(s) /\ Visited(s) /\ cand' = [cand EXCEPT ![s] = NoCand]
        /\ UNCHANGED <<content, target, seed, work, spending, accepted, record, node>>
    BY DEF Drop
  <1>2. Only(s) /\ cand'[s] = NoCand /\ TargetTyped(target'[s])
    BY <1>1 DEF Only, IInv, ReviewTyped, TargetsTyped, StagingTyped
  <1>3. StagingTyped'
    BY <1>1, <1>2 DEF IInv, ReviewTyped, StagingTyped, Only, CandTyped
  <1>4. ContentTyped' /\ SpendingTyped' /\ Current'
    BY <1>1 DEF IInv, ReviewTyped, ContentTyped, SpendingTyped, Current, content, spending
  <1> QED BY <1>1, <1>2, <1>3, <1>4, CandStep

LEMMA CommitSafe ==
  ASSUME IInv, NEW s \in Slots, Commit(s), UNCHANGED poolVars PROVE IInv'
  <1>1. /\ Validating(s) /\ Visited(s) /\ cand' = [cand EXCEPT ![s] = NoCand]
        /\ plan' = [plan EXCEPT ![s] = cand[s].plans[s]]
        /\ question' = [question EXCEPT ![s] = cand[s].exam[s]]
        /\ verdict' = [verdict EXCEPT ![s] = [roles |-> "PASS", cross |-> "PASS",
                                              task |-> cand[s].plans[s].task, on |-> cand[s].exam[s]]]
        /\ target' = [target EXCEPT ![s] = NoTarget]
        /\ seed' = [seed EXCEPT ![s] = NoSeed]
        /\ UNCHANGED <<work, spending, accepted, record, node>>
    BY DEF Commit, Judged
  <1>2. Only(s) /\ cand'[s] = NoCand /\ target'[s] = NoTarget
    BY <1>1 DEF Only, IInv, ReviewTyped, TargetsTyped, StagingTyped
  <1>3. TargetTyped(target'[s])
    BY <1>2 DEF TargetTyped, NoTarget, TargetFields, Statuses
  <1>4. StagingTyped'
    BY <1>1, <1>2 DEF IInv, ReviewTyped, StagingTyped, Only, CandTyped
  <1>5. cand[s].exam[s] \in Question /\ cand[s].plans[s] \in Item
    <2>1. cand[s] # NoCand /\ CandTyped(s, cand[s])
      BY <1>1 DEF IInv, Awaited, ReviewTyped, StagingTyped, Validating
    <2> QED BY <2>1 DEF CandTyped, Snapshot
  <1>6. [roles |-> "PASS", cross |-> "PASS", task |-> cand[s].plans[s].task,
         on |-> cand[s].exam[s]] \in Verdict
    BY <1>5 DEF Verdict, Item
  <1>7. ContentTyped'
    BY <1>1, <1>5, <1>6 DEF IInv, ReviewTyped, ContentTyped, Some
  <1>8. Current'
    BY <1>1, <1>5, NoQuestionLeft DEF IInv, ReviewTyped, ContentTyped, Current
  <1>9. SpendingTyped'
    BY <1>1 DEF IInv, ReviewTyped, SpendingTyped, spending
  <1> QED BY <1>1, <1>2, <1>3, <1>4, <1>7, <1>8, <1>9, CandStep

LEMMA PostponeSafe ==
  ASSUME IInv, NEW s \in Slots, Postpone(s), UNCHANGED poolVars PROVE IInv'
  <1>1. /\ Validating(s) /\ Visited(s)
        /\ UNCHANGED <<content, seed, work, spending, accepted, record, node>>
    BY DEF Postpone, Judged
  <1>2. DOMAIN cand[s] = CandFields /\ CandTyped(s, cand[s]) /\ Snapshot(cand[s])
        /\ cand[s].exam[s] \in Question
    BY <1>1 DEF IInv, Awaited, ReviewTyped, StagingTyped, Validating, CandTyped
  <1>3. /\ Only(s) /\ DOMAIN target'[s] = DOMAIN target[s]
        /\ \/ cand'[s] = NoCand /\ target'[s].status = "blocked"
           \/ \E n : cand'[s] = [cand[s] EXCEPT !.retries = n] /\ target'[s].status = "pending"
    <2>1. PICK n : \/ /\ cand' = [cand EXCEPT ![s] = NoCand]
                      /\ target' = [target EXCEPT ![s].status = "blocked"]
                   \/ /\ cand' = [cand EXCEPT ![s].retries = n]
                      /\ target' = [target EXCEPT ![s].status = "pending"]
      BY DEF Postpone
    <2> QED BY <2>1 DEF Only, IInv, ReviewTyped, TargetsTyped, TargetTyped, TargetFields, StagingTyped
  <1>4. TargetTyped(target'[s]) /\ (cand'[s] # NoCand => target'[s].status = "pending")
    BY <1>3 DEF IInv, ReviewTyped, TargetsTyped, TargetTyped, Statuses
  <1>5. CandTyped(s, cand'[s])
    BY <1>2, <1>3 DEF CandTyped, CandFields, Snapshot
  <1>6. StagingTyped'
    BY <1>1, <1>3, <1>5 DEF IInv, ReviewTyped, StagingTyped, Only, CandTyped
  <1>7. ContentTyped' /\ SpendingTyped' /\ Current'
    BY <1>1 DEF IInv, ReviewTyped, ContentTyped, SpendingTyped, Current, content, spending
  <1> QED BY <1>1, <1>3, <1>4, <1>6, <1>7, CandStep

LEMMA RejectSafe ==
  ASSUME IInv, NEW s \in Slots, Reject(s), UNCHANGED poolVars PROVE IInv'
  <1>1. /\ Validating(s) /\ Visited(s) /\ cand' = [cand EXCEPT ![s] = NoCand]
        /\ memory' = [memory EXCEPT ![s].black = @ \cup {cand[s].plans[s].task},
                                    ![s].rejected = @ \cup {cand[s].exam[s]}]
        /\ seed' = [seed EXCEPT ![s] = [exam |-> cand[s].exam, plans |-> cand[s].plans]]
        /\ UNCHANGED <<content, work, accepted, record, node>>
    BY DEF Reject, Judged
  <1>c. PICK code \in Failures \ {"blocked"} :
          LET spent == [budget[s] EXCEPT !.failures =
                          IF cand[s].act = "repair" THEN Capped(@) ELSE @]
          IN /\ budget' = [budget EXCEPT ![s] = spent]
             /\ target' = [target EXCEPT ![s] =
                  [@ EXCEPT !.status = IF spent.failures >= MaxFailures /\ CompletionSpent(spent)
                                       THEN "terminal"
                                       ELSE IF question[s] = NoQuestion THEN "missing" ELSE "invalid",
                            !.type = Classified(code), !.why = code, !.open = TRUE,
                            !.last = IF code = cand[s].why THEN "unchanged" ELSE "other"]]
    BY DEF Reject
  <1> DEFINE n == IF cand[s].act = "repair" THEN Capped(budget[s].failures) ELSE budget[s].failures
  <1>2. /\ budget' = [budget EXCEPT ![s] = [budget[s] EXCEPT !.failures = n]]
        /\ DOMAIN target' = DOMAIN target /\ \A t \in Slots : t # s => target'[t] = target[t]
        /\ DOMAIN target'[s] = DOMAIN target[s]
        /\ target'[s].status \in {"terminal", "missing", "invalid"}
    BY <1>c DEF IInv, ReviewTyped, TargetsTyped, TargetTyped, TargetFields
  <1>3. Snapshot(cand[s])
    BY <1>1 DEF IInv, Awaited, ReviewTyped, StagingTyped, Validating, CandTyped
  <1>4. Only(s) /\ cand'[s] = NoCand /\ TargetTyped(target'[s])
    BY <1>1, <1>2 DEF Only, IInv, ReviewTyped, TargetsTyped, TargetTyped, TargetFields, Statuses,
       StagingTyped
  <1>5. StagingTyped'
    BY <1>1, <1>3, <1>4 DEF IInv, ReviewTyped, StagingTyped, Only, CandTyped, Snapshot
  <1>6. n \in Nat
    BY ExamAssumption DEF IInv, ReviewTyped, SpendingTyped, BudgetTyped, Capped
  <1>7. SpendingTyped'
    BY <1>1, <1>2, <1>6 DEF IInv, ReviewTyped, SpendingTyped, BudgetTyped, MemoryTyped,
       BudgetFields, MemoryFields
  <1>8. ContentTyped' /\ Current'
    BY <1>1 DEF IInv, ReviewTyped, ContentTyped, Current, content
  <1> QED BY <1>1, <1>4, <1>5, <1>7, <1>8, CandStep

-----------------------------------------------------------------------------
(* The review of the exam and the scan.                                    *)

LEMMA FoundTyped ==
  ASSUME NEW s, NEW v, NEW exam PROVE TargetTyped(Found(s, v, exam))
  BY DEF Found, TargetTyped, NoTarget, TargetFields, Statuses

\* A finding opens a slot or leaves it open; what waits goes on waiting.
LEMMA MergedTyped ==
  ASSUME NEW old, NEW new, TargetTyped(old), TargetTyped(new)
  PROVE  /\ TargetTyped(Merged(old, new))
         /\ Merged(old, new).status = "none" => old.status = "none"
         /\ old.status = "pending" => Merged(old, new).status = "pending"
  BY DEF Merged, TargetTyped, TargetFields, Statuses, Closed

LEMMA ReviewSafe == ASSUME IInv, Review, UNCHANGED poolVars PROVE IInv'
  <1>0. PICK exam \in Balanced :
          \E answer \in Answers(Asked({s \in Slots : exam[s] # question[s]}), exam) :
            LET v == Reviewed(Asked({s \in Slots : exam[s] # question[s]}), exam, answer)
            IN /\ question' = exam /\ verdict' = v
               /\ target' = [s \in Slots |-> Merged(target[s], Found(s, v, exam))]
    BY DEF Review
  <1> DEFINE ids == Asked({s \in Slots : exam[s] # question[s]})
  <1>1. PICK answer \in Answers(ids, exam) :
          LET v == Reviewed(ids, exam, answer)
          IN /\ question' = exam /\ verdict' = v
             /\ target' = [s \in Slots |-> Merged(target[s], Found(s, v, exam))]
    BY <1>0
  <1>2. /\ node = "candidates" /\ node' = "scan" /\ todo = {}
        /\ UNCHANGED <<plan, cand, seed, work, spending, accepted, record, todo>>
    BY DEF Review
  <1>3. /\ exam \in [Slots -> Some]
        /\ \A s \in Slots : exam[s] # question[s] => exam[s].task = question[s].task
    BY DEF Balanced, IInv, ReviewTyped, ContentTyped, Some
  <1>4. /\ ids \subseteq Slots
        /\ \A s \in Slots : s \notin ids => exam[s] = question[s]
        /\ \A s \in ids : exam[s] # question[s] \/ question[s] # NoQuestion
    BY DEF Asked, Present, Balanced
  <1> HIDE DEF ids
  <1>5. \A s \in ids : exam[s] # NoQuestion
    <2> TAKE s \in ids
    <2>1. CASE exam[s] = question[s]
      BY <1>4, <2>1
    <2>2. CASE exam[s] # question[s]
      BY <1>3, <1>4, <2>2, ExamAssumption DEF Some, Question, NoQuestion, IInv, ReviewTyped,
         ContentTyped
    <2> QED BY <2>1, <2>2
  <1>6. \A s \in ids : answer[s] \in Failures \cup {"PASS"}
    BY DEF Answers
  <1>7. \A s \in Slots :
          /\ s \in ids => verdict'[s] = [roles |-> answer[s], cross |-> "PASS",
                                         task |-> plan[s].task, on |-> exam[s]]
          /\ s \notin ids => verdict'[s] = verdict[s]
    BY <1>1 DEF Reviewed
  <1>8. verdict' \in [Slots -> Verdict]
    <2>1. \A s \in Slots : verdict'[s] \in Verdict
      <3> TAKE s \in Slots
      <3>1. CASE s \in ids
        <4>1. answer[s] \in Failures \cup {"PASS"} /\ plan[s].task \in Tasks /\ exam[s] \in Some
          BY <1>3, <1>6, <3>1 DEF IInv, ReviewTyped, ContentTyped, Item
        <4>2. verdict'[s] = [roles |-> answer[s], cross |-> "PASS",
                             task |-> plan[s].task, on |-> exam[s]]
          BY <1>7, <3>1
        <4> QED BY <4>1, <4>2 DEF Verdict, Some
      <3>2. CASE s \notin ids
        BY <1>7, <3>2 DEF IInv, ReviewTyped, ContentTyped
      <3> QED BY <3>1, <3>2
    <2>2. verdict' = [s \in Slots |-> verdict'[s]]
      BY <1>1 DEF Reviewed
    <2> QED BY <2>1, <2>2
  <1>9. ContentTyped'
    BY <1>1, <1>2, <1>3, <1>8 DEF IInv, ReviewTyped, ContentTyped
  <1>10. \A s \in Slots : TargetTyped(target'[s])
                          /\ (target'[s].status = "none" => target[s].status = "none")
                          /\ (target[s].status = "pending" => target'[s].status = "pending")
    BY <1>1, FoundTyped, MergedTyped DEF IInv, ReviewTyped, TargetsTyped
  <1>11. TargetsTyped' /\ StagingTyped' /\ SpendingTyped' /\ FlowTyped'
    BY <1>1, <1>2, <1>10 DEF IInv, ReviewTyped, TargetsTyped, TargetTyped, StagingTyped,
       SpendingTyped, FlowTyped, spending
  <1>12. Current'
    <2>1. \A s \in Slots : verdict'[s].roles # "none" =>
            verdict'[s].on = exam[s] /\ verdict'[s].task = plan[s].task /\ exam[s] # NoQuestion
      <3> TAKE s \in Slots
      <3>1. CASE s \in ids
        <4>1. verdict'[s] = [roles |-> answer[s], cross |-> "PASS",
                             task |-> plan[s].task, on |-> exam[s]]
          BY <1>7, <3>1
        <4> QED BY <1>5, <3>1, <4>1
      <3>2. CASE s \notin ids
        <4>1. verdict'[s] = verdict[s] /\ exam[s] = question[s]
          BY <1>4, <1>7, <3>2
        <4> QED BY <4>1 DEF IInv, Current
      <3> QED BY <3>1, <3>2
    <2> QED BY <1>1, <1>2, <2>1 DEF Current
  <1>13. Awaited'
    BY <1>2, <1>10 DEF IInv, Awaited, Waits
  <1>14. Lifecycle'
    BY <1>2, <1>10 DEF IInv, Lifecycle
  <1> QED BY <1>2, <1>9, <1>11, <1>12, <1>13, <1>14, LateStep DEF Early, Review

\* What reconcile_slot_lifecycle leaves behind.
LEMMA ReconciledAgrees ==
  ASSUME IInv, record' = Reconciled(verdict', target'), DOMAIN target' = Slots,
         \A s \in Slots : target'[s].status = "none" => target[s].status = "none"
  PROVE  /\ DOMAIN record' = Slots
         /\ \A s \in Slots :
              /\ DOMAIN record'[s] = {"passed", "failed", "status"} /\ Agrees(s)'
              /\ target'[s].status = "none" => record'[s].status \in {"none", "candidate", "pending"}
  <1>1. DOMAIN record' = Slots
    BY DEF Reconciled
  <1>2. \A s \in Slots :
          record'[s] =
            [passed |-> Passed(verdict'[s]),
             failed |-> target'[s].status # "none" \/ (verdict'[s].roles # "none" /\ ~Passed(verdict'[s])),
             status |-> IF target'[s].status = "none" THEN record[s].status ELSE target'[s].status]
    BY DEF Reconciled
  <1>3. \A s \in Slots :
          /\ DOMAIN record'[s] = {"passed", "failed", "status"}
          /\ (record'[s].passed /\ ~record'[s].failed)
               <=> (Passed(verdict'[s]) /\ target'[s].status = "none")
          /\ record'[s].status = IF target'[s].status = "none" THEN record[s].status
                                 ELSE target'[s].status
    <2> TAKE s \in Slots
    <2> DEFINE p == Passed(verdict'[s])
               f == target'[s].status # "none" \/ (verdict'[s].roles # "none" /\ ~Passed(verdict'[s]))
               m == IF target'[s].status = "none" THEN record[s].status ELSE target'[s].status
    <2>1. record'[s] = [passed |-> p, failed |-> f, status |-> m]
      BY <1>2, Zenon
    <2>2. Passed(verdict'[s]) => verdict'[s].roles # "none"
      BY DEF Passed
    <2>3. (p /\ ~f) <=> (Passed(verdict'[s]) /\ target'[s].status = "none")
      BY <2>2, Zenon
    <2> HIDE DEF p, f, m
    <2>4. /\ record'[s].passed = p /\ record'[s].failed = f /\ record'[s].status = m
          /\ DOMAIN record'[s] = {"passed", "failed", "status"}
      BY <2>1
    <2>5. (record'[s].passed /\ ~record'[s].failed) <=> (p /\ ~f)
      BY <2>4, Zenon
    <2> QED BY <2>3, <2>4, <2>5, Zenon DEF m
  <1> QED BY <1>1, <1>3 DEF IInv, Lifecycle, Agrees, Passes, Open

\* The scan says of a question no more than that it is a duplicate, or that it could not be asked.
LEMMA ScanSafe ==
  ASSUME IInv, ScanFinds \/ ScanPasses \/ ScanFails, UNCHANGED poolVars PROVE IInv'
  <1>1. /\ node = "scan" /\ node' = "route" /\ record' = Reconciled(verdict', target')
        /\ UNCHANGED <<plan, question, staging, spending, accepted, todo>>
    BY DEF ScanFinds, ScanPasses, ScanFails, content
  <1>2. /\ DOMAIN verdict' = Slots /\ verdict' = [s \in Slots |-> verdict'[s]]
        /\ DOMAIN target' = Slots
        /\ \A s \in Slots :
             /\ \/ verdict'[s] = verdict[s]
                \/ \E c \in {"duplicate", "outage"} : verdict'[s] = [verdict[s] EXCEPT !.cross = c]
             /\ \/ target'[s] = target[s]
                \/ \E new : TargetTyped(new) /\ target'[s] = Merged(target[s], new)
    <2>1. CASE ScanFinds
      <3>1. PICK dups :
              LET v == [s \in Slots |-> IF s \in dups THEN [verdict[s] EXCEPT !.cross = "duplicate"]
                                        ELSE verdict[s]]
              IN /\ verdict' = v
                 /\ target' = [s \in Slots |-> IF s \in dups THEN Merged(target[s], Found(s, v, question))
                                               ELSE target[s]]
        BY <2>1 DEF ScanFinds
      <3> QED BY <3>1, FoundTyped
    <2>2. CASE ScanPasses
      BY <2>2 DEF ScanPasses, content, IInv, ReviewTyped, ContentTyped, TargetsTyped
    <2>3. CASE ScanFails
      <3>1. TargetTyped([NoTarget EXCEPT !.status = "blocked", !.why = "outage", !.dup = TRUE])
        BY DEF TargetTyped, NoTarget, TargetFields, Statuses
      <3> QED BY <2>3, <3>1 DEF ScanFails
    <2> QED BY <2>1, <2>2, <2>3
  <1>3. \A s \in Slots :
          /\ verdict'[s] \in Verdict /\ verdict'[s].roles = verdict[s].roles
          /\ verdict'[s].on = verdict[s].on /\ verdict'[s].task = verdict[s].task
    <2> TAKE s \in Slots
    <2>1. verdict[s] \in Verdict
      BY DEF IInv, ReviewTyped, ContentTyped
    <2> QED BY <1>2, <2>1 DEF Verdict
  <1>4. \A s \in Slots : TargetTyped(target'[s])
                         /\ (target'[s].status = "none" => target[s].status = "none")
                         /\ (target[s].status = "pending" => target'[s].status = "pending")
    BY <1>2, MergedTyped DEF IInv, ReviewTyped, TargetsTyped
  <1>5. ContentTyped'
    BY <1>1, <1>2, <1>3 DEF IInv, ReviewTyped, ContentTyped
  <1>6. Current'
    BY <1>1, <1>3 DEF IInv, Current
  <1>7. /\ DOMAIN record' = Slots
        /\ \A s \in Slots :
             /\ DOMAIN record'[s] = {"passed", "failed", "status"} /\ Agrees(s)'
             /\ target'[s].status = "none" => record'[s].status \in {"none", "candidate", "pending"}
    BY <1>1, <1>2, <1>4, ReconciledAgrees
  <1>8. TargetsTyped' /\ StagingTyped' /\ SpendingTyped' /\ FlowTyped'
    BY <1>1, <1>2, <1>4, <1>7 DEF IInv, ReviewTyped, TargetsTyped, TargetTyped, StagingTyped,
       SpendingTyped, FlowTyped, staging, spending
  <1>9. Awaited'
    BY <1>1, <1>4 DEF IInv, Awaited, Waits, staging
  <1>10. Lifecycle'
    BY <1>7 DEF Lifecycle
  <1> QED BY <1>1, <1>5, <1>6, <1>8, <1>9, <1>10, LateStep DEF Early

-----------------------------------------------------------------------------
(* The route.                                                              *)

LEMMA RecalledTyped ==
  ASSUME SpendingTyped PROVE DOMAIN Recalled = Slots /\ \A s \in Slots : BudgetTyped(Recalled[s])
  BY DEF SpendingTyped, Recalled, BudgetTyped, BudgetFields

LEMMA RouteSafe ==
  ASSUME IInv, RouteToValidation \/ RouteToRepair, UNCHANGED poolVars PROVE IInv'
  <1>1. /\ node = "route" /\ node' \in {"candidates", "repair"} /\ budget' = Recalled
        /\ UNCHANGED <<content, target, staging, memory, accepted, record>>
    BY DEF RouteToValidation, RouteToRepair
  <1>2. /\ node' = "candidates" => todo' = {s \in Slots : cand[s] # NoCand}
        /\ node' = "repair" => /\ \A s \in Slots : cand[s] = NoCand
                               /\ todo' = {s \in Slots : target[s].status \notin {"none", "pending"}}
    BY DEF RouteToValidation, RouteToRepair, Candidates
  <1>3. SpendingTyped'
    BY <1>1, RecalledTyped DEF IInv, ReviewTyped, SpendingTyped, BudgetTyped
  <1>4. ContentTyped' /\ TargetsTyped' /\ StagingTyped' /\ FlowTyped' /\ Current'
    BY <1>1, <1>2 DEF IInv, ReviewTyped, ContentTyped, TargetsTyped, TargetTyped, StagingTyped,
       FlowTyped, Current, content, staging
  <1>5. Awaited'
    BY <1>1, <1>2 DEF IInv, Awaited, Waits, Lifecycle, Agrees, staging
  <1>6. Lifecycle'
    BY <1>1 DEF IInv, Lifecycle
  <1> QED BY <1>1, <1>3, <1>4, <1>5, <1>6, LateStep DEF Early

\* What the lifecycle calls PASS has passed as it stands, and what has passed is called so or
\* goes on waiting for a reviewer that has answered.
LEMMA CurrentStatusIsRight ==
  ASSUME IInv, node = "route", NEW s \in Slots, cand[s] = NoCand
  PROVE  /\ CurrentStatus(s) = "PASS" => Passes(s) /\ ~Open(s)
         /\ Passes(s) /\ ~Open(s) => CurrentStatus(s) = "PASS" \/ record[s].status = "pending"
  <1>1. Agrees(s) /\ (target[s].status = "none" => record[s].status \in {"none", "candidate", "pending"})
    BY DEF IInv, Lifecycle
  <1>2. CurrentStatus(s) = "PASS" => record[s].passed /\ ~record[s].failed
    BY DEF CurrentStatus
  <1>3. ASSUME Passes(s), ~Open(s), record[s].status # "pending" PROVE CurrentStatus(s) = "PASS"
    <2>1. record[s].passed /\ ~record[s].failed /\ record[s].status \in {"none", "candidate"}
      BY <1>1, <1>3 DEF Agrees, Open
    <2>2. verdict[s].roles # "blocked" /\ verdict[s].cross # "outage"
      BY <1>3 DEF Passes, Passed
    <2> QED BY <2>1, <2>2 DEF CurrentStatus
  <1> QED BY <1>1, <1>2, <1>3 DEF Agrees

LEMMA AssembleSafe == ASSUME IInv, Assemble, UNCHANGED poolVars PROVE IInv'
  <1>1. /\ node = "route" /\ node' = "assembled" /\ record' = Reconciled(verdict, target)
        /\ accepted' = {s \in Present(question) : CurrentStatus(s) = "PASS"}
        /\ \A s \in Slots : cand[s] = NoCand
        /\ UNCHANGED <<content, target, staging, spending, todo>>
    BY DEF Assemble, Candidates
  <1>2. /\ DOMAIN record' = Slots
        /\ \A s \in Slots :
             /\ DOMAIN record'[s] = {"passed", "failed", "status"} /\ Agrees(s)'
             /\ target'[s].status = "none" => record'[s].status \in {"none", "candidate", "pending"}
    BY <1>1, ReconciledAgrees DEF content, IInv, ReviewTyped, TargetsTyped
  <1>3. ReviewTyped' /\ Current'
    BY <1>1, <1>2 DEF IInv, ReviewTyped, ContentTyped, TargetsTyped, TargetTyped, StagingTyped,
       SpendingTyped, FlowTyped, Current, content, staging, spending, Present
  <1>4. Untouched' /\ Awaited' /\ Undisturbed' /\ PoolTyped' /\ Turns'
    BY <1>1 DEF IInv, Untouched, Awaited, Waits, Undisturbed, PoolTyped, ThreadTyped, Changing,
       poolVars, Early, Turns
  <1>5. Lifecycle'
    BY <1>2 DEF Lifecycle
  <1>6. \A s \in Slots : target[s].status = "none" => record'[s].status = record[s].status
    BY <1>1 DEF Reconciled
  <1>7. \A s \in accepted' : Passes(s) /\ ~Open(s) /\ verdict[s].on = question[s]
                             /\ verdict[s].task = plan[s].task
    BY <1>1, CurrentStatusIsRight DEF IInv, Current, Present, Passes, Passed
  <1>8. \A s \in Slots : Passes(s) /\ ~Open(s) => s \in accepted' \/ record'[s].status = "pending"
    <2> TAKE s \in Slots
    <2>1. HAVE Passes(s) /\ ~Open(s)
    <2>2. s \in Present(question)
      BY <2>1 DEF IInv, Current, Present, Passes, Passed
    <2>3. CurrentStatus(s) = "PASS" \/ record'[s].status = "pending"
      BY <1>1, <1>6, <2>1, CurrentStatusIsRight DEF Open
    <2> QED BY <1>1, <2>2, <2>3
  <1>9. Assembled'
    BY <1>1, <1>7, <1>8 DEF Assembled, AcceptedWasReviewed, Passes, Open, StillWaiting, content
  <1> QED BY <1>3, <1>4, <1>5, <1>9 DEF IInv

-----------------------------------------------------------------------------
(* The repair of a slot.                                                   *)

Spends(s) ==
  /\ DOMAIN budget' = Slots /\ DOMAIN memory' = Slots
  /\ \A t \in Slots : t # s => budget'[t] = budget[t] /\ memory'[t] = memory[t]
  /\ BudgetTyped(budget'[s]) /\ MemoryTyped(memory'[s])

\* What is left of a repair: no candidate and an open slot, or a candidate that says so.
Result(s) ==
  /\ Only(s) /\ Spends(s)
  /\ TargetTyped(target'[s]) /\ target'[s].status \notin {"none", "pending"}
  /\ \/ cand'[s] = cand[s]
     \/ /\ target'[s].status = "candidate" /\ DOMAIN cand'[s] = CandFields
        /\ Snapshot(cand'[s]) /\ cand'[s].exam[s] \in Question

LEMMA RepairStep ==
  ASSUME IInv, NEW s \in Slots, Repairing(s), Visited(s), Result(s), work' \in [Slots -> Some],
         UNCHANGED <<content, seed, accepted, record, node, poolVars>>
  PROVE  IInv'
  <1>1. node = "repair" /\ s \in todo /\ todo' = todo \ {s}
    BY DEF Repairing, Visited
  <1>2. ContentTyped' /\ Current'
    BY DEF IInv, ReviewTyped, ContentTyped, Current, content
  <1>3. TargetsTyped'
    BY DEF IInv, ReviewTyped, TargetsTyped, TargetTyped, Only, Result
  <1>4. StagingTyped'
    <2>1. CandTyped(s, cand'[s])
      BY DEF Result, CandTyped, IInv, ReviewTyped, StagingTyped
    <2> QED BY <2>1 DEF IInv, ReviewTyped, StagingTyped, Only, Result, CandTyped
  <1>5. SpendingTyped'
    BY DEF IInv, ReviewTyped, SpendingTyped, BudgetTyped, MemoryTyped, Result, Spends
  <1>6. FlowTyped'
    BY <1>1 DEF IInv, ReviewTyped, FlowTyped
  <1>7. Awaited'
    BY <1>1 DEF IInv, Awaited, Waits, Only, Result
  <1>8. Lifecycle'
    BY <1>1 DEF IInv, Lifecycle, Only, Result
  <1> QED BY <1>1, <1>2, <1>3, <1>4, <1>5, <1>6, <1>7, <1>8, LateStep DEF Early

LEMMA StagedTyped ==
  ASSUME ReviewTyped, NEW s \in Slots PROVE Snapshot(Staged(s))
  <1> DEFINE exam == IF seed[s] = NoSeed THEN question ELSE seed[s].exam
             q == IF work[s] # NoQuestion THEN work[s] ELSE exam[s]
  <1>1. exam \in [Slots -> Some] /\ q \in Some
    BY DEF ReviewTyped, ContentTyped, StagingTyped, Snapshot
  <1>2. Staged(s).exam = [exam EXCEPT ![s] = q]
    BY DEF Staged
  <1>3. Staged(s).plans \in [Slots -> Item]
    BY DEF Staged, ReviewTyped, ContentTyped, StagingTyped, Snapshot
  <1> QED BY <1>1, <1>2, <1>3 DEF Snapshot

LEMMA PoolItems ==
  ASSUME ReviewTyped, NEW s \in Slots, NEW item \in Pool(s) PROVE item \in Item
  <1>1. Used(s) \subseteq Tasks
    BY StagedTyped DEF Used, Present, Snapshot, Item
  <1>2. item.task \in Tasks /\ item \in [task : Tasks, reuse : BOOLEAN]
    BY <1>1 DEF Pool
  <1> QED BY <1>2 DEF Item

LEMMA RecordedTyped ==
  ASSUME ReviewTyped, NEW s \in Slots
  PROVE  /\ MemoryTyped(Recorded(s)) /\ BudgetTyped(Tried(s))
         /\ BudgetTyped(budget[s]) /\ MemoryTyped(memory[s])
  BY DEF ReviewTyped, SpendingTyped, Recorded, Tried, MemoryTyped, BudgetTyped, MemoryFields,
     BudgetFields

\* Memory of a task that was taken from the pool.
LEMMA TakenTyped ==
  ASSUME NEW m, MemoryTyped(m), NEW task \in Tasks, NEW others
  PROVE  /\ MemoryTyped([m EXCEPT !.tried = @ \cup {task}, !.black = @ \cup others])
         /\ MemoryTyped([m EXCEPT !.black = @ \cup {task}])
         /\ MemoryTyped([m EXCEPT !.black = @ \cup others \cup {task}, !.tried = @ \cup {task}])
  BY DEF MemoryTyped, MemoryFields

LEMMA SpendsOn ==
  ASSUME ReviewTyped, NEW s \in Slots, NEW b, NEW m, BudgetTyped(b), MemoryTyped(m),
         budget' = [budget EXCEPT ![s] = b], memory' = [memory EXCEPT ![s] = m]
  PROVE  Spends(s)
  BY DEF ReviewTyped, SpendingTyped, Spends

\* The slot stays open, and there is no candidate.
LEMMA StaysOpen ==
  ASSUME ReviewTyped, NEW s \in Slots, NEW x, target' = [target EXCEPT ![s] = x],
         DOMAIN x = TargetFields, x.status \in Statuses \ {"none", "pending"},
         UNCHANGED cand, Spends(s)
  PROVE  Result(s)
  BY DEF ReviewTyped, TargetsTyped, StagingTyped, Result, Only, TargetTyped

LEMMA FailedSafe ==
  ASSUME ReviewTyped, NEW s \in Slots, NEW b, NEW m, BudgetTyped(b), MemoryTyped(m), Failed(s, b, m)
  PROVE  Result(s)
  <1>1. /\ BudgetTyped([b EXCEPT !.generation = b.generation + 1])
        /\ MemoryTyped([m EXCEPT !.force = TRUE])
    BY DEF BudgetTyped, MemoryTyped, BudgetFields, MemoryFields
  <1>2. Spends(s) /\ UNCHANGED cand
    BY <1>1, SpendsOn DEF Failed
  <1> DEFINE x == [target[s] EXCEPT
                     !.status = IF Terminal(b, b.generation + 1, Limit(s)) THEN "terminal" ELSE "invalid",
                     !.why = IF Terminal(b, b.generation + 1, Limit(s)) THEN "spent" ELSE "generation",
                     !.last = "other", !.open = TRUE]
  <1>3. target' = [target EXCEPT ![s] = x]
    BY DEF Failed
  <1>4. DOMAIN x = TargetFields /\ x.status \in {"terminal", "invalid"}
    BY DEF ReviewTyped, TargetsTyped, TargetTyped, TargetFields
  <1> HIDE DEF x
  <1> QED BY <1>2, <1>3, <1>4, StaysOpen DEF Statuses

LEMMA OfferedSafe ==
  ASSUME ReviewTyped, NEW s \in Slots, NEW b, NEW m, NEW plans \in [Slots -> Item],
         NEW made \in Question, NEW act, BudgetTyped(b), MemoryTyped(m),
         Offered(s, b, m, plans, made, act)
  PROVE  Result(s)
  <1>1. DOMAIN target[s] = TargetFields
    BY DEF ReviewTyped, TargetsTyped, TargetTyped
  <1>2. CASE m.checked[plans[s].task] >= MaxAssignment
    <2> DEFINE x == [target[s] EXCEPT !.status = IF CompletionSpent(b) THEN "terminal" ELSE "invalid",
                                      !.why = "assignment", !.type = "replace"]
    <2>1. target' = [target EXCEPT ![s] = x] /\ UNCHANGED cand /\ Spends(s)
      BY <1>2, SpendsOn DEF Offered
    <2>2. DOMAIN x = TargetFields /\ x.status \in {"terminal", "invalid"}
      BY <1>1 DEF TargetFields
    <2> HIDE DEF x
    <2> QED BY <2>1, <2>2, StaysOpen DEF Statuses
  <1>3. CASE ~(m.checked[plans[s].task] >= MaxAssignment) /\ made \in m.rejected
    <2> DEFINE x == [target[s] EXCEPT
                       !.status = IF (Spent(s) \/ target[s].status = "blocked") /\ CompletionSpent(b)
                                  THEN "terminal" ELSE "invalid",
                       !.why = "identical", !.last = "other", !.open = TRUE]
    <2>0. MemoryTyped([m EXCEPT !.force = TRUE])
      BY DEF MemoryTyped, MemoryFields
    <2>1. target' = [target EXCEPT ![s] = x] /\ UNCHANGED cand /\ Spends(s)
      BY <1>3, <2>0, SpendsOn DEF Offered
    <2>2. DOMAIN x = TargetFields /\ x.status \in {"terminal", "invalid"}
      BY <1>1 DEF TargetFields
    <2> HIDE DEF x
    <2> QED BY <2>1, <2>2, StaysOpen DEF Statuses
  <1>4. CASE ~(m.checked[plans[s].task] >= MaxAssignment) /\ made \notin m.rejected
    <2>1. /\ cand' = [cand EXCEPT ![s] =
               [exam |-> [Staged(s).exam EXCEPT ![s] = made], plans |-> plans, act |-> act,
                why |-> target[s].why, base |-> <<plan[s], question[s]>>, retries |-> 0]]
          /\ target' = [target EXCEPT ![s] = [@ EXCEPT !.status = "candidate", !.open = FALSE]]
          /\ budget' = [budget EXCEPT ![s] = b]
          /\ memory' = [memory EXCEPT ![s] = [m EXCEPT !.checked[plans[s].task] = @ + 1]]
      BY <1>4 DEF Offered
    <2>2. MemoryTyped([m EXCEPT !.checked[plans[s].task] = @ + 1])
      BY DEF MemoryTyped, MemoryFields
    <2>3. Spends(s)
      BY <2>1, <2>2, SpendsOn
    <2>4. Snapshot(Staged(s))
      BY StagedTyped
    <2>5. /\ DOMAIN cand'[s] = CandFields /\ Snapshot(cand'[s]) /\ cand'[s].exam[s] \in Question
      BY <2>1, <2>4 DEF ReviewTyped, StagingTyped, CandFields, Snapshot, Some
    <2>6. Only(s) /\ TargetTyped(target'[s]) /\ target'[s].status = "candidate"
      BY <1>1, <2>1 DEF ReviewTyped, StagingTyped, TargetsTyped, TargetTyped, TargetFields, Statuses, Only
    <2> QED BY <2>3, <2>5, <2>6 DEF Result
  <1> QED BY <1>2, <1>3, <1>4

LEMMA RewrittenIsQuestion ==
  ASSUME ReviewTyped, NEW s \in Slots, NEW text \in Texts
  PROVE  /\ Rewritten(s, text) \in Question
         /\ [task |-> Staged(s).plans[s].task, text |-> text] \in Question
         /\ Staged(s).plans[s].task \in Tasks
         /\ Staged(s).exam[s] # NoQuestion => Staged(s).exam[s].task \in Tasks
  <1>1. Staged(s).plans[s].task \in Tasks /\ Staged(s).exam[s] \in Some
    BY StagedTyped DEF Snapshot, Item
  <1>2. Staged(s).exam[s] # NoQuestion => Staged(s).exam[s].task \in Tasks
    BY <1>1 DEF Some, Question
  <1> QED BY <1>1, <1>2 DEF Rewritten, Question

\* The steps that make no question.
LEMMA ClosingSafe ==
  ASSUME IInv, NEW s \in Slots,
         \/ CloseSpent(s) \/ NoProgress(s) \/ NoReplacement(s) \/ Unbound(s) \/ Misrouted(s),
         UNCHANGED poolVars
  PROVE  IInv'
  <1>0. ReviewTyped /\ work \in [Slots -> Some]
    BY DEF IInv, ReviewTyped, StagingTyped
  <1>1. /\ Repairing(s) /\ Visited(s)
        /\ UNCHANGED <<content, staging, accepted, record, node>>
    BY DEF CloseSpent, NoProgress, NoReplacement, Unbound, Misrouted, Repairer,
       Underway, Taken
  <1>2. /\ DOMAIN target[s] = TargetFields
        /\ BudgetTyped(budget[s]) /\ MemoryTyped(memory[s]) /\ MemoryTyped(Recorded(s))
        /\ BudgetTyped(Tried(s))
    BY <1>0, RecordedTyped DEF ReviewTyped, TargetsTyped, TargetTyped
  <1>3. Result(s)
    <2>1. CASE CloseSpent(s)
      <3>1. target' = [target EXCEPT ![s].status = "terminal", ![s].why = "spent"]
            /\ UNCHANGED <<cand, budget, memory>>
        BY <2>1 DEF CloseSpent, staging, spending
      <3>2. Only(s) /\ TargetTyped(target'[s]) /\ target'[s].status = "terminal" /\ Spends(s)
        BY <1>0, <1>2, <3>1 DEF ReviewTyped, StagingTyped, TargetsTyped, TargetTyped, TargetFields,
           Statuses, Only, SpendingTyped, Spends
      <3> QED BY <3>1, <3>2 DEF Result
    <2>2. CASE NoProgress(s)
      <3> DEFINE b == [budget[s] EXCEPT !.completion = Charged(s), !.attempts = @ + 1,
                                        !.failures = Capped(@)]
                 m == [memory[s] EXCEPT !.force = Recorded(s).force]
                 x == [target[s] EXCEPT !.status = "terminal", !.why = "stuck", !.open = TRUE]
      <3>a. budget' = [budget EXCEPT ![s] = b]
        BY <2>2 DEF NoProgress
      <3>b. memory' = [memory EXCEPT ![s] = m]
        BY <1>0, <2>2 DEF NoProgress, ReviewTyped, SpendingTyped
      <3>c. target' = [target EXCEPT ![s] = x]
        BY <2>2 DEF NoProgress
      <3>1. /\ budget' = [budget EXCEPT ![s] = b] /\ memory' = [memory EXCEPT ![s] = m]
            /\ target' = [target EXCEPT ![s] = x] /\ UNCHANGED cand
        BY <2>2, <3>a, <3>b, <3>c DEF NoProgress, staging
      <3>2. BudgetTyped(b) /\ MemoryTyped(m)
        BY <1>2, ExamAssumption DEF BudgetTyped, MemoryTyped, BudgetFields, MemoryFields, Capped
      <3>3. DOMAIN x = TargetFields /\ x.status = "terminal"
        BY <1>2 DEF TargetFields
      <3> HIDE DEF b, m, x
      <3>4. Spends(s)
        BY <1>0, <3>1, <3>2, SpendsOn
      <3> QED BY <1>0, <3>1, <3>3, <3>4, StaysOpen DEF Statuses
    <2>3. CASE NoReplacement(s)
      <3> DEFINE b == [budget[s] EXCEPT !.completion = Charged(s)]
                 x == [target[s] EXCEPT
                         !.status = IF Charged(s) >= MaxCompletion THEN "terminal" ELSE "completion",
                         !.why = IF Charged(s) >= MaxCompletion THEN "none left" ELSE "unavailable"]
      <3>1. /\ budget' = [budget EXCEPT ![s] = b] /\ memory' = [memory EXCEPT ![s] = Recorded(s)]
            /\ target' = [target EXCEPT ![s] = x] /\ UNCHANGED cand
        BY <1>0, <2>3 DEF NoReplacement, staging, ReviewTyped, SpendingTyped
      <3>2. BudgetTyped(b)
        BY <1>2 DEF BudgetTyped, BudgetFields
      <3>3. DOMAIN x = TargetFields /\ x.status \in {"terminal", "completion"}
        BY <1>2 DEF TargetFields
      <3> HIDE DEF b, x
      <3>4. Spends(s)
        BY <1>0, <1>2, <3>1, <3>2, SpendsOn
      <3> QED BY <1>0, <3>1, <3>3, <3>4, StaysOpen DEF Statuses
    <2>4. CASE Unbound(s)
      <3> DEFINE b == [budget[s] EXCEPT !.completion = Charged(s)]
                 x == [target[s] EXCEPT !.status = "invalid", !.why = "unbound"]
      <3>e. PICK item \in Pool(s) : \E others \in Rejected(s, item) :
              memory' = [memory EXCEPT ![s] =
                [Recorded(s) EXCEPT !.black = @ \cup others \cup {item.task},
                                    !.tried = @ \cup {item.task}]]
        BY <2>4 DEF Unbound
      <3>0. PICK others \in Rejected(s, item) :
              memory' = [memory EXCEPT ![s] =
                [Recorded(s) EXCEPT !.black = @ \cup others \cup {item.task},
                                    !.tried = @ \cup {item.task}]]
        BY <3>e
      <3> DEFINE m == [Recorded(s) EXCEPT !.black = @ \cup others \cup {item.task},
                                         !.tried = @ \cup {item.task}]
      <3>1. /\ budget' = [budget EXCEPT ![s] = b] /\ memory' = [memory EXCEPT ![s] = m]
            /\ target' = [target EXCEPT ![s] = x] /\ UNCHANGED cand
        BY <1>0, <2>4, <3>0 DEF Unbound, staging, ReviewTyped, SpendingTyped
      <3>2. BudgetTyped(b) /\ item.task \in Tasks
        BY <1>0, <1>2, PoolItems DEF BudgetTyped, BudgetFields, Item
      <3>3. DOMAIN x = TargetFields /\ x.status = "invalid"
        BY <1>2 DEF TargetFields
      <3>4. MemoryTyped(m)
        BY <1>2, <3>2, TakenTyped
      <3> HIDE DEF b, m, x
      <3>5. Spends(s)
        BY <1>0, <3>1, <3>2, <3>4, SpendsOn
      <3> QED BY <1>0, <3>1, <3>3, <3>5, StaysOpen DEF Statuses
    <2>5. CASE Misrouted(s)
      <3>0. PICK why \in {"conflict", "unroutable", "blocked"} :
              LET b == IF why = "conflict" THEN [Tried(s) EXCEPT !.failures = @ + 1] ELSE Tried(s)
                  status == CASE why = "blocked" -> "blocked"
                              [] why = "conflict" /\ b.failures < Limit(s) -> "invalid"
                              [] OTHER -> "terminal"
              IN /\ budget' = [budget EXCEPT ![s] = b]
                 /\ target' = [target EXCEPT ![s] =
                      [target[s] EXCEPT !.status = status, !.why = why, !.open = TRUE,
                                        !.last = IF why = "conflict" THEN "conflict" ELSE @]]
        BY <2>5 DEF Misrouted
      <3> DEFINE b == IF why = "conflict" THEN [Tried(s) EXCEPT !.failures = @ + 1] ELSE Tried(s)
                 status == CASE why = "blocked" -> "blocked"
                             [] why = "conflict" /\ b.failures < Limit(s) -> "invalid"
                             [] OTHER -> "terminal"
                 x == [target[s] EXCEPT !.status = status, !.why = why, !.open = TRUE,
                                        !.last = IF why = "conflict" THEN "conflict" ELSE @]
      <3>1. /\ budget' = [budget EXCEPT ![s] = b] /\ memory' = [memory EXCEPT ![s] = Recorded(s)]
            /\ UNCHANGED cand
        BY <2>5, <3>0 DEF Misrouted, staging
      <3>x. target' = [target EXCEPT ![s] = x]
        BY <3>0
      <3>2. BudgetTyped(b)
        BY <1>2 DEF BudgetTyped, BudgetFields
      <3>3. DOMAIN x = TargetFields /\ x.status \in {"blocked", "invalid", "terminal"}
        BY <1>2 DEF TargetFields
      <3> HIDE DEF b, x
      <3>4. Spends(s)
        BY <1>0, <1>2, <3>1, <3>2, SpendsOn
      <3> QED BY <1>0, <3>1, <3>x, <3>3, <3>4, StaysOpen DEF Statuses
    <2> QED BY <2>1, <2>2, <2>3, <2>4, <2>5
  <1> QED BY <1>0, <1>1, <1>3, RepairStep DEF staging

\* The steps that make a question, or fail to.
LEMMA AfterTyped ==
  ASSUME ReviewTyped, NEW s \in Slots, NEW n \in Proposals(s) PROVE BudgetTyped(After(s, n))
  <1>1. n.calls \in 0..MaxCalls /\ n.failures \in Nat
    BY ExamAssumption DEF ReviewTyped, SpendingTyped, BudgetTyped, Proposals
  <1> QED BY <1>1 DEF After, Tried, BudgetTyped, BudgetFields, ReviewTyped, SpendingTyped

LEMMA MakingSafe ==
  ASSUME IInv, NEW s \in Slots,
         \/ Regenerate(s) \/ Replace(s) \/ Adjust(s)
         \/ RepairCompletes(s) \/ RepairExhausted(s) \/ RepairOutage(s),
         UNCHANGED poolVars
  PROVE  IInv'
  <1>0. ReviewTyped /\ work \in [Slots -> Some]
    BY DEF IInv, ReviewTyped, StagingTyped
  <1>1. /\ Repairing(s) /\ Visited(s)
        /\ UNCHANGED <<content, seed, accepted, record, node>>
    BY DEF Regenerate, Replace, Adjust, RepairCompletes, RepairExhausted, RepairOutage, Underway, Taken
  <1>2. /\ MemoryTyped(Recorded(s)) /\ BudgetTyped(Tried(s)) /\ Staged(s).plans \in [Slots -> Item]
        /\ \A text \in Texts :
             /\ Rewritten(s, text) \in Question
             /\ [task |-> Staged(s).plans[s].task, text |-> text] \in Question
    BY <1>0, RecordedTyped, StagedTyped, RewrittenIsQuestion DEF Snapshot
  <1>3. Result(s) /\ work' \in [Slots -> Some]
    <2>1. CASE Regenerate(s)
      <3>1. \/ \E text \in Texts :
                 Offered(s, Tried(s), Recorded(s), Staged(s).plans,
                         [task |-> Staged(s).plans[s].task, text |-> text], "regenerate")
            \/ Failed(s, Tried(s), Recorded(s))
        BY <2>1 DEF Regenerate
      <3>2. Result(s)
        BY <1>0, <1>2, <3>1, OfferedSafe, FailedSafe
      <3> QED BY <1>0, <2>1, <3>2 DEF Regenerate
    <2>2. CASE Replace(s)
      <3>e. PICK item \in Pool(s) : \E others \in Rejected(s, item) :
              LET m == [Recorded(s) EXCEPT !.tried = @ \cup {item.task}, !.black = @ \cup others]
                  plans == [Staged(s).plans EXCEPT ![s] = item]
              IN \/ \E text \in Texts :
                      Offered(s, Tried(s), m, plans, [task |-> item.task, text |-> text], "replace")
                 \/ Failed(s, Tried(s), [m EXCEPT !.black = @ \cup {item.task}])
        BY <2>2 DEF Replace
      <3>1. PICK others \in Rejected(s, item) :
              LET m == [Recorded(s) EXCEPT !.tried = @ \cup {item.task}, !.black = @ \cup others]
                  plans == [Staged(s).plans EXCEPT ![s] = item]
              IN \/ \E text \in Texts :
                      Offered(s, Tried(s), m, plans, [task |-> item.task, text |-> text], "replace")
                 \/ Failed(s, Tried(s), [m EXCEPT !.black = @ \cup {item.task}])
        BY <3>e
      <3> DEFINE m == [Recorded(s) EXCEPT !.tried = @ \cup {item.task}, !.black = @ \cup others]
                 plans == [Staged(s).plans EXCEPT ![s] = item]
      <3>2. item \in Item /\ item.task \in Tasks
        BY <1>0, PoolItems DEF Item
      <3>3. MemoryTyped(m) /\ MemoryTyped([m EXCEPT !.black = @ \cup {item.task}])
        <4>1. MemoryTyped(m)
          BY <1>2, <3>2, TakenTyped
        <4> HIDE DEF m
        <4> QED BY <3>2, <4>1, TakenTyped
      <3>4. plans \in [Slots -> Item] /\ \A text \in Texts : [task |-> item.task, text |-> text] \in Question
        BY <1>2, <3>2 DEF Question
      <3> HIDE DEF m, plans
      <3>5. \/ \E text \in Texts :
                 Offered(s, Tried(s), m, plans, [task |-> item.task, text |-> text], "replace")
            \/ Failed(s, Tried(s), [m EXCEPT !.black = @ \cup {item.task}])
        BY <3>1 DEF m, plans
      <3>6. Result(s)
        BY <1>0, <1>2, <3>3, <3>4, <3>5, OfferedSafe, FailedSafe
      <3> QED BY <1>0, <2>2, <3>6 DEF Replace
    <2>3. CASE Adjust(s)
      <3> DEFINE b == [Tried(s) EXCEPT !.adjusted = @ + 1]
                 plans == Staged(s).plans
                 there == Staged(s).exam[s]
                 same == IF there = NoQuestion THEN plans[s].task ELSE there.task
      <3>1. \/ \E text \in Texts :
                 Offered(s, b, Recorded(s), plans, [task |-> plans[s].task, text |-> text], "adjust")
            \/ \E text \in Texts :
                 Offered(s, b, Recorded(s), plans, [task |-> same, text |-> text], "adjust")
            \/ Failed(s, b, Recorded(s))
        BY <2>3 DEF Adjust
      <3>2. \A text \in Texts : [task |-> same, text |-> text] \in Question
        BY <1>0, RewrittenIsQuestion DEF Question
      <3>3. BudgetTyped(b)
        BY <1>2 DEF BudgetTyped, BudgetFields
      <3> HIDE DEF b, same
      <3>4. Result(s)
        BY <1>0, <1>2, <3>1, <3>2, <3>3, OfferedSafe, FailedSafe
      <3> QED BY <1>0, <2>3, <3>4 DEF Adjust
    <2>4. CASE RepairCompletes(s)
      <3>1. PICK n \in Proposals(s), text \in Texts :
              /\ Offered(s, After(s, n), Recorded(s), Staged(s).plans, Rewritten(s, text), "repair")
              /\ work' = [work EXCEPT ![s] = Rewritten(s, text)]
        BY <2>4 DEF RepairCompletes
      <3>2. Result(s)
        BY <1>0, <1>2, <3>1, AfterTyped, OfferedSafe
      <3> QED BY <1>0, <1>2, <3>1, <3>2 DEF Some
    <2>5. CASE RepairExhausted(s)
      <3>1. PICK n \in Proposals(s) :
              /\ Failed(s, After(s, n), Recorded(s))
              /\ \/ work' = [work EXCEPT ![s] = NoQuestion]
                 \/ \E text \in Texts : work' = [work EXCEPT ![s] = Rewritten(s, text)]
        BY <2>5 DEF RepairExhausted
      <3>2. Result(s)
        BY <1>0, <1>2, <3>1, AfterTyped, FailedSafe
      <3> QED BY <1>0, <1>2, <3>1, <3>2 DEF Some
    <2>6. CASE RepairOutage(s)
      <3>1. PICK n \in Proposals(s) :
              /\ budget' = [budget EXCEPT ![s] =
                   [@ EXCEPT !.operations = Outages(s), !.calls = n.calls, !.failures = n.failures]]
              /\ \/ UNCHANGED work
                 \/ work' = [work EXCEPT ![s] = NoQuestion]
                 \/ \E text \in Texts : work' = [work EXCEPT ![s] = Rewritten(s, text)]
        BY <2>6 DEF RepairOutage
      <3> DEFINE b == [budget[s] EXCEPT !.operations = Outages(s), !.calls = n.calls,
                                        !.failures = n.failures]
                 m == [memory[s] EXCEPT !.force = Recorded(s).force]
                 x == [target[s] EXCEPT
                         !.status = IF Outages(s) >= MaxGeneration THEN "blocked" ELSE "retry",
                         !.why = "operational", !.open = TRUE]
      <3>2. /\ BudgetTyped(budget[s]) /\ MemoryTyped(memory[s]) /\ DOMAIN target[s] = TargetFields
            /\ n.calls \in 0..MaxCalls /\ n.failures \in Nat
        BY <1>0, ExamAssumption
           DEF ReviewTyped, SpendingTyped, TargetsTyped, TargetTyped, BudgetTyped, Proposals
      <3>a. budget' = [budget EXCEPT ![s] = b]
        BY <3>1
      <3>b. memory' = [memory EXCEPT ![s] = m]
        BY <1>0, <2>6 DEF RepairOutage, ReviewTyped, SpendingTyped
      <3>c. target' = [target EXCEPT ![s] = x] /\ UNCHANGED cand
        BY <2>6 DEF RepairOutage
      <3>3. BudgetTyped(b) /\ MemoryTyped(m)
        BY <3>2 DEF BudgetTyped, MemoryTyped, BudgetFields, MemoryFields
      <3>4. DOMAIN x = TargetFields /\ x.status \in {"blocked", "retry"}
        BY <3>2 DEF TargetFields
      <3> HIDE DEF b, m, x
      <3>5. Spends(s)
        BY <1>0, <3>a, <3>b, <3>3, SpendsOn
      <3>6. Result(s)
        BY <1>0, <3>c, <3>4, <3>5, StaysOpen DEF Statuses
      <3> QED BY <1>0, <1>2, <3>1, <3>6 DEF Some
    <2> QED BY <2>1, <2>2, <2>3, <2>4, <2>5, <2>6
  <1> QED BY <1>1, <1>3, RepairStep

\* The coordinator refuses some of the candidates; those it keeps go to their review.
LEMMA ReserveSafe == ASSUME IInv, Reserve, UNCHANGED poolVars PROVE IInv'
  <1>1. PICK refused \in SUBSET {s \in Slots : cand[s] # NoCand} :
          /\ cand' = [s \in Slots |-> IF s \in refused THEN NoCand ELSE cand[s]]
          /\ target' = [s \in Slots |-> IF s \in refused
                                        THEN [target[s] EXCEPT !.status = "invalid", !.why = "reserved"]
                                        ELSE target[s]]
          /\ todo' = {s \in Slots : cand'[s] # NoCand}
    <2> DEFINE several == Cardinality({s \in Slots : target[s].status \notin {"none", "pending"}}) > 1
               refused == IF several THEN {s \in Slots : Reserved(s)} ELSE {}
    <2>1. refused \subseteq {s \in Slots : cand[s] # NoCand}
      BY DEF Reserved
    <2>2. /\ cand' = [s \in Slots |-> IF s \in refused THEN NoCand ELSE cand[s]]
          /\ target' = [s \in Slots |-> IF s \in refused
                                        THEN [target[s] EXCEPT !.status = "invalid", !.why = "reserved"]
                                        ELSE target[s]]
          /\ todo' = {s \in Slots : [t \in Slots |-> IF t \in refused THEN NoCand ELSE cand[t]][s] # NoCand}
      BY DEF Reserve
    <2> HIDE DEF refused
    <2>3. todo' = {s \in Slots : cand'[s] # NoCand}
      BY <2>2
    <2> QED BY <2>1, <2>2, <2>3
  <1>2. /\ node = "repair" /\ node' = "candidates" /\ budget' = Recalled
        /\ record' = Reconciled(verdict', target') /\ todo = {}
        /\ UNCHANGED <<content, seed, work, memory, accepted>>
    BY DEF Reserve, content
  <1>3. \A s \in Slots :
          /\ s \in refused => /\ cand'[s] = NoCand /\ target'[s].status = "invalid"
                              /\ target[s].status = "candidate"
          /\ s \notin refused => cand'[s] = cand[s] /\ target'[s] = target[s]
          /\ TargetTyped(target'[s])
    BY <1>1, <1>2 DEF IInv, Awaited, ReviewTyped, TargetsTyped, TargetTyped, TargetFields, Statuses
  <1>4. DOMAIN target' = Slots /\ DOMAIN cand' = Slots
    BY <1>1
  <1>5. /\ DOMAIN record' = Slots
        /\ \A s \in Slots :
             /\ DOMAIN record'[s] = {"passed", "failed", "status"} /\ Agrees(s)'
             /\ target'[s].status = "none" => record'[s].status \in {"none", "candidate", "pending"}
    BY <1>2, <1>3, <1>4, ReconciledAgrees
  <1>6. ContentTyped' /\ TargetsTyped' /\ FlowTyped' /\ Current'
    BY <1>1, <1>2, <1>3, <1>4, <1>5 DEF IInv, ReviewTyped, ContentTyped, TargetsTyped, TargetTyped,
       FlowTyped, Current, content
  <1>7. StagingTyped'
    BY <1>2, <1>3, <1>4 DEF IInv, ReviewTyped, StagingTyped, CandTyped
  <1>8. SpendingTyped'
    BY <1>2, RecalledTyped DEF IInv, ReviewTyped, SpendingTyped, BudgetTyped
  <1>9. Awaited'
    BY <1>1, <1>2, <1>3, <1>5 DEF IInv, Awaited, Waits, Agrees
  <1>10. Lifecycle'
    BY <1>2, <1>5 DEF Lifecycle
  <1> QED BY <1>2, <1>6, <1>7, <1>8, <1>9, <1>10, LateStep DEF Early, Reserve

-----------------------------------------------------------------------------
(* The threads of the pool.                                                *)

\* A step of one thread.
Alone(s) ==
  /\ DOMAIN thread' = Slots /\ \A t \in Slots : t # s => thread'[t] = thread[t]
  /\ ThreadTyped(thread'[s])

LEMMA EarlyStep ==
  ASSUME IInv, NEW s \in Slots, Turn(s), Alone(s), UNCHANGED <<node, reviewOnly>>,
         plan' \in [Slots -> Item], question' \in [Slots -> Some], items' \in [Slots -> Item],
         Turns', Undisturbed'
  PROVE  IInv'
  <1>1. node \in Early
    BY DEF Turn, Early
  <1>2. PoolTyped'
    BY DEF IInv, PoolTyped, Alone, ThreadTyped, Changing
  <1>3. ReviewTyped' /\ Untouched' /\ Awaited' /\ Lifecycle' /\ Assembled'
    BY <1>1 DEF IInv, reviewOnly, ReviewTyped, ContentTyped, TargetsTyped, TargetTyped, StagingTyped,
       SpendingTyped, FlowTyped, Untouched, Awaited, Waits, Lifecycle, Assembled,
       AcceptedWasReviewed, Early, staging, spending
  <1>4. Current'
    BY <1>1, <1>3 DEF Untouched, Current, NoVerdict
  <1> QED BY <1>2, <1>3, <1>4 DEF IInv

\* In the recovery nobody else has the turn of a slot that changes its task.
LEMMA TurnIsSingle ==
  ASSUME IInv, node = "shortfall", NEW s \in Slots, NEW t \in Slots, Turn(s), Turn(t) PROVE s = t
  <1>1. thread[s].pass \in Nat /\ thread[t].pass \in Nat /\ s \in Nat /\ t \in Nat
    BY ExamAssumption DEF IInv, PoolTyped, ThreadTyped
  <1>2. /\ s \in Busy /\ t \in Busy
        /\ thread[t].pass > thread[s].pass \/ (thread[t].pass = thread[s].pass /\ s <= t)
        /\ thread[s].pass > thread[t].pass \/ (thread[s].pass = thread[t].pass /\ t <= s)
    BY DEF Turn
  <1> QED BY <1>1, <1>2

LEMMA TurnsStay ==
  ASSUME IInv, NEW s \in Slots, Turn(s), Alone(s), UNCHANGED node,
         thread'[s].pc \in Changing => thread'[s].pass = thread[s].pass /\ thread[s].pc # "idle",
         thread[s].pass = 0 => thread'[s].pass = 0
  PROVE  Turns'
  <1>0. node = "pool" => \A t \in Slots : thread'[t].pass = 0
    BY DEF Alone, IInv, Turns
  <1> SUFFICES ASSUME node = "shortfall", NEW t \in Slots, thread'[t].pc \in Changing
               PROVE  Turn(t)'
    BY <1>0 DEF Turns, Changes
  <1>1. t = s
    <2>1. CASE t # s
      <3>1. Turn(t)
        BY <2>1 DEF Alone, IInv, Turns, Changes
      <3> QED BY <3>1, TurnIsSingle
    <2> QED BY <2>1
  <1>2. thread'[s].pass = thread[s].pass /\ thread'[s].pc # "idle"
    BY <1>1 DEF Changing
  <1>3. Busy' \subseteq Busy
    BY <1>1 DEF Busy, Alone
  <1>4. \A u \in Busy' : thread'[u].pass = thread[u].pass
    BY <1>2 DEF Busy, Alone
  <1>5. s \in Busy'
    BY <1>2 DEF Busy
  <1> QED BY <1>1, <1>2, <1>3, <1>4, <1>5 DEF Turn

\* A step that gives no slot another task and begins no change.
LEMMA CalmStep ==
  ASSUME IInv, NEW s \in Slots, Turn(s), Alone(s), UNCHANGED <<node, plan>>, raced => raced',
         thread'[s].pc \in Changing => thread[s].pc \in Changing /\ thread'[s].pass = thread[s].pass,
         thread'[s].pc # "chosen", thread[s].pass = 0 => thread'[s].pass = 0
  PROVE  Turns' /\ Undisturbed'
  <1>1. Turns'
    BY TurnsStay DEF Changing
  <1>2. Undisturbed'
    BY DEF IInv, Undisturbed, Changes, Alone
  <1> QED BY <1>1, <1>2

LEMMA FreshThread ==
  ASSUME NEW pc \in {"idle", "calling"}, NEW item, pc = "calling" => item \in Item, NEW pass \in Nat,
         NEW used
  PROVE  /\ ThreadTyped(Thread(pc, item, pass))
         /\ ThreadTyped([Thread(pc, item, pass) EXCEPT !.excluded = used])
         /\ Thread(pc, item, pass).pc = pc
         /\ [Thread(pc, item, pass) EXCEPT !.excluded = used].pc = pc
  BY DEF ThreadTyped, Thread, ThreadFields, Changing, Some

LEMMA EndedTyped ==
  ASSUME IInv, NEW s \in Slots, thread[s].pc # "idle"
  PROVE  /\ ThreadTyped(Ended(s)) /\ Ended(s).pc \in {"done", "calling", "entry", "idle"}
         /\ thread[s].pass = 0 => Ended(s).pass = 0
         /\ ThreadTyped([Ended(s) EXCEPT !.view = <<>>, !.pick = NoItem])
         /\ [Ended(s) EXCEPT !.view = <<>>, !.pick = NoItem].pc = Ended(s).pc
         /\ [Ended(s) EXCEPT !.view = <<>>, !.pick = NoItem].pass = Ended(s).pass
  <1>1. ThreadTyped(thread[s]) /\ thread[s].item \in Item
    BY DEF IInv, PoolTyped, ThreadTyped
  <1>2. /\ ThreadTyped(Ended(s)) /\ Ended(s).pc \in {"done", "calling", "entry", "idle"}
        /\ thread[s].pass = 0 => Ended(s).pass = 0
    <2>1. ThreadTyped(Idle) /\ Idle.pc = "idle"
      BY FreshThread DEF Idle
    <2>2. /\ ThreadTyped([Thread("calling", thread[s].item, thread[s].pass + 1)
                            EXCEPT !.excluded = thread[s].excluded])
          /\ [Thread("calling", thread[s].item, thread[s].pass + 1)
                EXCEPT !.excluded = thread[s].excluded].pc = "calling"
      <3>1. thread[s].pass + 1 \in Nat
        BY <1>1 DEF ThreadTyped
      <3> QED BY <1>1, <3>1 DEF ThreadTyped, Thread, ThreadFields, Changing, Some
    <2>3. \A pc \in {"done", "entry"} :
            LET t == [thread[s] EXCEPT !.pc = pc]
            IN (pc = "entry" => thread[s].pass # 0)
               => ThreadTyped(t) /\ t.pc = pc /\ t.pass = thread[s].pass
      BY <1>1 DEF ThreadTyped, ThreadFields, Changing
    <2>4. \/ thread[s].pass = 0 /\ Ended(s) = [thread[s] EXCEPT !.pc = "done"]
          \/ /\ thread[s].pass # 0
             /\ Ended(s) \in {Idle, [thread[s] EXCEPT !.pc = "entry"],
                              [Thread("calling", thread[s].item, thread[s].pass + 1)
                                 EXCEPT !.excluded = thread[s].excluded]}
      <3>1. 0 \notin 1..MaxPasses - 1 /\ MaxPasses # 0
        BY PoolAssumption
      <3> QED BY <3>1 DEF Ended
    <2> QED BY <2>1, <2>2, <2>3, <2>4
  <1>3. DOMAIN Ended(s) = ThreadFields
    BY <1>2 DEF ThreadTyped
  <1> QED BY <1>2, <1>3 DEF ThreadTyped, ThreadFields, Changing

LEMMA AgainTyped ==
  ASSUME IInv, NEW s \in Slots, thread[s].pc # "idle"
  PROVE  /\ ThreadTyped(Again(s)) /\ Again(s).pc \in {"done", "calling", "entry", "idle"}
         /\ thread[s].pass = 0 => Again(s).pass = 0
  <1>1. ThreadTyped(thread[s]) /\ thread[s].item \in Item
    BY DEF IInv, PoolTyped, ThreadTyped
  <1>2. LET t == [thread[s] EXCEPT !.pc = "calling", !.attempt = @ + 1]
        IN ThreadTyped(t) /\ t.pc = "calling" /\ t.pass = thread[s].pass
    BY <1>1 DEF ThreadTyped, ThreadFields, Changing
  <1> QED BY <1>2, EndedTyped DEF Again

LEMMA GoesAlone ==
  ASSUME IInv, NEW s \in Slots, NEW changed, Goes(s, changed), ThreadTyped(changed)
  PROVE  Alone(s) /\ thread'[s] = changed
  BY DEF IInv, PoolTyped, Goes, Alone

LEMMA PoolHere ==
  ASSUME IInv, NEW s \in Slots, Turn(s)
  PROVE  /\ node \in Early /\ items \in [Slots -> Item] /\ plan \in [Slots -> Item]
         /\ question \in [Slots -> Some] /\ ThreadTyped(thread[s]) /\ DOMAIN thread = Slots
  BY DEF Turn, Early, IInv, PoolTyped, ReviewTyped, ContentTyped

\* The calls of a slot, and its reading and writing of the second copy of the plan.
LEMMA CallsSafe ==
  ASSUME IInv, NEW s \in Slots,
         Written(s) \/ Unusable(s) \/ GivenUp(s) \/ Unsuitable(s) \/ Read(s) \/ Write(s)
  PROVE  IInv'
  <1>0. Turn(s) /\ thread[s].pc # "idle" /\ UNCHANGED <<node, plan, raced, reviewOnly>>
    BY DEF Written, Unusable, GivenUp, Unsuitable, Read, Write, At, content
  <1>1. /\ items \in [Slots -> Item] /\ plan \in [Slots -> Item] /\ question \in [Slots -> Some]
        /\ ThreadTyped(thread[s]) /\ thread[s].item \in Item
    BY <1>0, PoolHere DEF ThreadTyped
  <1>2. ASSUME NEW changed, Goes(s, changed), ThreadTyped(changed), changed.pc # "chosen",
               changed.pc \in Changing => thread[s].pc \in Changing /\ changed.pass = thread[s].pass,
               thread[s].pass = 0 => changed.pass = 0,
               question' \in [Slots -> Some], items' \in [Slots -> Item]
        PROVE  IInv'
    <2>1. Alone(s) /\ thread'[s] = changed
      BY <1>2, GoesAlone
    <2>2. Turns' /\ Undisturbed'
      BY <1>0, <1>2, <2>1, CalmStep
    <2> QED BY <1>0, <1>1, <1>2, <2>1, <2>2, EarlyStep
  <1>3. CASE Written(s)
    <2> DEFINE made == [task |-> thread[s].item.task, text |-> InitialText]
    <2>1. made \in Question
      BY <1>1, ExamAssumption DEF Question, Item
    <2>2. CASE thread[s].pass = 0
      <3> DEFINE changed == [thread[s] EXCEPT !.pc = "done", !.made = made]
      <3>1. ThreadTyped(changed) /\ changed.pc = "done" /\ changed.pass = thread[s].pass
        BY <1>1, <2>1 DEF ThreadTyped, ThreadFields, Changing, Some
      <3>2. Goes(s, changed) /\ UNCHANGED <<question, items>>
        BY <1>3, <2>2 DEF Written
      <3> HIDE DEF changed
      <3> QED BY <1>1, <1>2, <3>1, <3>2 DEF Changing
    <2>3. CASE thread[s].pass # 0
      <3>1. ThreadTyped(Idle) /\ Idle.pc = "idle" /\ Idle.pass = 0
        BY FreshThread DEF Idle, Thread
      <3>2. Goes(s, Idle) /\ question' = [question EXCEPT ![s] = made] /\ UNCHANGED items
        BY <1>3, <2>3 DEF Written
      <3>3. question' \in [Slots -> Some]
        BY <1>1, <2>1, <3>2 DEF Some
      <3> QED BY <1>1, <1>2, <3>1, <3>2, <3>3 DEF Changing
    <2> QED BY <2>2, <2>3
  <1>4. CASE Unusable(s)
    <2>1. Goes(s, Again(s)) /\ UNCHANGED <<question, items>>
      BY <1>4 DEF Unusable, content
    <2> QED BY <1>0, <1>1, <1>2, <2>1, AgainTyped DEF Changing
  <1>5. CASE GivenUp(s)
    <2>1. Goes(s, Ended(s)) /\ UNCHANGED <<question, items>>
      BY <1>5 DEF GivenUp, content
    <2> QED BY <1>0, <1>1, <1>2, <2>1, EndedTyped DEF Changing
  <1>6. CASE Unsuitable(s)
    <2> DEFINE changed == [thread[s] EXCEPT !.pc = "choosing",
                                            !.excluded = @ \cup {thread[s].item.task}]
    <2>1. ThreadTyped(changed) /\ changed.pc = "choosing" /\ changed.pass = thread[s].pass
      BY <1>1 DEF ThreadTyped, ThreadFields, Changing
    <2>2. Goes(s, changed) /\ UNCHANGED <<question, items>>
      BY <1>6 DEF Unsuitable, content
    <2> HIDE DEF changed
    <2> QED BY <1>1, <1>2, <2>1, <2>2 DEF Changing
  <1>7. CASE Read(s)
    <2> DEFINE changed == [thread[s] EXCEPT !.pc = "read", !.view = items]
    <2>0. thread[s].pc = "stored"
      BY <1>7 DEF Read, At
    <2>1. ThreadTyped(changed) /\ changed.pc = "read" /\ changed.pass = thread[s].pass
      BY <1>1, <2>0 DEF ThreadTyped, ThreadFields, Changing
    <2>2. Goes(s, changed) /\ UNCHANGED <<question, items>>
      BY <1>7 DEF Read, content
    <2> HIDE DEF changed
    <2> QED BY <1>1, <1>2, <2>0, <2>1, <2>2 DEF Changing
  <1>8. CASE Write(s)
    <2>0. thread[s].pc = "read" /\ UNCHANGED question
      BY <1>8 DEF Write, At, content
    <2>1. items' = [thread[s].view EXCEPT ![s] = thread[s].pick]
      BY <1>8 DEF Write
    <2>2. items' \in [Slots -> Item]
      BY <1>1, <2>0, <2>1 DEF ThreadTyped, Changing
    <2> DEFINE changed == [thread[s] EXCEPT !.pc = "calling", !.attempt = @ + 1,
                             !.item = thread[s].pick, !.view = <<>>, !.pick = NoItem]
               ended == [Ended(s) EXCEPT !.view = <<>>, !.pick = NoItem]
    <2>3. ThreadTyped(changed) /\ changed.pc = "calling" /\ changed.pass = thread[s].pass
      BY <1>1, <2>0 DEF ThreadTyped, ThreadFields, Changing
    <2>4. /\ ThreadTyped(ended) /\ ended.pc \in {"done", "calling", "entry", "idle"}
          /\ thread[s].pass = 0 => ended.pass = 0
      BY <1>0, EndedTyped
    <2>5. Goes(s, changed) \/ Goes(s, ended)
      BY <1>8 DEF Write
    <2> HIDE DEF changed, ended
    <2> QED BY <1>1, <1>2, <2>0, <2>2, <2>3, <2>4, <2>5 DEF Changing
  <1> QED BY <1>3, <1>4, <1>5, <1>6, <1>7, <1>8

LEMMA CompatibleItems ==
  ASSUME IInv, NEW s \in Slots, NEW item \in Compatible(s)
  PROVE  /\ item \in Item
         /\ \A t \in Slots : t # s => item.reuse \/ plan[t].task # item.task
  <1> DEFINE used == {plan[t].task : t \in Slots \ {s}}
             free == Tasks \ (Refused(s) \cup used)
  <1>1. used \subseteq Tasks
    BY DEF IInv, ReviewTyped, ContentTyped, Item
  <1>2. CASE free # {}
    <2>1. item \in [task : free, reuse : {FALSE}]
      BY <1>2 DEF Compatible
    <2>2. item.task \in Tasks /\ item.task \notin used /\ item \in Item
      BY <2>1 DEF Item
    <2> QED BY <2>2
  <1>3. CASE free = {}
    <2>1. item \in [task : used \ Refused(s), reuse : {TRUE}]
      BY <1>3 DEF Compatible
    <2>2. item.reuse = TRUE /\ item \in Item
      BY <1>1, <2>1 DEF Item
    <2> QED BY <2>2
  <1> QED BY <1>2, <1>3

LEMMA ChooseSafe == ASSUME IInv, NEW s \in Slots, Choose(s) PROVE IInv'
  <1>0. /\ Turn(s) /\ thread[s].pc = "choosing"
        /\ UNCHANGED <<node, plan, question, items, reviewOnly>>
        /\ raced' = (raced \/ \E t \in Slots \ {s} : thread[t].pc \in Changing)
    BY DEF Choose, At, content
  <1>1. /\ node \in Early /\ items \in [Slots -> Item] /\ plan \in [Slots -> Item]
        /\ question \in [Slots -> Some] /\ ThreadTyped(thread[s])
    BY <1>0, PoolHere
  <1>2. CASE Goes(s, Again(s))
    <2>1. /\ Alone(s) /\ thread'[s].pc \in {"done", "calling", "entry", "idle"}
          /\ thread[s].pass = 0 => thread'[s].pass = 0
      BY <1>0, <1>2, AgainTyped, GoesAlone
    <2>2. raced => raced'
      BY <1>0
    <2>3. Turns' /\ Undisturbed'
      BY <1>0, <2>1, <2>2, CalmStep DEF Changing
    <2> QED BY <1>0, <1>1, <2>1, <2>3, EarlyStep
  <1>3. ASSUME NEW item \in Compatible(s), Goes(s, [thread[s] EXCEPT !.pc = "chosen", !.pick = item])
        PROVE  IInv'
    <2> DEFINE changed == [thread[s] EXCEPT !.pc = "chosen", !.pick = item]
    <2>1. item \in Item /\ \A t \in Slots : t # s => item.reuse \/ plan[t].task # item.task
      BY <1>3, CompatibleItems
    <2>2. /\ ThreadTyped(changed) /\ changed.pc = "chosen" /\ changed.pick = item
          /\ changed.pass = thread[s].pass
      BY <1>0, <1>1, <2>1 DEF ThreadTyped, ThreadFields, Changing
    <2>3. Goes(s, changed)
      BY <1>3
    <2> HIDE DEF changed
    <2>4. Alone(s) /\ thread'[s] = changed
      BY <2>2, <2>3, GoesAlone
    <2>5. Turns'
      BY <1>0, <2>2, <2>4, TurnsStay
    <2>6. Undisturbed'
      <3> SUFFICES ASSUME ~raced', NEW r \in Slots, NEW t \in Slots, r # t
                   PROVE  /\ ~(Changes(r) /\ Changes(t))'
                          /\ thread'[r].pc = "chosen" =>
                               thread'[r].pick.reuse \/ plan[t].task # thread'[r].pick.task
                          /\ plan[r].task = plan[t].task => plan[r].reuse \/ plan[t].reuse
        BY <1>0 DEF Undisturbed
      <3>1. ~raced /\ \A u \in Slots : u # s => thread[u].pc \notin Changing
        BY <1>0
      <3>2. \A u \in Slots : u # s => thread'[u].pc \notin Changing /\ thread'[u].pc # "chosen"
        BY <2>4, <3>1 DEF Alone, Changing
      <3>3. plan[r].task = plan[t].task => plan[r].reuse \/ plan[t].reuse
        BY <1>1, <3>1 DEF IInv, Undisturbed
      <3> QED BY <2>1, <2>2, <2>4, <3>2, <3>3 DEF Changes
    <2> QED BY <1>0, <1>1, <2>4, <2>5, <2>6, EarlyStep
  <1> QED BY <1>2, <1>3 DEF Choose

LEMMA StoreSafe == ASSUME IInv, NEW s \in Slots, Store(s) PROVE IInv'
  <1>0. /\ Turn(s) /\ thread[s].pc = "chosen" /\ plan' = [plan EXCEPT ![s] = thread[s].pick]
        /\ UNCHANGED <<node, question, items, raced, reviewOnly>>
    BY DEF Store, At
  <1>1. /\ node \in Early /\ items \in [Slots -> Item] /\ plan \in [Slots -> Item]
        /\ question \in [Slots -> Some] /\ ThreadTyped(thread[s]) /\ thread[s].pick \in Item
    BY <1>0, PoolHere DEF ThreadTyped, Changing
  <1> DEFINE changed == [thread[s] EXCEPT !.pc = "stored"]
  <1>2. ThreadTyped(changed) /\ changed.pc = "stored" /\ changed.pass = thread[s].pass
    BY <1>0, <1>1 DEF ThreadTyped, ThreadFields, Changing
  <1>3. Goes(s, changed)
    BY DEF Store
  <1> HIDE DEF changed
  <1>4. Alone(s) /\ thread'[s] = changed
    BY <1>2, <1>3, GoesAlone
  <1>5. Turns'
    BY <1>0, <1>2, <1>4, TurnsStay
  <1>6. Undisturbed'
    <2> SUFFICES ASSUME ~raced, NEW r \in Slots, NEW t \in Slots, r # t
                 PROVE  /\ ~(Changes(r) /\ Changes(t))'
                        /\ thread'[r].pc # "chosen"
                        /\ plan'[r].task = plan'[t].task => plan'[r].reuse \/ plan'[t].reuse
      BY <1>0 DEF Undisturbed
    <2>1. /\ \A u \in Slots : u # s => ~Changes(u)
          /\ \A u \in Slots : u # s => thread[s].pick.reuse \/ plan[u].task # thread[s].pick.task
          /\ plan[r].task = plan[t].task => plan[r].reuse \/ plan[t].reuse
      BY <1>0, <1>1 DEF IInv, Undisturbed, Changes, Changing
    <2>2. \A u \in Slots : u # s => thread'[u].pc \notin Changing
      BY <1>4, <2>1 DEF Alone, Changes
    <2>3. ~(Changes(r) /\ Changes(t))' /\ thread'[r].pc # "chosen"
      BY <1>2, <1>4, <2>2 DEF Changes, Changing
    <2>4. plan'[s] = thread[s].pick /\ \A u \in Slots : u # s => plan'[u] = plan[u]
      BY <1>0, <1>1
    <2> QED BY <2>1, <2>3, <2>4
  <1>7. plan' \in [Slots -> Item]
    BY <1>0, <1>1
  <1> QED BY <1>0, <1>1, <1>4, <1>5, <1>6, <1>7, EarlyStep

LEMMA EntrySafe == ASSUME IInv, NEW s \in Slots, ReplaceEntry(s) PROVE IInv'
  <1>0. /\ Turn(s) /\ thread[s].pc = "entry" /\ UNCHANGED <<node, question, raced, reviewOnly>>
    BY DEF ReplaceEntry, At
  <1>n. node = "shortfall" /\ thread[s].pass # 0
    BY <1>0 DEF IInv, PoolTyped, ThreadTyped, Turns, Turn
  <1>1. /\ node \in Early /\ items \in [Slots -> Item] /\ plan \in [Slots -> Item]
        /\ question \in [Slots -> Some] /\ ThreadTyped(thread[s])
    BY <1>0, PoolHere
  <1>2. CASE Goes(s, Idle) /\ UNCHANGED <<plan, items>>
    <2>0. ThreadTyped(Idle) /\ Idle.pc = "idle"
      BY FreshThread DEF Idle
    <2>1. Alone(s) /\ thread'[s].pc = "idle"
      BY <1>2, <2>0, GoesAlone
    <2>2. Turns' /\ Undisturbed'
      BY <1>0, <1>n, <1>2, <2>1, CalmStep DEF Changing
    <2> QED BY <1>0, <1>1, <1>2, <2>1, <2>2, EarlyStep
  <1>3. ASSUME NEW item \in Compatible(s), plan' = [plan EXCEPT ![s] = item],
               items' = [items EXCEPT ![s] = item], Goes(s, Thread("calling", item, MaxPasses + 1))
        PROVE  IInv'
    <2>1. item \in Item /\ \A t \in Slots : t # s => item.reuse \/ plan[t].task # item.task
      BY <1>3, CompatibleItems
    <2>2. MaxPasses + 1 \in Nat
      BY PoolAssumption
    <2>3. ThreadTyped(Thread("calling", item, MaxPasses + 1))
          /\ Thread("calling", item, MaxPasses + 1).pc = "calling"
      BY <2>1, <2>2, FreshThread
    <2>4. Alone(s) /\ thread'[s].pc = "calling"
      BY <1>3, <2>3, GoesAlone
    <2>5. Turns'
      BY <1>0, <1>n, <2>4, TurnsStay DEF Changing
    <2>6. Undisturbed'
      <3> SUFFICES ASSUME ~raced, NEW r \in Slots, NEW t \in Slots, r # t
                   PROVE  /\ ~(Changes(r) /\ Changes(t))'
                          /\ thread'[r].pc = "chosen" =>
                               thread'[r].pick.reuse \/ plan'[t].task # thread'[r].pick.task
                          /\ plan'[r].task = plan'[t].task => plan'[r].reuse \/ plan'[t].reuse
        BY <1>0 DEF Undisturbed
      <3>1. \A u \in Slots : thread[u].pc \notin Changing
        <4> SUFFICES ASSUME NEW u \in Slots, Changes(u) PROVE FALSE
          BY DEF Changes
        <4>1. u = s
          BY <1>0, <1>n, TurnIsSingle DEF IInv, Turns
        <4> QED BY <1>0, <4>1 DEF Changes, Changing
      <3>2. \A u \in Slots : thread'[u].pc \notin Changing
        BY <2>4, <3>1 DEF Alone, Changing
      <3>3. plan[r].task = plan[t].task => plan[r].reuse \/ plan[t].reuse
        BY <1>1 DEF IInv, Undisturbed
      <3>4. plan'[s] = item /\ \A u \in Slots : u # s => plan'[u] = plan[u]
        BY <1>1, <1>3
      <3> QED BY <2>1, <3>2, <3>3, <3>4 DEF Changes, Changing
    <2>7. plan' \in [Slots -> Item] /\ items' \in [Slots -> Item]
      BY <1>1, <1>3, <2>1
    <2> QED BY <1>0, <1>1, <2>4, <2>5, <2>6, <2>7, EarlyStep
  <1> QED BY <1>2, <1>3 DEF ReplaceEntry

LEMMA CollectSafe == ASSUME IInv, Collect PROVE IInv'
  <1>0. /\ node = "pool" /\ node' = "shortfall"
        /\ UNCHANGED <<plan, raced, items, reviewOnly>>
        /\ question' = [s \in Slots |-> thread[s].made]
    BY DEF Collect
  <1>1. /\ DOMAIN thread' = Slots
        /\ \A s \in Slots : ThreadTyped(thread'[s]) /\ thread'[s].pc \in {"idle", "calling"}
    <2>1. \A s \in Slots : ThreadTyped(thread[s]) /\ items[s] \in Item
      BY <1>0 DEF IInv, PoolTyped, Early
    <2>2. ThreadTyped(Idle) /\ Idle.pc = "idle"
      BY FreshThread DEF Idle
    <2>3. \A s \in Slots :
            LET t == [Thread("calling", items[s], 1) EXCEPT !.excluded = thread[s].excluded]
            IN ThreadTyped(t) /\ t.pc = "calling"
      BY <2>1 DEF ThreadTyped, Thread, ThreadFields, Changing, Some
    <2>4. /\ DOMAIN thread' = Slots
          /\ \A s \in Slots :
               \/ thread'[s] = Idle
               \/ thread'[s] = [Thread("calling", items[s], 1) EXCEPT !.excluded = thread[s].excluded]
      BY DEF Collect
    <2> QED BY <2>2, <2>3, <2>4
  <1>2. question' \in [Slots -> Some]
    BY <1>0 DEF IInv, PoolTyped, ThreadTyped
  <1>3. ReviewTyped' /\ Untouched' /\ Awaited' /\ Lifecycle' /\ Assembled'
    BY <1>0, <1>2 DEF IInv, reviewOnly, ReviewTyped, ContentTyped, TargetsTyped, TargetTyped,
       StagingTyped, SpendingTyped, FlowTyped, Untouched, Awaited, Waits, Lifecycle, Assembled,
       AcceptedWasReviewed, Early, staging, spending
  <1>4. Current'
    BY <1>0, <1>3 DEF Untouched, Current, NoVerdict, Early
  <1>5. PoolTyped'
    BY <1>0, <1>1 DEF IInv, PoolTyped, ThreadTyped, Early
  <1>6. Turns' /\ Undisturbed'
    BY <1>0, <1>1 DEF IInv, Turns, Undisturbed, Changes, Changing, Early
  <1> QED BY <1>3, <1>4, <1>5, <1>6 DEF IInv

LEMMA HandoverSafe == ASSUME IInv, Handover PROVE IInv'
  <1>0. /\ node = "shortfall" /\ node' = "candidates"
        /\ UNCHANGED <<content, reviewOnly, thread>>
    BY DEF Handover
  <1>1. \A s \in Slots : cand[s] = NoCand /\ target[s] = NoTarget /\ record[s] = NoRecord /\ todo = {}
    BY <1>0 DEF IInv, Untouched, Early
  <1>2. ReviewTyped' /\ Current' /\ Assembled'
    BY <1>0 DEF IInv, content, reviewOnly, ReviewTyped, ContentTyped, TargetsTyped, TargetTyped,
       StagingTyped, SpendingTyped, FlowTyped, Current, Assembled, AcceptedWasReviewed, staging,
       spending, Early
  <1>3. Awaited' /\ Lifecycle'
    BY <1>0, <1>1 DEF reviewOnly, staging, Awaited, Waits, Lifecycle, NoRecord
  <1>4. PoolTyped' /\ Turns' /\ Undisturbed' /\ Untouched'
    BY <1>0 DEF IInv, PoolTyped, ThreadTyped, Turns, Undisturbed, Untouched, Early
  <1> QED BY <1>2, <1>3, <1>4 DEF IInv

-----------------------------------------------------------------------------
(* The invariant holds initially and is preserved.                         *)

LEMMA Initially == PoolInit => IInv
  <1> SUFFICES ASSUME PoolInit PROVE IInv
    OBVIOUS
  <1>1. /\ plan = InitialPlan /\ question = [s \in Slots |-> NoQuestion]
        /\ verdict = [s \in Slots |-> NoVerdict] /\ target = [s \in Slots |-> NoTarget]
        /\ cand = [s \in Slots |-> NoCand] /\ seed = [s \in Slots |-> NoSeed]
        /\ work = [s \in Slots |-> NoQuestion]
        /\ budget = [s \in Slots |-> NoBudget] /\ memory = [s \in Slots |-> NoMemory]
        /\ record = [s \in Slots |-> NoRecord] /\ accepted = {}
        /\ node = "pool" /\ todo = {} /\ items = plan /\ raced = FALSE
        /\ thread = [s \in Slots |-> Thread("calling", plan[s], 0)]
    BY DEF PoolInit, Init
  <1>2. ContentTyped
    BY <1>1, ExamAssumption DEF ContentTyped, Some, NoVerdict, Verdict
  <1>3. TargetsTyped /\ StagingTyped
    BY <1>1 DEF TargetsTyped, TargetTyped, TargetFields, NoTarget, Statuses, StagingTyped,
       CandTyped, Some
  <1>4. SpendingTyped
    BY <1>1, ExamAssumption DEF SpendingTyped, BudgetTyped, BudgetFields, NoBudget, MemoryTyped,
       MemoryFields, NoMemory
  <1>5. FlowTyped
    BY <1>1 DEF FlowTyped, NoRecord
  <1>6. Untouched /\ Current /\ Awaited /\ Lifecycle /\ Assembled
    BY <1>1 DEF Untouched, Current, Awaited, Lifecycle, Assembled, AcceptedWasReviewed, NoVerdict,
       NoTarget, NoRecord, NoCand
  <1>7. \A s \in Slots : /\ ThreadTyped(thread[s]) /\ thread[s].pc = "calling"
                         /\ thread[s].pass = 0
    BY <1>1, ExamAssumption DEF Thread, ThreadTyped, ThreadFields, Changing, Some
  <1>8. PoolTyped /\ Turns /\ Undisturbed
    BY <1>1, <1>7, ExamAssumption DEF PoolTyped, Turns, Undisturbed, Changes, Changing
  <1> QED BY <1>2, <1>3, <1>4, <1>5, <1>6, <1>8 DEF IInv, ReviewTyped

LEMMA Unchanged == ASSUME IInv, UNCHANGED <<vars, poolVars>> PROVE IInv'
  BY DEF IInv, vars, poolVars, content, staging, spending, flow, ReviewTyped, ContentTyped,
     TargetsTyped, TargetTyped, StagingTyped, CandTyped, Snapshot, SpendingTyped, BudgetTyped,
     MemoryTyped, FlowTyped, Untouched, Current, Awaited, Waits, Lifecycle, Agrees, Passes, Open,
     Assembled, AcceptedWasReviewed, StillWaiting, PoolTyped, ThreadTyped, Turns, Turn, Busy,
     Undisturbed, Changes

LEMMA Steps == IInv /\ [ExamNext]_allVars => IInv'
  <1> SUFFICES ASSUME IInv, [ExamNext]_allVars PROVE IInv'
    OBVIOUS
  <1>1. CASE \E s \in Slots : Generating(s)
    BY <1>1, CallsSafe, ChooseSafe, StoreSafe, EntrySafe DEF Generating
  <1>2. CASE Collect \/ Handover
    BY <1>2, CollectSafe, HandoverSafe
  <1>3. CASE Next /\ UNCHANGED poolVars
    <2>1. ASSUME NEW s \in Slots, Drop(s) \/ Commit(s) \/ Postpone(s) \/ Reject(s) PROVE IInv'
      BY <1>3, <2>1, DropSafe, CommitSafe, PostponeSafe, RejectSafe
    <2>2. ASSUME NEW s \in Slots, Repair(s) PROVE IInv'
      BY <1>3, <2>2, ClosingSafe, MakingSafe DEF Repair
    <2>3. CASE Review \/ ScanFinds \/ ScanPasses \/ ScanFails \/ Reserve
      BY <1>3, <2>3, ReviewSafe, ScanSafe, ReserveSafe
    <2>4. CASE RouteToValidation \/ RouteToRepair \/ Assemble
      BY <1>3, <2>4, RouteSafe, AssembleSafe
    <2>5. CASE UNCHANGED vars
      BY <1>3, <2>5, Unchanged
    <2> QED BY <1>3, <2>1, <2>2, <2>3, <2>4, <2>5 DEF Next, Done
  <1>4. CASE UNCHANGED allVars
    BY <1>4, Unchanged DEF allVars
  <1> QED BY <1>1, <1>2, <1>3, <1>4 DEF ExamNext

LEMMA Holds == Spec => []IInv
  BY Initially, Steps, PTL DEF Spec

\* Every variable of the exam's review keeps its type, and no slot spends more content
\* repair calls than MAX_CONTENT_REPAIR_CALLS_PER_SLOT, whatever the strategies of the
\* rounds and however often a target is taken up again (_repair_invalid_questions_serial).
THEOREM TypesHold == Spec => []TypeOK
  <1>1. IInv => TypeOK
    BY DEF IInv, ReviewTyped, ContentTyped, TargetsTyped, TargetTyped, Statuses, StagingTyped,
       SpendingTyped, BudgetTyped, MemoryTyped, FlowTyped, TypeOK, Some
  <1> QED BY <1>1, Holds, PTL

\* What assemble_exams_node accepts is, to the letter, what the reviewers passed for the
\* task its slot has now, and nothing that passed without an open finding is left out,
\* however candidates, balancing, scans and replacements took turns before.
THEOREM AcceptedHolds == Spec => []AcceptedWasReviewed
  <1>1. IInv => AcceptedWasReviewed
    BY DEF IInv, Assembled
  <1> QED BY <1>1, Holds, PTL

\* However the threads of replace_unsuitable_mcq_task take turns over the shared plans,
\* and whatever the recovery of missing slots replaces, two slots share a task without a
\* contract of reuse only after two of them changed their tasks at the same time.
THEOREM TwinsHold == Spec => []TwinsOnlyByRace
  <1>1. IInv => TwinsOnlyByRace
    BY DEF IInv, Undisturbed, TwinsOnlyByRace, Early
  <1> QED BY <1>1, Holds, PTL

-----------------------------------------------------------------------------
(* What passed and stays the same keeps its verdict.                       *)

\* A repair, or the judgement of a candidate, is of a slot that is open.
LEMMA OthersStay ==
  ASSUME IInv, NEW s \in Slots, NEW r \in Slots, ~Open(s),
         Drop(r) \/ Commit(r) \/ Postpone(r) \/ Reject(r) \/ Repair(r)
  PROVE  ~Open(s)'
  <1>0. DOMAIN target = Slots
    BY DEF IInv, ReviewTyped, TargetsTyped
  <1>1. CASE Drop(r)
    BY <1>1 DEF Drop, Open
  <1>2. CASE Commit(r)
    BY <1>0, <1>2 DEF Commit, Open, NoTarget
  <1>3. CASE Postpone(r) \/ Reject(r)
    <2>1. r \in todo /\ node = "candidates" /\ r # s
      BY <1>3 DEF Postpone, Reject, Judged, Validating, IInv, Awaited, Open
    <2>2. \E x : target' = [target EXCEPT ![r] = x]
      BY <1>3 DEF Postpone, Reject
    <2> QED BY <1>0, <2>1, <2>2 DEF Open
  <1>4. CASE Repair(r)
    <2>1. Repairing(r)
      BY <1>4 DEF Repair, CloseSpent, NoProgress, NoReplacement, Unbound, Regenerate, Replace, Adjust,
         RepairCompletes, RepairExhausted, RepairOutage, Misrouted, Repairer, Underway, Taken
    <2>2. r # s
      BY <2>1 DEF Repairing, IInv, Awaited, Open
    <2>3. \E x : target' = [target EXCEPT ![r] = x]
      BY <1>4 DEF Repair, CloseSpent, NoProgress, NoReplacement, Unbound, Regenerate, Replace, Adjust,
         RepairCompletes, RepairExhausted, RepairOutage, Misrouted, Offered, Failed
    <2> QED BY <1>0, <2>2, <2>3 DEF Open
  <1> QED BY <1>1, <1>2, <1>3, <1>4

\* The reviewers are not asked to find what they passed before.
LEMMA ReviewKeeps ==
  ASSUME IInv, Review, NEW s \in Slots, Passes(s), ~Open(s), question'[s] = question[s]
  PROVE  ~Open(s)'
  <1>1. PICK exam \in Balanced :
          \E answer \in Answers(Asked({t \in Slots : exam[t] # question[t]}), exam) :
            LET v == Reviewed(Asked({t \in Slots : exam[t] # question[t]}), exam, answer)
            IN /\ question' = exam
               /\ target' = [t \in Slots |-> Merged(target[t], Found(t, v, exam))]
    BY DEF Review
  <1> DEFINE ids == Asked({t \in Slots : exam[t] # question[t]})
  <1>2. PICK answer \in Answers(ids, exam) :
          LET v == Reviewed(ids, exam, answer)
          IN /\ question' = exam
             /\ target' = [t \in Slots |-> Merged(target[t], Found(t, v, exam))]
    BY <1>1
  <1> HIDE DEF ids
  <1> DEFINE v == Reviewed(ids, exam, answer)
  <1>3. Kept(s) /\ question[s] # NoQuestion /\ exam[s] = question[s]
    BY <1>2 DEF Kept, Passes, Passed, IInv, Current
  <1>4. s \in ids => answer[s] = "PASS"
    BY <1>3 DEF Answers
  <1>5. v[s].roles = "PASS" /\ v[s].cross = "PASS"
    BY <1>4 DEF Reviewed, Passes, Passed
  <1> HIDE DEF v
  <1>6. Found(s, v, exam) = NoTarget
    BY <1>3, <1>5 DEF Found, Failures
  <1>7. target'[s] = target[s]
    <2>1. target'[s] = Merged(target[s], Found(s, v, exam))
      BY <1>2 DEF v
    <2>2. NoTarget.status = "none"
      BY DEF NoTarget
    <2> QED BY <1>6, <2>1, <2>2 DEF Merged
  <1> QED BY <1>7 DEF Open

\* A question that the reviewers passed, and that is still the same question of the same
\* task, is not found invalid by a later validation, whatever rounds of commits, balancing
\* and repair of other slots lie between (the ledger of validate_generated_questions);
\* only the scan for duplicates takes it back.
THEOREM KeptHolds == Spec => KeptStands
  <1> DEFINE Stays(s) ==
        Passes(s) /\ ~Open(s) /\ verdict[s].on = question[s] /\ verdict[s].task = plan[s].task
        /\ question'[s] = question[s] /\ plan'[s] = plan[s] /\ node # "scan"
          => ~Open(s)'
  <1>1. IInv /\ [ExamNext]_allVars => [\A s \in Slots : Stays(s)]_vars
    <2> SUFFICES ASSUME IInv, [ExamNext]_allVars, NEW s \in Slots, Passes(s), ~Open(s),
                        question'[s] = question[s], node # "scan", vars' # vars
                 PROVE  ~Open(s)'
      OBVIOUS
    <2>1. CASE (\E r \in Slots : Generating(r)) \/ Collect \/ Handover
      <3>1. UNCHANGED target
        BY <2>1 DEF Generating, Written, Unusable, GivenUp, Unsuitable, Choose, Store, Read, Write,
           ReplaceEntry, Collect, Handover, reviewOnly
      <3> QED BY <3>1 DEF Open
    <2>2. CASE \E r \in Slots : Drop(r) \/ Commit(r) \/ Postpone(r) \/ Reject(r) \/ Repair(r)
      BY <2>2, OthersStay
    <2>3. CASE Review
      BY <2>3, ReviewKeeps
    <2>4. CASE RouteToValidation \/ RouteToRepair \/ Assemble
      BY <2>4 DEF RouteToValidation, RouteToRepair, Assemble, Open
    <2>5. CASE Reserve
      <3>1. PICK refused : /\ refused \subseteq {r \in Slots : Reserved(r)}
                           /\ target' = [r \in Slots |->
                                IF r \in refused
                                THEN [target[r] EXCEPT !.status = "invalid", !.why = "reserved"]
                                ELSE target[r]]
        BY <2>5 DEF Reserve
      <3>2. node = "repair" /\ cand[s] = NoCand
        BY <2>5 DEF Reserve, IInv, Awaited, Open
      <3> QED BY <3>1, <3>2 DEF Reserved, Open
    <2> QED BY <2>1, <2>2, <2>3, <2>4, <2>5 DEF ExamNext, Next, ScanFinds, ScanPasses, ScanFails,
            Done, allVars
  <1> QED BY <1>1, Holds, PTL DEF Spec, KeptStands
=============================================================================
