------------------------------ MODULE Planning ------------------------------
(***************************************************************************)
(* From a compiled catalog to a plan the generator accepts: allocation,    *)
(* review, the repair of invalid slots, the adjustment of difficulties,    *)
(* the routing between these nodes and the gate before generation.         *)
(*                                                                         *)
(* The catalog and the request are chosen at the start.  What a language   *)
(* model answers is any answer: an adjustment succeeds or is declined, a   *)
(* repair proposes any of the candidates it was shown, or nothing.  An     *)
(* execution may stop between two nodes; the next one resumes from the     *)
(* plan that was persisted, in a process whose sets are ordered anew.      *)
(*                                                                         *)
(* Left out: plans made by a language model when there is no catalog.      *)
(***************************************************************************)
EXTENDS Allocation

CONSTANTS
  Catalogs, Requests,   \* the instances to plan
  MaxResumes            \* bound on executions that stop between two nodes

ASSUME PlanningAssumption ==
  /\ MaxResumes \in Nat
  /\ \A c \in Catalogs : Len(c.tasks) \in Nat /\ DOMAIN c.tasks = 1 .. Len(c.tasks)
  /\ \A r \in Requests : r.models \in Nat /\ r.types \in Seq([type : STRING, count : Nat])

MaxPlanAttempts == 3
MaxAdjustmentAttempts == 3

VARIABLES
  cat, request,
  order,      \* the order in which the process visits question types
  plan,       \* slots to items
  errors,     \* plan_errors, from the last review
  attempts,   \* plan_attempts
  tries,      \* adjustment attempts of each slot
  failed,     \* candidates whose repair of a slot was tried in vain
  stage, resumes

vars == <<cat, request, order, plan, errors, attempts, tries, failed, stage, resumes>>

Types == {request.types[i].type : i \in DOMAIN request.types}

Orders == SetToSeqs(Types)

Short == {s \in AllSlots(request) : IF QType(s) = FillBlank THEN cat.bank = 0
                                    ELSE Compatible(cat, QType(s)) = {}}

Review(p) == Errors(cat, request, Short, p, order)

Init ==
  /\ cat \in Catalogs /\ request \in Requests
  /\ order \in Orders
  /\ plan = NoPlan /\ errors = <<>> /\ attempts = 0
  /\ tries = [s \in AllSlots(request) |-> 0] /\ failed = {}
  /\ stage = "plan" /\ resumes = 0

-----------------------------------------------------------------------------
(* The edges of the graph.                                                 *)

HasPending(p) == \E s \in DOMAIN p : p[s].adjust = "pending"

\* _route_after_plan, and _route_after_difficulty_adjustment.
Route(p, errs, n) ==
  CASE errs # <<>> /\ n < MaxPlanAttempts -> "repair"
    [] errs # <<>> /\ n >= MaxPlanAttempts -> "stopped"
    [] errs = <<>> /\ HasPending(p) -> "adjust"
    [] OTHER -> "generate"

\* A node leaves a plan, its review and the attempts it took, and the graph goes on.
Leave(p, errs, n) ==
  /\ plan' = p /\ errors' = errs /\ attempts' = n
  /\ stage' = Route(p, errs, n)

-----------------------------------------------------------------------------
(* plan_exams.                                                             *)

PlanExams ==
  /\ stage = "plan"
  /\ LET p == Allocated(cat, request) IN Leave(p, Review(p), 1)
  /\ UNCHANGED <<cat, request, order, tries, failed, resumes>>

-----------------------------------------------------------------------------
(* repair_plan: the invalid slots one after the other.                     *)

About(errs, s) == Cardinality({i \in DOMAIN errs : Mentions(errs[i], s)})

Elsewhere(errs, s) == Len(errs) - About(errs, s)

\* A replacement must leave its own slot clean and no more errors elsewhere.
Clean(errs, s, before) == About(errs, s) = 0 /\ Elsewhere(errs, s) <= Elsewhere(before, s)

\* Another variation of the same task, in order, when no other slot is in conflict.
VariationRepairs(st, s) ==
  IF Conflicts(st.errors, s) # {} \/ s \notin DOMAIN st.plan THEN <<>>
  ELSE LET now == st.plan[s]
           others == {c \in Compatible(cat, QType(s)) :
                        c.task = now.task /\ c.variation # now.variation}
       IN Only([v \in 1 .. 3 |-> [task |-> now.task, variation |-> v]], others)

\* Mutant: the first replacement task is taken, whatever the review says.
ImprovesBlindly(errs, s, before) == TRUE

\* A replacement task must leave its own slot clean and fewer errors in all.
Improves(errs, s, before) == About(errs, s) = 0 /\ Len(errs) < Len(before)

\* Any other task, best score first, that has not failed for this slot.
TaskRepairs(st, s) ==
  LET rest == [t \in DOMAIN st.plan \ {s} |-> st.plan[t]]
      current == IF s \in DOMAIN st.plan THEN st.plan[s].task ELSE 0
  IN Ranked(cat, request.difficulty, rest,
            {c \in Compatible(cat, QType(s)) : c.task # current /\ <<s, c>> \notin st.failed})

\* A task whose level is not the requested one is a declared fallback.
Fallback(c) ==
  Item(c, IF request.difficulty \in {"mix", TheTask(cat, c).level} THEN "none" ELSE "fallback")

\* The first of the repairs that the review accepts: each is judged against what
\* the slot st was before any of them.
TryVariation(st, s, r, c) ==
  LET p == Bind(st.plan, s, Item(c, "none"))
      errs == Review(p)
  IN IF ~r.done /\ Clean(errs, s, st.errors)
       THEN [r EXCEPT !.done = TRUE, !.plan = p, !.errors = errs] ELSE r

TryVariations(st, s) ==
  FoldLeft(LAMBDA r, c : TryVariation(st, s, r, c), st, VariationRepairs(st, s))

TryTask(st, s, r, c) ==
  LET p == Bind(st.plan, s, Fallback(c))
      errs == Review(p)
  IN CASE r.done -> r
       [] ~r.done /\ Improves(errs, s, st.errors) ->
            [r EXCEPT !.done = TRUE, !.plan = p, !.errors = errs]
       [] OTHER -> [r EXCEPT !.failed = @ \cup {<<s, c>>}]

TryTasks(st, s) ==
  IF st.done THEN st
  ELSE FoldLeft(LAMBDA r, c : TryTask(st, s, r, c), st, TaskRepairs(st, s))

\* What the language model may choose from: tasks of the requested level that
\* differ from every slot in conflict, unused ones if there are any.
Proposals(st, s) ==
  LET against == Conflicts(st.errors, s) \cap DOMAIN st.plan
      Differs(c, t) == /\ CatalogId(cat, c) # Identity(cat, st.plan[t])
                       /\ <<Family(cat, c), TheVariation(cat, c).work>> #
                            <<Family(cat, st.plan[t]), TheVariation(cat, st.plan[t]).work>>
      first == {c \in Compatible(cat, QType(s)) :
                  \A d \in Compatible(cat, QType(s)) : d.task = c.task => c.variation <= d.variation}
      allowed == {c \in first :
                    /\ s \notin DOMAIN st.plan \/ CatalogId(cat, c) # Identity(cat, st.plan[s])
                    /\ request.difficulty \in {"mix", TheTask(cat, c).level}
                    /\ \A t \in against : Differs(c, t)}
      Taken(c) == \E t \in DOMAIN st.plan \ {s} : Identity(cat, st.plan[t]) = CatalogId(cat, c)
      unused == {c \in allowed : ~Taken(c)}
  IN IF against = {} THEN {} ELSE IF unused # {} THEN unused ELSE allowed

\* The chosen task, under a contract if another slot has it, if the review accepts.
Chosen(st, s, c) ==
  LET sharing == {t \in DOMAIN st.plan \ {s} : Identity(cat, st.plan[t]) = CatalogId(cat, c)}
      item == Item(c, "none")
      p == Bind(st.plan, s, IF sharing = {} THEN item ELSE WithContract(item, sharing))
      errs == Review(p)
  IN IF Clean(errs, s, st.errors) THEN [st EXCEPT !.plan = p, !.errors = errs] ELSE st

\* What becomes of a slot: the states the repair may leave.
Repairs(st, s) ==
  LET tried == TryTasks(TryVariations([st EXCEPT !.done = FALSE], s), s)
  IN CASE ~Contains(InvalidSlots(st.errors), s) -> {st}
       [] QType(s) = FillBlank -> {st}
       [] tried.done -> {tried}
       [] OTHER -> {tried} \cup {Chosen(tried, s, c) : c \in Proposals(tried, s)}

\* The states after the slots of a sequence, one after the other.
Repaired(states, s) == UNION {Repairs(st, s) : st \in states}

AllRepairs(st, slots) == FoldLeft(LAMBDA states, s : Repaired(states, s), {st}, slots)

\* Mutant: the budget of attempts is not spent by a repair.
RepairPlanFree ==
  /\ stage = "repair"
  /\ LET fresh == Review(plan)
         start == [plan |-> plan, errors |-> fresh, failed |-> failed, done |-> FALSE]
     IN \E end \in AllRepairs(start, InvalidSlots(fresh)) :
          /\ Leave(end.plan, end.errors, attempts)
          /\ failed' = end.failed
  /\ UNCHANGED <<cat, request, order, tries, resumes>>

\* The plan is reviewed again, not taken as it was left.  Without any progress
\* the attempts are spent and the graph stops.
RepairPlan ==
  /\ stage = "repair"
  /\ LET fresh == Review(plan)
         start == [plan |-> plan, errors |-> fresh, failed |-> failed, done |-> FALSE]
     IN \E end \in AllRepairs(start, InvalidSlots(fresh)) :
          LET stuck == fresh # <<>> /\ end.plan = plan /\ end.errors = fresh
              n == IF stuck THEN MaxPlanAttempts ELSE attempts + 1
          IN /\ Leave(end.plan, end.errors, n)
             /\ failed' = IF stuck THEN failed ELSE end.failed
  /\ UNCHANGED <<cat, request, order, tries, resumes>>

-----------------------------------------------------------------------------
(* adjust_plan_difficulty.                                                 *)

\* Each pending slot is adapted by some attempt, or fails after the last one.
Outcomes(pending) ==
  [pending -> [adapted : BOOLEAN, attempt : 1 .. MaxAdjustmentAttempts]]

Feasible(outcome) ==
  \A s \in DOMAIN outcome :
    IF outcome[s].adapted THEN outcome[s].attempt > tries[s]
                          ELSE outcome[s].attempt = MaxAdjustmentAttempts

AfterAdjustment(outcome) ==
  [s \in DOMAIN plan |->
     IF s \notin DOMAIN outcome THEN plan[s]
     ELSE [plan[s] EXCEPT !.adjust = IF outcome[s].adapted THEN "adapted" ELSE "failed"]]

Preference(difficulty) ==
  CASE difficulty = "easy" -> <<"easy", "medium", "hard">>
    [] difficulty = "hard" -> <<"hard", "medium", "easy">>
    [] OTHER -> <<"medium", "easy", "hard">>

\* The tasks an exhausted adjustment falls back on: unused ones of the nearest
\* level, else occupied ones.
FallbackTier(p, s) ==
  LET occupied == {p[t].task : t \in DOMAIN p \ {s}}
      others == {c \in Compatible(cat, QType(s)) :
                   CatalogId(cat, c) # Identity(cat, p[s])}
      At(unused, i) == {c \in others : /\ (c.task \notin occupied) = unused
                                       /\ TheTask(cat, c).level =
                                            Preference(request.difficulty)[i]}
      tiers == <<At(TRUE, 1), At(TRUE, 2), At(TRUE, 3),
                 At(FALSE, 1), At(FALSE, 2), At(FALSE, 3)>>
      open == {i \in DOMAIN tiers : tiers[i] # {}}
  IN IF open = {} THEN {} ELSE tiers[CHOOSE i \in open : \A k \in open : i <= k]

FallBack(q, s) ==
  LET tier == FallbackTier(q, s)
      rest == [t \in DOMAIN q \ {s} |-> q[t]]
      c == Best(cat, request.difficulty, rest, tier)
  IN CASE s \notin DOMAIN q -> q
       [] s \in DOMAIN q /\ q[s].adjust # "failed" -> q
       [] s \in DOMAIN q /\ q[s].adjust = "failed" /\ tier = {} ->
            [q EXCEPT ![s].adjust = "accepted"]
       [] OTHER -> Bind(q, s, Item(c, IF TheTask(cat, c).level = request.difficulty
                                        THEN "fallback" ELSE "accepted"))

\* _apply_catalog_fallbacks: slot by slot, each sees the replacements before it.
WithFallbacks(p) ==
  FoldLeft(LAMBDA q, s : FallBack(q, s), p,
           FlattenSeq([m \in 1 .. request.models |-> SlotsOf(request, m)]))

\* Mutant: the plan is not reviewed after the fallbacks.
AdjustUnreviewed ==
  /\ stage = "adjust"
  /\ LET pending == {s \in DOMAIN plan : plan[s].adjust = "pending"} IN
     \E outcome \in Outcomes(pending) :
       /\ Feasible(outcome)
       /\ Leave(WithFallbacks(AfterAdjustment(outcome)), <<>>, attempts)
       /\ tries' = [s \in DOMAIN tries |-> IF s \in pending THEN outcome[s].attempt ELSE tries[s]]
  /\ UNCHANGED <<cat, request, order, failed, resumes>>

Adjust ==
  /\ stage = "adjust"
  /\ LET pending == {s \in DOMAIN plan : plan[s].adjust = "pending"} IN
     \E outcome \in Outcomes(pending) :
       /\ Feasible(outcome)
       /\ LET p == WithFallbacks(AfterAdjustment(outcome))
          IN Leave(p, Review(p), attempts)
       /\ tries' = [s \in DOMAIN tries |-> IF s \in pending THEN outcome[s].attempt ELSE tries[s]]
  /\ UNCHANGED <<cat, request, order, failed, resumes>>

-----------------------------------------------------------------------------
(* The generator's gate, and the executions around the graph.              *)

\* It refuses what its own review finds, and any slot that is not there.
Generate ==
  /\ stage = "generate"
  /\ stage' = IF errors = <<>> /\ Review(plan) = <<>> /\ DOMAIN plan = AllSlots(request)
                THEN "generated" ELSE "refused"
  /\ UNCHANGED <<cat, request, order, plan, errors, attempts, tries, failed, resumes>>

\* The execution stops after a node; its successor reviews the persisted plan.
Resume ==
  /\ stage \in {"repair", "adjust", "generate"}
  /\ resumes < MaxResumes /\ resumes' = resumes + 1
  /\ stage' = "repair"
  /\ order' \in Orders
  /\ UNCHANGED <<cat, request, plan, errors, attempts, tries, failed>>

Ended == stage \in {"stopped", "generated", "refused"} /\ UNCHANGED vars

Next == PlanExams \/ RepairPlan \/ Adjust \/ Generate \/ Resume \/ Ended

Spec == Init /\ [][Next]_vars

-----------------------------------------------------------------------------
(* Properties.                                                             *)

Adjustments == {"none", "pending", "adapted", "failed", "fallback", "accepted"}

\* The plan binds slots of the request to tasks, variations and entries of the
\* catalog, and counters stay within their bounds.
TypeOK ==
  /\ DOMAIN plan \subseteq AllSlots(request)
  /\ \A s \in DOMAIN plan :
       /\ IF QType(s) = FillBlank
            THEN plan[s].entry \in 1 .. cat.bank /\ plan[s].task = 0
            ELSE \E c \in Compatible(cat, QType(s)) :
                   plan[s].task = c.task /\ plan[s].variation = c.variation
       /\ plan[s].adjust \in Adjustments /\ plan[s].reused \in BOOLEAN
       /\ plan[s].forced \subseteq AllSlots(request) \ {s}
  /\ \A i \in DOMAIN errors : errors[i].slot \in AllSlots(request)
  /\ attempts \in 0 .. MaxPlanAttempts + MaxResumes
  /\ tries \in [AllSlots(request) -> 0 .. MaxAdjustmentAttempts]
  /\ stage \in {"plan", "repair", "adjust", "generate", "generated", "refused", "stopped"}

\* As many slots as could have been given distinct knowledge: the reference the
\* matching is held against.
MostFamilies(slots) ==
  LET Reach(s) == {Family(cat, c) : c \in Compatible(cat, QType(s))}
      families == {cat.tasks[i].family : i \in DOMAIN cat.tasks}
      Assignable(S) == \E f \in [S -> families] :
        \A s, t \in S : f[s] \in Reach(s) /\ (s # t => f[s] # f[t])
  IN Max({Cardinality(S) : S \in {X \in SUBSET slots : Assignable(X)}})

\* The allocation spreads each model over as much of the document's knowledge as
\* any assignment could: neither filling nor re-ranking undoes the matching, and
\* a slot stays empty only if the catalog has nothing for its type.
AllocationSpreads ==
  stage = "plan" =>
    LET p == Allocated(cat, request) IN
    /\ Shortage(request, p) = Short
    /\ \A m \in 1 .. request.models :
         LET slots == {s \in ToSet(SlotsOf(request, m)) : QType(s) # FillBlank} IN
         Cardinality({Family(cat, p[s]) : s \in slots \cap DOMAIN p}) = MostFamilies(slots)

\* The generator refuses a plan the graph sent it only for want of questions: the
\* route, which trusts plan_errors, and the gate, which reviews the plan again,
\* never disagree, repairs, adjustments and resumed executions included.
RefusedOnlyIfShort == stage = "refused" => Short # {}

\* Any two slots of a model that share a task in a plan given to the generator
\* are tied by the contract of one of them, although the review compares a slot
\* only with the last one it met.
TwinsAuthorized ==
  stage = "generated" =>
    \A s, t \in DOMAIN plan :
      /\ s # t /\ Model(s) = Model(t) /\ plan[s].task # 0 /\ plan[t].task # 0
      /\ Identity(cat, plan[s]) = Identity(cat, plan[t])
      => AuthorizedPair(cat, plan, s, t)

\* A round of repairs, each slot judged against the plan the slots before it
\* left, never leaves more errors than it found.
RepairNeverWorsens ==
  [][stage = "repair" /\ resumes' = resumes => Len(errors') <= Len(Review(plan))]_vars

\* What is left to do: rounds of repair, and in a round to adjust, repair, generate.
Remaining ==
  CASE stage \in {"plan", "adjust"} -> 3 * (MaxPlanAttempts + MaxResumes - attempts) + 3
    [] stage = "repair" -> 3 * (MaxPlanAttempts + MaxResumes - attempts) + 2
    [] stage = "generate" -> 3 * (MaxPlanAttempts + MaxResumes - attempts) + 1
    [] OTHER -> 0

\* Every node brings planning nearer to its end, the loops between adjustment and
\* repair included: an execution that is not interrupted ends with a plan or gives
\* up, and one that resumes has the attempts its predecessors left, plus one.
EveryNodeCounts ==
  [][resumes' = resumes => Remaining' < Remaining /\ Remaining' >= 0]_vars
=============================================================================
