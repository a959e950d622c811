----------------------------- MODULE Allocation -----------------------------
(***************************************************************************)
(* The algorithms that turn an assessment catalog into a plan: what a slot *)
(* may be given, how candidates are scored, the bipartite matching of      *)
(* slots to the material of the document, the reuse of tasks when the      *)
(* catalog is exhausted, and the review of a plan.                         *)
(*                                                                         *)
(* A catalog is [tasks, bank].  A task is one assessable piece of work:    *)
(* [family, level, scenario, variations]; family is the knowledge it is    *)
(* about, the resource the matching distributes.  A variation is           *)
(* [work, scenario, types, sound]: work is what the semantic comparisons   *)
(* look at (product and target), types the question types it may be asked  *)
(* as; it is sound if the review of plans finds no fault with its text.    *)
(* A scenario is a number, 0 if there is none; bank is the number of       *)
(* canonical fill-in-the-blank entries.                                    *)
(*                                                                         *)
(* Tasks and variations are named by their positions, and ties are broken  *)
(* by position.  Left out: the wording, the givens, evidence and text that *)
(* eligibility also asks for (a variation that lacks them has no types).   *)
(***************************************************************************)
EXTENDS Selections

FillBlank == "fill_in_the_blank"

\* The slots of model m in the order of the request, a sequence of
\* [type, count] in alphabetical order.
SlotsOf(request, m) ==
  FlattenSeq([k \in DOMAIN request.types |->
    [i \in 1 .. request.types[k].count |-> <<m, request.types[k].type, i>>]])

AllSlots(request) == UNION {ToSet(SlotsOf(request, m)) : m \in 1 .. request.models}

Model(slot) == slot[1]
QType(slot) == slot[2]

\* The slot s given an item, or another one.
Bind(plan, s, item) == [t \in DOMAIN plan \cup {s} |-> IF t = s THEN item ELSE plan[t]]

-----------------------------------------------------------------------------
(* Candidates and their scores.                                            *)

TheTask(cat, c) == cat.tasks[c.task]
TheVariation(cat, c) == cat.tasks[c.task].variations[c.variation]
Family(cat, c) == TheTask(cat, c).family

\* The pairs of a task and a variation a slot of the type may be bound to.
Compatible(cat, type) ==
  {c \in [task : DOMAIN cat.tasks,
          variation : 1 .. 3] :
     /\ c.variation \in DOMAIN cat.tasks[c.task].variations
     /\ type \in TheVariation(cat, c).types}

Levels == <<"easy", "medium", "hard">>

LevelNumber(level) == CHOOSE i \in 1 .. 3 : Levels[i] = level

Distance(a, b) == IF a < b THEN b - a ELSE a - b

Points(curve, uses) == IF uses < Len(curve) THEN curve[uses + 1] ELSE 0

\* The score of a candidate given the items already in the plan, a function from
\* slots to items.
Score(cat, c, difficulty, plan) ==
  LET v == TheVariation(cat, c)
      planned == {s \in DOMAIN plan : plan[s].task # 0}
      sameTask == {s \in DOMAIN plan : plan[s].task = c.task}
      sameScenario == {s \in planned : TheVariation(cat, plan[s]).scenario = v.scenario}
      sameTarget == {s \in planned : TheVariation(cat, plan[s]).work = v.work}
      sameGroup == {s \in sameTask : plan[s].variation = c.variation}
  IN Points(<<30, 20, 12, 6>>, Cardinality(sameTask))
     + (IF difficulty = "mix" THEN 0
        ELSE Points(<<15, 8, 2>>, Distance(LevelNumber(difficulty),
                                           LevelNumber(TheTask(cat, c).level))))
     + (IF v.scenario = 0 THEN 10 ELSE Points(<<20, 12, 6>>, Cardinality(sameScenario)))
     + Points(<<15, 9, 4>>, Cardinality(sameTarget))
     + Points(<<20, 12, 5>>, Cardinality(sameGroup))

\* The candidates of a set by score, then by position.
Ranked(cat, difficulty, plan, S) ==
  LET score == [c \in S |-> Score(cat, c, difficulty, plan)]
      Before(c, d) == \/ score[c] > score[d]
                      \/ score[c] = score[d] /\ c.task < d.task
                      \/ score[c] = score[d] /\ c.task = d.task /\ c.variation < d.variation
      rank == [c \in S |-> Cardinality({d \in S : Before(d, c)})]
  IN [i \in 1 .. Cardinality(S) |-> CHOOSE c \in S : rank[c] = i - 1]

Best(cat, difficulty, plan, S) == Ranked(cat, difficulty, plan, S)[1]

-----------------------------------------------------------------------------
(* The items of a plan.                                                    *)

\* A slot bound to a candidate.  adjust is the state of its difficulty; reused
\* and forced are the contract that authorizes the reuse of a task (or entry)
\* and the slots it is shared with.
Item(c, adjust) ==
  [task |-> c.task, variation |-> c.variation, entry |-> 0, adjust |-> adjust,
   reused |-> FALSE, forced |-> {}]

EntryItem(entry) ==
  [task |-> 0, variation |-> 0, entry |-> entry, adjust |-> "none",
   reused |-> FALSE, forced |-> {}]

WithContract(item, slots) == [item EXCEPT !.reused = TRUE, !.forced = slots]

\* The identity of an item is derived from its content, the scenario of its
\* variation included: two variations of a task may be two tasks to the review.
Identity(cat, item) == <<item.task, TheVariation(cat, item).scenario>>

CatalogId(cat, c) == <<c.task, TheTask(cat, c).scenario>>

Native(cat, item) == TheVariation(cat, item).scenario = TheTask(cat, item).scenario

\* The contract names the task of the catalog, which is the item's own identity
\* only if its variation keeps the scenario of the task.
Authorized(cat, item) ==
  item.reused /\ item.forced # {} /\ (item.task = 0 \/ Native(cat, item))

AuthorizedPair(cat, plan, s, t) ==
  \/ Authorized(cat, plan[s]) /\ t \in plan[s].forced
  \/ Authorized(cat, plan[t]) /\ s \in plan[t].forced

-----------------------------------------------------------------------------
(* allocate_catalog_plan, one model after the other.                       *)

\* The scarcest slots first, then by type and index.
Ordered(cat, request, slots) ==
  LET Options(s) == Cardinality(Compatible(cat, QType(s)))
      asked == SelectSeq(slots, LAMBDA s : QType(s) # FillBlank)
      Place(done, s) == SelectSeq(done, LAMBDA t : Options(t) <= Options(s))
                        \o <<s>> \o SelectSeq(done, LAMBDA t : Options(t) > Options(s))
  IN FoldLeft(Place, <<>>, asked)

NoSlot == <<0, "none", 0>>
NoCandidate == [task |-> 0, variation |-> 0]

\* Kuhn's algorithm: try[<<s, st>>] looks for a candidate of slot s whose family
\* is free, or whose owner finds another; families already seen are skipped.
Matching(cat, ordered, pool) ==
  LET families == {cat.tasks[i].family : i \in DOMAIN cat.tasks}
      slots == ToSet(ordered)
      States == [seen : SUBSET families, owner : [families -> slots \cup {NoSlot}],
                 chosen : [slots -> UNION {ToSet(pool[s]) : s \in slots} \cup {NoCandidate}],
                 found : BOOLEAN]
      try[a \in slots \X States] ==
        LET s == a[1]
            Candidate(st, c) ==
              LET f == Family(cat, c)
                  marked == [st EXCEPT !.seen = @ \cup {f}]
                  moved == IF st.owner[f] = NoSlot THEN [marked EXCEPT !.found = TRUE]
                           ELSE try[<<st.owner[f], marked>>]
              IN CASE st.found \/ f \in st.seen -> st
                   [] moved.found -> [moved EXCEPT !.owner[f] = s, !.chosen[s] = c]
                   [] OTHER -> moved
        IN FoldLeft(Candidate, [a[2] EXCEPT !.found = FALSE], pool[s])
      Round(st, s) == try[<<s, [st EXCEPT !.seen = {}]>>]
      start == [seen |-> {}, owner |-> [f \in families |-> NoSlot],
                chosen |-> [s \in slots |-> NoCandidate], found |-> FALSE]
      chosen == FoldLeft(Round, start, ordered).chosen
  IN [s \in {t \in slots : chosen[t] # NoCandidate} |-> chosen[s]]

\* The slots the matching leaves over take an unused task of unused knowledge,
\* else an unused task, else any task at all.
Filled(cat, difficulty, prior, ordered, assigned) ==
  LET Used(a) == {a[s].task : s \in DOMAIN a} \cup {prior[s].task : s \in DOMAIN prior}
      Known(a) == {cat.tasks[t].family : t \in Used(a) \ {0}}
      Fill(a, s) ==
        LET all == Compatible(cat, QType(s))
            unused == {c \in all : c.task \notin Used(a)}
            fresh == {c \in unused : Family(cat, c) \notin Known(a)}
            tier == IF fresh # {} THEN fresh ELSE IF unused # {} THEN unused ELSE all
        IN IF s \in DOMAIN a \/ all = {} THEN a
           ELSE Bind(a, s, Best(cat, difficulty, prior, tier))
  IN FoldLeft(Fill, assigned, ordered)

\* Mutant: the re-ranking forgets what is reserved for the other slots.
RerankedUnprotected(cat, difficulty, prior, ordered, assigned) ==
  LET Rank(st, s) ==
        IF s \notin DOMAIN st.assigned THEN st
        ELSE LET c == Best(cat, difficulty, st.live, Compatible(cat, QType(s)))
             IN [assigned |-> [st.assigned EXCEPT ![s] = c], live |-> Bind(st.live, s, c)]
  IN FoldLeft(Rank, [assigned |-> assigned, live |-> prior], ordered).assigned

\* Every slot chooses again, the choices before it counted, among the families
\* no other slot holds.
Reranked(cat, difficulty, prior, ordered, assigned) ==
  LET Rank(st, s) ==
        LET held == {Family(cat, st.assigned[t]) : t \in DOMAIN st.assigned \ {s}}
            free == {c \in Compatible(cat, QType(s)) : Family(cat, c) \notin held}
            c == IF free = {} THEN st.assigned[s]
                 ELSE Best(cat, difficulty, st.live, free)
        IN IF s \notin DOMAIN st.assigned THEN st
           ELSE [assigned |-> [st.assigned EXCEPT ![s] = c],
                 live |-> Bind(st.live, s, c)]
  IN FoldLeft(Rank, [assigned |-> assigned, live |-> prior], ordered).assigned

\* The difficulty of the document is kept, and adjusted later if another is asked.
Pending(cat, difficulty, c) ==
  IF difficulty \in {"mix", TheTask(cat, c).level} THEN "none" ELSE "pending"

LeastUsed(cat, plan) ==
  LET UsesOf(e) == Cardinality({s \in DOMAIN plan : plan[s].entry = e})
  IN CHOOSE e \in 1 .. cat.bank :
       \A d \in 1 .. cat.bank : UsesOf(e) < UsesOf(d) \/ (UsesOf(e) = UsesOf(d) /\ e <= d)

\* Mutant: the contract names only the last of the slots that share the task.
LastSharer(plan, item) ==
  LET all == {s \in DOMAIN plan : plan[s].task = item.task /\ plan[s].entry = item.entry}
  IN {s \in all : \A t \in all : t[3] <= s[3]}

\* The slots that already have the task (or the entry) of an item.
Sharers(plan, item) ==
  {s \in DOMAIN plan : plan[s].task = item.task /\ plan[s].entry = item.entry}

\* A task, or an entry, that the plan already has is reused under a contract.
Materialize(cat, request, assigned, plan, s) ==
  LET item == IF QType(s) = FillBlank THEN EntryItem(LeastUsed(cat, plan))
              ELSE Item(assigned[s], Pending(cat, request.difficulty, assigned[s]))
      shared == Sharers(plan, item)
  IN CASE QType(s) = FillBlank /\ cat.bank = 0 -> plan
       [] QType(s) # FillBlank /\ s \notin DOMAIN assigned -> plan
       [] OTHER -> Bind(plan, s, IF shared = {} THEN item ELSE WithContract(item, shared))

Materialized(cat, request, plan, slots, assigned) ==
  FoldLeft(LAMBDA p, s : Materialize(cat, request, assigned, p, s), plan, slots)

NoPlan == [s \in {} |-> NoSlot]

AllocatedModel(cat, request, plan, m) ==
  LET slots == SlotsOf(request, m)
      ordered == Ordered(cat, request, slots)
      pool == [s \in ToSet(ordered) |->
                 Ranked(cat, request.difficulty, plan, Compatible(cat, QType(s)))]
      matched == Matching(cat, ordered, pool)
      filled == Filled(cat, request.difficulty, plan, ordered, matched)
      final == Reranked(cat, request.difficulty, plan, ordered, filled)
  IN Materialized(cat, request, plan, slots, final)

Allocated(cat, request) ==
  FoldLeft(LAMBDA plan, m : AllocatedModel(cat, request, plan, m),
           NoPlan, [m \in 1 .. request.models |-> m])

\* The slots the catalog has nothing for: the planning issues.
Shortage(request, plan) == AllSlots(request) \ DOMAIN plan

-----------------------------------------------------------------------------
(* validate_plans: the errors of a plan, in the order they are found.  The *)
(* types are visited in the order of a set, which differs from one process *)
(* to another.                                                             *)

Error(slot, kind, other) == [slot |-> slot, kind |-> kind, other |-> other]

\* A slot by itself: its work cannot be asked as planned, or its difficulty is
\* neither the requested one, nor pending, nor accounted for.
SlotErrors(cat, request, plan, m) ==
  LET Bad(s) == /\ plan[s].task # 0
                /\ \/ ~TheVariation(cat, plan[s]).sound
                   \/ /\ plan[s].adjust = "none"
                      /\ request.difficulty \notin {"mix", TheTask(cat, plan[s]).level}
      bad == Only(SlotsOf(request, m), {s \in DOMAIN plan : Bad(s)})
  IN [i \in DOMAIN bad |-> Error(bad[i], "metadata", NoSlot)]

\* The items of a model that one finds first when the types come in this order.
Visited(request, plan, m, order) ==
  LET OfType(t) == Only(SlotsOf(request, m), {s \in DOMAIN plan : QType(s) = t})
  IN FlattenSeq([i \in DOMAIN order |-> OfType(order[i])])

FirstIn(s, S) == LET found == Only(s, S) IN IF found = <<>> THEN NoSlot ELSE found[1]

\* Within a model: no task twice, no work about the same knowledge twice, no
\* scenario twice, unless a contract authorizes it.  A slot is compared with the
\* occupants of three tables: of tasks and settings the last, of works the first.
Visit(cat, plan, st, s) ==
  LET Work(p) == <<Family(cat, plan[p]), TheVariation(cat, plan[p]).work>>
      Setting(p) == TheVariation(cat, plan[p]).scenario
      items == {p \in DOMAIN plan : plan[p].task # 0}
      task == FirstIn(Reverse(st.tasks),
                      {p \in items : Identity(cat, plan[p]) = Identity(cat, plan[s])})
      work == FirstIn(st.works, {p \in items : Work(p) = Work(s)})
      setting == FirstIn(Reverse(st.settings),
                         {p \in items : Setting(p) # 0 /\ Setting(p) = Setting(s)})
      Free(p) == p = NoSlot \/ AuthorizedPair(cat, plan, p, s)
      Excused(p) == Free(p) \/ Authorized(cat, plan[s])
      Table(ok, table) == IF ok THEN Append(table, s) ELSE table
      Report(ok, kind, p) == IF ok THEN <<>> ELSE <<Error(s, kind, p)>>
  IN IF plan[s].task = 0 THEN st
     ELSE [tasks |-> Table(Free(task), st.tasks),
           works |-> Table(Excused(work), st.works),
           settings |-> Table(Excused(setting), st.settings),
           errors |-> st.errors \o Report(Free(task), "task", task)
                      \o Report(Excused(work), "work", work)
                      \o Report(Excused(setting), "scenario", setting)]

DuplicateErrors(cat, request, plan, m, order) ==
  FoldLeft(LAMBDA st, s : Visit(cat, plan, st, s),
           [tasks |-> <<>>, works |-> <<>>, settings |-> <<>>, errors |-> <<>>],
           Visited(request, plan, m, order)).errors

\* Across models: the same idea for the same type, whatever the contract.
IdeaErrors(cat, request, plan, order) ==
  LET Visible(t) ==
        FlattenSeq([m \in 1 .. request.models |->
          Only(Visited(request, plan, m, <<t>>), {s \in DOMAIN plan : plan[s].task # 0})])
      Same(s, t) == /\ Model(s) # Model(t)
                    /\ TheVariation(cat, plan[s]).work = TheVariation(cat, plan[t]).work
      Against(v, i) ==
        LET later == Only(SubSeq(v, i + 1, Len(v)), {t \in ToSet(v) : Same(v[i], t)})
        IN [k \in DOMAIN later |-> Error(later[k], "idea", v[i])]
      Of(v) == FlattenSeq([i \in DOMAIN v |-> Against(v, i)])
  IN FlattenSeq([k \in DOMAIN order |-> Of(Visible(order[k]))])

\* A slot of a shortage is not missed.
Errors(cat, request, short, plan, order) ==
  LET Missing(m) == Only(SlotsOf(request, m),
                         AllSlots(request) \ (DOMAIN plan \cup short))
      OfModel(m) == [i \in DOMAIN Missing(m) |-> Error(Missing(m)[i], "missing", NoSlot)]
                    \o SlotErrors(cat, request, plan, m)
      models == [m \in 1 .. request.models |-> m]
  IN FlattenSeq([m \in DOMAIN models |-> OfModel(m)])
     \o FlattenSeq([m \in DOMAIN models |-> DuplicateErrors(cat, request, plan, m, order)])
     \o IdeaErrors(cat, request, plan, order)

\* The slots the errors are about, in order, and those an error mentions.
InvalidSlots(errors) ==
  FoldLeft(LAMBDA found, e : IF Contains(found, e.slot) THEN found ELSE Append(found, e.slot),
           <<>>, errors)

Mentions(e, s) == s \in {e.slot, e.other}

Conflicts(errors, s) ==
  {t \in UNION {{e.slot, e.other} : e \in {x \in ToSet(errors) : Mentions(x, s)}} :
     t \notin {s, NoSlot}}
=============================================================================
