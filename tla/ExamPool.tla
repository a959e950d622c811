------------------------------ MODULE ExamPool ------------------------------
(***************************************************************************)
(* The generation of one exam, up to its review: a thread per slot of the  *)
(* reviewed plan asks the language model for the question; the generator   *)
(* may call the task of a multiple-choice slot unsuitable, and its thread  *)
(* then takes another task from the plans all threads share.  When all of  *)
(* them are done, the coordinator collects what they made and asks again   *)
(* for what is missing, one slot after the other.                          *)
(*                                                                         *)
(* plan is the shared plans; items is plan_items, the second copy of it,   *)
(* which the recovery of missing slots starts from.  The review goes on    *)
(* from here with its own state.                                           *)
(***************************************************************************)
EXTENDS ExamReview

CONSTANTS
  MaxAttempts,  \* _MAX_ATTEMPTS
  MaxPasses,    \* max_passes of _repair_shortfalls
  Kinds         \* the kinds of the slots: some of [Slots -> {"mcq", "fitb", "other"}]

ASSUME PoolAssumption == MaxPasses \in Nat \ {0}

VARIABLES
  kind,     \* the kinds of this exam, while it is generated
  thread,   \* where each slot's thread is
  items,    \* plan_items
  raced     \* history: two slots changed their tasks at the same time

poolVars == <<kind, thread, items, raced>>
allVars == <<vars, poolVars>>

NoItem == [task |-> 0, reuse |-> FALSE]

Thread(pc, item, pass) ==
  [pc |-> pc, item |-> item, pass |-> pass, attempt |-> 1, pick |-> NoItem, view |-> <<>>,
   excluded |-> {}, made |-> NoQuestion]

Idle == Thread("idle", NoItem, 0)

Busy == {s \in Slots : thread[s].pc # "idle"}

\* In the recovery a slot at a time, pass after pass, in the order of the plan.
Turn(s) ==
  \/ node = "pool"
  \/ /\ node = "shortfall" /\ s \in Busy
     /\ \A t \in Busy : thread[t].pass > thread[s].pass \/ (thread[t].pass = thread[s].pass /\ s <= t)

At(s, pc) == Turn(s) /\ thread[s].pc = pc

Goes(s, changed) == thread' = [thread EXCEPT ![s] = changed]

reviewOnly == <<verdict, target, staging, spending, accepted, record, todo, committed, released>>

-----------------------------------------------------------------------------
(* The calls of one slot.                                                  *)

\* The thread ends with nothing: in the pool the slot is empty, with a warning; in the
\* recovery it has another pass, or is given up.
Ended(s) ==
  LET t == thread[s] IN
  CASE t.pass = 0 -> [t EXCEPT !.pc = "done"]
    [] t.pass \in 1..MaxPasses - 1 ->
         [Thread("calling", t.item, t.pass + 1) EXCEPT !.excluded = t.excluded]
    [] t.pass = MaxPasses /\ kind[s] = "fitb" -> [t EXCEPT !.pc = "entry"]
    [] OTHER -> Idle

Again(s) ==
  IF thread[s].attempt < MaxAttempts
  THEN [thread[s] EXCEPT !.pc = "calling", !.attempt = @ + 1]
  ELSE Ended(s)

\* An answer that survives the filters, for the item the thread holds.
Written(s) ==
  /\ At(s, "calling")
  /\ LET made == [task |-> thread[s].item.task, text |-> InitialText] IN
     IF thread[s].pass = 0
     THEN /\ Goes(s, [thread[s] EXCEPT !.pc = "done", !.made = made])
          /\ UNCHANGED question
     ELSE /\ Goes(s, Idle)
          /\ question' = [question EXCEPT ![s] = made]
  /\ UNCHANGED <<plan, reviewOnly, node, trouble, kind, items, raced>>

\* The first slot that comes empty out of the pool is not counted.
Charge(s, ends) ==
  IF ends /\ thread[s].pass = 0 /\ \E t \in Slots : thread[t].pc = "done" /\ thread[t].made = NoQuestion
  THEN Troubled(1) ELSE UNCHANGED trouble

\* An error, or an answer that is malformed, forbidden or a duplicate.
Unusable(s) ==
  /\ At(s, "calling") /\ Charge(s, thread[s].attempt = MaxAttempts)
  /\ Goes(s, Again(s))
  /\ UNCHANGED <<content, reviewOnly, node, kind, items, raced>>

\* Transport exhausted: no further attempt.  In the pool, any exception of a thread, a
\* cancelled job or a lost claim included, also ends here.
GivenUp(s) ==
  /\ At(s, "calling") /\ thread[s].attempt < MaxAttempts /\ Charge(s, TRUE)
  /\ Goes(s, Ended(s))
  /\ UNCHANGED <<content, reviewOnly, node, kind, items, raced>>

-----------------------------------------------------------------------------
(* replace_unsuitable_mcq_task, on the threads of the pool.                *)

Unsuitable(s) ==
  /\ At(s, "calling") /\ kind[s] = "mcq" /\ Troubled(1)
  /\ Goes(s, [thread[s] EXCEPT !.pc = "choosing", !.excluded = @ \cup {thread[s].item.task}])
  /\ UNCHANGED <<content, reviewOnly, node, kind, items, raced>>

\* What the slot has and had, and what its generator called unsuitable.
Refused(s) == thread[s].excluded \cup {thread[s].item.task, plan[s].task}

\* Mutant: the other slots are not looked at.
AllUnused(s) == [task : Tasks \ Refused(s), reuse : {FALSE}]

\* catalog_exhaustion_replacement: unused tasks first, then a contract of reuse.
Compatible(s) ==
  LET used == {plan[t].task : t \in Slots \ {s}}
      free == Tasks \ (Refused(s) \cup used)
  IN IF free # {} THEN [task : free, reuse : {FALSE}]
     ELSE [task : used \ Refused(s), reuse : {TRUE}]

Changing == {"chosen", "stored", "read"}

Choose(s) ==
  /\ At(s, "choosing")
  /\ \/ \E item \in Compatible(s) : Goes(s, [thread[s] EXCEPT !.pc = "chosen", !.pick = item])
     \/ Compatible(s) = {} /\ Goes(s, Again(s))
  /\ raced' = (raced \/ \E t \in Slots \ {s} : thread[t].pc \in Changing)
  /\ UNCHANGED <<content, reviewOnly, node, trouble, kind, items>>

Store(s) ==
  /\ At(s, "chosen")
  /\ plan' = [plan EXCEPT ![s] = thread[s].pick]
  /\ Goes(s, [thread[s] EXCEPT !.pc = "stored"])
  /\ UNCHANGED <<question, reviewOnly, node, trouble, kind, items, raced>>

\* The list of plan_items is read, and replaced by another one.
Read(s) ==
  /\ At(s, "stored")
  /\ Goes(s, [thread[s] EXCEPT !.pc = "read", !.view = items])
  /\ UNCHANGED <<content, reviewOnly, node, trouble, kind, items, raced>>

Write(s) ==
  /\ At(s, "read")
  /\ items' = [thread[s].view EXCEPT ![s] = thread[s].pick]
  /\ Goes(s, IF thread[s].attempt < MaxAttempts
             THEN [thread[s] EXCEPT !.pc = "calling", !.attempt = @ + 1, !.item = thread[s].pick,
                                    !.view = <<>>, !.pick = NoItem]
             ELSE [Ended(s) EXCEPT !.view = <<>>, !.pick = NoItem])
  /\ UNCHANGED <<content, reviewOnly, node, trouble, kind, raced>>

-----------------------------------------------------------------------------
(* The coordinator.                                                        *)

\* The results of all threads; the recovery then works on a copy of plan_items.
Collect ==
  /\ node = "pool" /\ \A s \in Slots : thread[s].pc = "done"
  /\ question' = [s \in Slots |-> thread[s].made]
  /\ thread' = [s \in Slots |-> IF thread[s].made # NoQuestion THEN Idle
                                ELSE [Thread("calling", items[s], 1) EXCEPT
                                        !.excluded = thread[s].excluded]]
  /\ node' = "shortfall"
  /\ UNCHANGED <<plan, reviewOnly, trouble, kind, items, raced>>

\* replace_exhausted_fitb_entry, and one more series of calls.
ReplaceEntry(s) ==
  /\ At(s, "entry")
  /\ \/ /\ Compatible(s) = {} /\ Goes(s, Idle)
        /\ UNCHANGED <<plan, items>>
     \/ \E item \in Compatible(s) :
          /\ plan' = [plan EXCEPT ![s] = item] /\ items' = [items EXCEPT ![s] = item]
          /\ Goes(s, Thread("calling", item, MaxPasses + 1))
  /\ UNCHANGED <<question, reviewOnly, node, trouble, kind, raced>>

Handover ==
  /\ node = "shortfall" /\ Busy = {}
  /\ node' = "candidates"
  /\ items' = <<>> /\ kind' = <<>> /\ raced' = FALSE
  /\ UNCHANGED <<content, reviewOnly, trouble, thread>>

Generating(s) ==
  \/ Written(s) \/ Unusable(s) \/ GivenUp(s) \/ Unsuitable(s)
  \/ Choose(s) \/ Store(s) \/ Read(s) \/ Write(s) \/ ReplaceEntry(s)

-----------------------------------------------------------------------------
PoolInit ==
  /\ Init
  /\ kind \in Kinds /\ items = plan /\ raced = FALSE
  /\ thread = [s \in Slots |-> Thread("calling", plan[s], 0)]

ExamNext ==
  \/ \E s \in Slots : Generating(s)
  \/ Collect \/ Handover
  \/ Next /\ UNCHANGED poolVars

Spec == PoolInit /\ [][ExamNext]_allVars

\* The threads of a pool end, each call has its deadline, and the graph runs its nodes
\* one after the other until it reaches the end.
FairSpec == Spec /\ WF_allVars(ExamNext)

\* The same, said without ENABLED: in every state but the assembled one a step is
\* enabled, for the specification does not deadlock.
GoesOn == <>[](node = "assembled") \/ []<><<TRUE>>_allVars
GoingSpec == Spec /\ GoesOn

-----------------------------------------------------------------------------
\* As long as the exam is generated, two slots are given one task without a contract of
\* reuse only when both changed their tasks at the same time: each of them chose among
\* plans the other had not stored its choice in.
TwinsOnlyByRace ==
  node \in {"pool", "shortfall"} =>
    \A s, t \in Slots : s # t /\ plan[s].task = plan[t].task =>
      plan[s].reuse \/ plan[t].reuse \/ raced
=============================================================================
