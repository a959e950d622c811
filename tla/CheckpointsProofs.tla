------------------------- MODULE CheckpointsProofs --------------------------
(***************************************************************************)
(* Proofs about Checkpoints, for any number of workers, models, claims,    *)
(* rounds and faults.  Inv is inductive: an action touches one execution,  *)
(* so two lemmas, one for the steps that leave the log alone and one for   *)
(* those that append to it, reduce each action to what it does to that     *)
(* execution.                                                              *)
(***************************************************************************)
EXTENDS Checkpoints, TLAPS

-----------------------------------------------------------------------------
(* The facts a sequence of events restores.                                *)

\* What the first event restores, and what the others do.
LEMMA FactsOfTail ==
  ASSUME NEW s \in Seq(Events), s # <<>>
  PROVE  /\ Head(s) \in Events /\ Tail(s) \in Seq(Events)
         /\ FactsOf(s) = (IF Head(s).event \in RestoredEvents THEN Head(s).facts ELSE {})
                           \cup FactsOf(Tail(s))
<1>1. Head(s) \in Events /\ Tail(s) \in Seq(Events)
  OBVIOUS
<1>2. /\ Len(s) \in Nat /\ Len(s) > 0 /\ Head(s) = s[1]
      /\ DOMAIN s = 1 .. Len(s) /\ DOMAIN Tail(s) = 1 .. (Len(s) - 1)
      /\ \A i \in 1 .. (Len(s) - 1) : Tail(s)[i] = s[i + 1]
  OBVIOUS
<1>3. ASSUME NEW x, x \in FactsOf(s)
      PROVE  x \in (IF Head(s).event \in RestoredEvents THEN Head(s).facts ELSE {})
                     \cup FactsOf(Tail(s))
  <2>1. PICK i \in DOMAIN s : s[i].event \in RestoredEvents /\ x \in s[i].facts
    BY <1>3 DEF FactsOf
  <2>2. CASE i = 1
    BY <1>2, <2>1, <2>2
  <2>3. CASE i # 1
    <3>1. i - 1 \in DOMAIN Tail(s) /\ Tail(s)[i - 1] = s[i]
      BY <1>2, <2>1, <2>3
    <3>. QED  BY <2>1, <3>1 DEF FactsOf
  <2>. QED  BY <2>2, <2>3
<1>4. ASSUME NEW x, x \in (IF Head(s).event \in RestoredEvents THEN Head(s).facts ELSE {})
                            \cup FactsOf(Tail(s))
      PROVE  x \in FactsOf(s)
  <2>1. CASE Head(s).event \in RestoredEvents /\ x \in Head(s).facts
    <3>1. 1 \in DOMAIN s
      BY <1>2
    <3>. QED  BY <1>2, <2>1, <3>1 DEF FactsOf
  <2>2. CASE x \in FactsOf(Tail(s))
    <3>1. PICK i \in DOMAIN Tail(s) : Tail(s)[i].event \in RestoredEvents
                                      /\ x \in Tail(s)[i].facts
      BY <2>2 DEF FactsOf
    <3>2. i + 1 \in DOMAIN s /\ s[i + 1] = Tail(s)[i]
      BY <1>2, <3>1
    <3>. QED  BY <3>1, <3>2 DEF FactsOf
  <2>. QED  BY <1>4, <2>1, <2>2
<1>. QED  BY <1>1, <1>3, <1>4

\* No event restores nothing.
LEMMA FactsOfNone == FactsOf(<<>>) = {}
<1>1. DOMAIN <<>> = {}
  OBVIOUS
<1>. QED  BY <1>1 DEF FactsOf

\* One event restores its facts, if it is one that is read back.
LEMMA FactsOfOne ==
  ASSUME NEW e \in Events
  PROVE  /\ <<e>> \in Seq(Events) /\ <<e>> # <<>>
         /\ FactsOf(<<e>>) = IF e.event \in RestoredEvents THEN e.facts ELSE {}
<1>1. <<e>> \in Seq(Events) /\ <<e>> # <<>> /\ Head(<<e>>) = e /\ Tail(<<e>>) = <<>>
  OBVIOUS
<1>2. FactsOf(<<e>>) = (IF e.event \in RestoredEvents THEN e.facts ELSE {}) \cup FactsOf(<<>>)
  BY <1>1, FactsOfTail
<1>. QED  BY <1>1, <1>2, FactsOfNone

\* Two events restore the facts of both.
LEMMA FactsOfTwo ==
  ASSUME NEW e \in Events, NEW f \in Events
  PROVE  /\ <<e, f>> \in Seq(Events) /\ <<e, f>> # <<>>
         /\ FactsOf(<<e, f>>) =
              (IF e.event \in RestoredEvents THEN e.facts ELSE {})
                \cup (IF f.event \in RestoredEvents THEN f.facts ELSE {})
<1>1. <<e, f>> \in Seq(Events) /\ <<e, f>> # <<>> /\ Head(<<e, f>>) = e /\ Tail(<<e, f>>) = <<f>>
  OBVIOUS
<1>2. FactsOf(<<e, f>>) =
        (IF e.event \in RestoredEvents THEN e.facts ELSE {}) \cup FactsOf(<<f>>)
  BY <1>1, FactsOfTail
<1>3. FactsOf(<<f>>) = IF f.event \in RestoredEvents THEN f.facts ELSE {}
  BY FactsOfOne
<1>4. FactsOf(<<e, f>>) = (IF e.event \in RestoredEvents THEN e.facts ELSE {})
                            \cup (IF f.event \in RestoredEvents THEN f.facts ELSE {})
  BY <1>2, <1>3, Zenon
<1>. QED  BY <1>1, <1>4, Zenon

\* A committed event adds its facts to what the log restores, if it is read back.
LEMMA CommitRestores ==
  ASSUME TypeOK, NEW w \in Workers, NEW e \in Events, Commit(w, e)
  PROVE  Restored' = Restored \cup (IF e.event \in RestoredEvents THEN e.facts ELSE {})
<1>. DEFINE r == [rev |-> exec[w].rev + 1, gen |-> exec[w].gen,
                  event |-> e.event, facts |-> e.facts]
<1>1. /\ log \in Seq(LoggedEvents) /\ log' = Append(log, r)
      /\ r.event = e.event /\ r.facts = e.facts
  BY DEF TypeOK, Commit
<1>2. /\ Len(log) \in Nat /\ DOMAIN log = 1 .. Len(log)
      /\ DOMAIN log' = 1 .. (Len(log) + 1) /\ log'[Len(log) + 1] = r
      /\ \A i \in 1 .. Len(log) : log'[i] = log[i]
  <2>. HIDE DEF r
  <2>. QED  BY <1>1
<1>. HIDE DEF r
<1>3. ASSUME NEW x, x \in Restored'
      PROVE  x \in Restored \cup (IF e.event \in RestoredEvents THEN e.facts ELSE {})
  <2>1. PICK i \in DOMAIN log' : log'[i].event \in RestoredEvents /\ x \in log'[i].facts
    BY <1>3 DEF Restored, FactsOf, RestoredEvents
  <2>2. CASE i = Len(log) + 1
    BY <1>1, <1>2, <2>1, <2>2
  <2>3. CASE i # Len(log) + 1
    <3>1. i \in DOMAIN log /\ log'[i] = log[i]
      BY <1>2, <2>1, <2>3
    <3>. QED  BY <2>1, <3>1 DEF Restored, FactsOf
  <2>. QED  BY <2>2, <2>3
<1>4. ASSUME NEW x, x \in Restored \cup (IF e.event \in RestoredEvents THEN e.facts ELSE {})
      PROVE  x \in Restored'
  <2>1. CASE e.event \in RestoredEvents /\ x \in e.facts
    <3>1. Len(log) + 1 \in DOMAIN log'
      BY <1>2
    <3>. QED  BY <1>1, <1>2, <2>1, <3>1 DEF Restored, FactsOf, RestoredEvents
  <2>2. CASE x \in Restored
    <3>1. PICK i \in DOMAIN log : log[i].event \in RestoredEvents /\ x \in log[i].facts
      BY <2>2 DEF Restored, FactsOf
    <3>2. i \in DOMAIN log' /\ log'[i] = log[i]
      BY <1>2, <3>1
    <3>. QED  BY <3>1, <3>2 DEF Restored, FactsOf, RestoredEvents
  <2>. QED  BY <1>4, <2>1, <2>2
<1>. QED  BY <1>3, <1>4

\* The log restores facts, and nothing but facts.
LEMMA RestoredTyped == ASSUME TypeOK PROVE Restored \subseteq Facts
<1>1. ASSUME NEW x, x \in Restored PROVE x \in Facts
  <2>1. PICK i \in DOMAIN log : x \in log[i].facts
    BY <1>1 DEF Restored, FactsOf
  <2>2. log[i] \in LoggedEvents
    BY <2>1 DEF TypeOK
  <2>. QED  BY <2>1, <2>2 DEF LoggedEvents
<1>. QED  BY <1>1

-----------------------------------------------------------------------------
(* Types.                                                                  *)

\* What TypeOK says of one execution.
LEMMA ExecTyped ==
  ASSUME TypeOK, NEW w \in Workers
  PROVE  /\ exec[w] \in Execution
         /\ exec[w].pc = "append" => exec[w].pending # <<>>
         /\ At(w) = "generating" => exec[w].model # 0
  BY DEF TypeOK

\* An execution may be replaced by another of the right type.
LEMMA OneMoves ==
  ASSUME TypeOK, NEW w \in Workers, NEW e \in Execution,
         Becomes(w, e),
         e.pc = "append" => e.pending # <<>>,
         (IF e.pc = "append" THEN e.next ELSE e.pc) = "generating" => e.model # 0,
         row' \in JobRow, log' \in Seq(LoggedEvents), faults' \in Nat
  PROVE  TypeOK'
<1>1. exec' \in [Workers -> Execution]
  BY DEF TypeOK, Becomes
<1>2. ASSUME NEW v \in Workers
      PROVE  /\ exec'[v].pc = "append" => exec'[v].pending # <<>>
             /\ At(v)' = "generating" => exec'[v].model # 0
  <2>1. CASE v = w
    <3>1. exec'[v] = e
      BY <2>1 DEF TypeOK, Becomes
    <3>. QED  BY <3>1 DEF At
  <2>2. CASE v # w
    <3>1. exec'[v] = exec[v]
      BY <2>2 DEF TypeOK, Becomes
    <3>. QED  BY <3>1, ExecTyped DEF At
  <2>. QED  BY <2>1, <2>2
<1>. QED  BY <1>1, <1>2 DEF TypeOK

\* An execution that ends keeps its type.
LEMMA EndsTyped ==
  ASSUME TypeOK, NEW w \in Workers, Ends(w),
         row' \in JobRow, log' \in Seq(LoggedEvents), faults' \in Nat
  PROVE  TypeOK'
<1>1. Idle \in Execution
  BY DEF Idle, Execution, PCs
<1>. QED  BY <1>1, OneMoves DEF Ends, Idle

\* An execution that moves to another label keeps its type.
LEMMA GotoTyped ==
  ASSUME TypeOK, NEW w \in Workers,
         NEW pc \in PCs \ {"append", "generating"}, Goto(w, pc),
         row' \in JobRow, log' \in Seq(LoggedEvents), faults' \in Nat
  PROVE  TypeOK'
<1>. DEFINE e == [exec[w] EXCEPT !.pc = pc]
<1>1. e \in Execution /\ e.pc = pc
  BY ExecTyped DEF Execution
<1>2. Becomes(w, e)
  BY DEF Goto
<1>. HIDE DEF e
<1>. QED  BY <1>1, <1>2, OneMoves

\* An execution that runs a node keeps its type.
LEMMA RunTyped ==
  ASSUME TypeOK, NEW w \in Workers, NEW n, NEW facts \in SUBSET Facts,
         NEW events \in Seq(Events), events # <<>>,
         NEW next \in PCs \ {"append", "generating"},
         Run(w, n, facts, events, next)
  PROVE  TypeOK'
<1>. DEFINE rounds == IF next \in Loops THEN exec[w].rounds + 1 ELSE exec[w].rounds
            e == [exec[w] EXCEPT !.pc = "append", !.done = exec[w].done \cup facts,
                                 !.pending = events, !.next = next, !.rounds = rounds]
<1>1. exec[w] \in Execution /\ rounds \in Nat
  BY ExecTyped DEF Execution
<1>2. Becomes(w, e)
  BY DEF Run
<1>. HIDE DEF rounds
<1>3. e \in Execution /\ e.pc = "append" /\ e.pending = events /\ e.next = next
  BY <1>1 DEF Execution, PCs
<1>4. row' \in JobRow /\ log' \in Seq(LoggedEvents) /\ faults' \in Nat
  BY DEF Run, TypeOK
<1>. HIDE DEF e
<1>. QED  BY <1>2, <1>3, <1>4, OneMoves

\* A committed event keeps the types of the row and the log.
LEMMA CommitTyped ==
  ASSUME TypeOK, NEW w \in Workers, NEW e \in Events, Commit(w, e)
  PROVE  row' \in JobRow /\ log' \in Seq(LoggedEvents)
<1>. DEFINE r == [rev |-> exec[w].rev + 1, gen |-> exec[w].gen,
                  event |-> e.event, facts |-> e.facts]
<1>1. row \in JobRow /\ log \in Seq(LoggedEvents) /\ exec[w] \in Execution
  BY ExecTyped DEF TypeOK
<1>2. r \in LoggedEvents
  BY <1>1 DEF Execution, Events, LoggedEvents
<1>3. row' = [row EXCEPT !.rev = exec[w].rev + 1] /\ exec[w].rev + 1 \in Nat
  BY <1>1 DEF Commit, Execution
<1>5. row' \in JobRow
  BY <1>1, <1>3 DEF JobRow
<1>4. log' = Append(log, r)
  BY DEF Commit
<1>. HIDE DEF r
<1>. QED  BY <1>1, <1>2, <1>4, <1>5

\* The events that the nodes and the handlers append.
LEMMA EventTyped ==
  ASSUME NEW name \in Names, NEW facts \in SUBSET Facts
  PROVE  /\ Event(name, facts) \in Events
         /\ Event(name, facts).event = name /\ Event(name, facts).facts = facts
  BY DEF Event, Events

\* Where the graph goes on from a checkpoint is always a node, one that agrees
\* with what the checkpoint holds.
LEMMA ResumeTyped ==
  ASSUME NEW done \in SUBSET Facts
  PROVE  /\ Resume(done) \in Nodes \ {"generate"}
         /\ Resume(done) = "retrieve" /\ "plans" \notin done => "catalog" \notin done
         /\ Resume(done) = "catalog" => {"plans", "catalog"} \cap done = {}
         /\ Resume(done) = "plan" => "plans" \notin done
<1>1. CASE "plans" \in done /\ "chunks" \notin done
  <2>1. Resume(done) = "retrieve"
    BY <1>1 DEF Resume
  <2>. QED  BY <1>1, <2>1 DEF Nodes
<1>2. CASE {"plans", "chunks"} \subseteq done
  <2>1. Resume(done) \in {"validate", "repair_plan"}
    BY <1>2 DEF Resume
  <2>. QED  BY <1>2, <2>1 DEF Nodes
<1>3. CASE "plans" \notin done /\ "catalog" \in done
  <2>1. Resume(done) = "plan"
    BY <1>3 DEF Resume
  <2>. QED  BY <1>3, <2>1 DEF Nodes
<1>4. CASE "plans" \notin done /\ "catalog" \notin done
  <2>1. Resume(done) \in {"catalog", "retrieve"}
    BY <1>4 DEF Resume
  <2>. QED  BY <1>4, <2>1 DEF Nodes
<1>. QED  BY <1>1, <1>2, <1>3, <1>4
-----------------------------------------------------------------------------
(* What a step of one execution does to the others: nothing.               *)

\* Replacing execution w leaves the others where they were.
LEMMA OthersStay ==
  ASSUME TypeOK, NEW w \in Workers, NEW e, Becomes(w, e)
  PROVE  /\ exec'[w] = e
         /\ \A v \in Workers \ {w} : exec'[v] = exec[v]
  BY DEF TypeOK, Becomes

\* A step that leaves the log alone, and gives the job to nobody, keeps the
\* invariant if it keeps it for the execution that takes it.
LEMMA QuietStep ==
  ASSUME Inv, TypeOK', NEW w \in Workers, NEW e, Becomes(w, e),
         log' = log, row'.gen = row.gen, row'.rev = row.rev,
         row'.status = "running" => row.status = "running",
         e.pc = "idle" \/ (exec[w].pc # "idle" /\ e.gen = exec[w].gen),
         Where(w)',
         ReplaySource = {} /\ Owns(w)' => Knows(w)'
  PROVE  Inv'
<1>1. /\ exec'[w] = e
      /\ \A v \in Workers \ {w} : exec'[v] = exec[v]
  BY OthersStay DEF Inv
<1>2. Restored' = Restored
  BY DEF Restored, FactsOf, RestoredEvents
<1>3. LogSound'
  BY DEF Inv, LogSound
<1>4. ClaimsIssued'
  BY <1>1 DEF Inv, ClaimsIssued
<1>5. ASSUME NEW v \in Workers, v # w, ReplaySource = {}, Owns(v)'
      PROVE  Knows(v)'
  <2>1. Owns(v) /\ exec'[v] = exec[v] /\ At(v)' = At(v)
    BY <1>1, <1>5 DEF Owns, At
  <2>2. Knows(v)
    BY <1>5, <2>1 DEF Inv, OwnerKnows
  <2>. QED  BY <1>2, <2>1, <2>2 DEF Knows, FactsOf, Nodes, RestoredEvents
<1>6. OwnerKnows'
  BY <1>5 DEF OwnerKnows
<1>7. ASSUME NEW v \in Workers, v # w
      PROVE  Where(v)'
  <2>1. exec'[v] = exec[v] /\ At(v)' = At(v)
    BY <1>1, <1>7 DEF At
  <2>2. Where(v)
    BY DEF Inv, WhereItIs
  <2>. QED  BY <2>1, <2>2 DEF Where
<1>8. WhereItIs'
  BY <1>7 DEF WhereItIs
<1>. QED  BY <1>3, <1>4, <1>6, <1>8 DEF Inv

\* A step that appends an event, which only the owner of the job can.
LEMMA CommitStep ==
  ASSUME Inv, TypeOK', NEW w \in Workers, NEW e, Becomes(w, e),
         NEW event \in Events, CanAppend(w), Commit(w, event),
         exec[w].pc # "idle", e.pc = "idle" \/ e.gen = exec[w].gen,
         Where(w)',
         ReplaySource = {} => Knows(w)'
  PROVE  Inv'
<1>1. /\ exec'[w] = e
      /\ \A v \in Workers \ {w} : exec'[v] = exec[v]
  BY OthersStay DEF Inv
<1>2. /\ row \in JobRow /\ log \in Seq(LoggedEvents) /\ Len(log) \in Nat
      /\ exec[w].gen = row.gen /\ exec[w].rev = row.rev /\ row.rev = Len(log)
  <2>1. row \in JobRow /\ log \in Seq(LoggedEvents) /\ row.rev = Len(log)
    BY DEF Inv, TypeOK, LogSound
  <2>2. Len(log) \in Nat
    BY <2>1
  <2>. QED  BY <2>1, <2>2 DEF CanAppend, Owns
<1>3. /\ row'.gen = row.gen /\ row'.status = row.status /\ row'.rev = Len(log) + 1
  BY <1>2 DEF Commit, JobRow
<1>4. /\ Len(log') = Len(log) + 1
      /\ \A i \in 1 .. Len(log) : log'[i] = log[i]
      /\ log'[Len(log) + 1].rev = Len(log) + 1 /\ log'[Len(log) + 1].gen = row.gen
  <2>. DEFINE r == [rev |-> exec[w].rev + 1, gen |-> exec[w].gen,
                    event |-> event.event, facts |-> event.facts]
  <2>1. log' = Append(log, r) /\ r.rev = Len(log) + 1 /\ r.gen = row.gen
    BY <1>2 DEF Commit
  <2>. HIDE DEF r
  <2>. QED  BY <1>2, <2>1
<1>5. \A i \in 1 .. Len(log) : log[i].gen <= row.gen /\ log[i].gen \in Nat
  <2>1. \A i \in 1 .. Len(log) : log[i] \in LoggedEvents
    BY <1>2
  <2>. QED  BY <2>1 DEF Inv, ClaimsIssued, LoggedEvents
<1>6. LogSound'
  <2>1. ASSUME NEW i \in 1 .. Len(log'), NEW k \in 1 .. Len(log'), i < k
        PROVE  log'[i].gen <= log'[k].gen
    <3>1. i \in 1 .. Len(log) /\ (k \in 1 .. Len(log) \/ k = Len(log) + 1)
      BY <1>2, <1>4, <2>1
    <3>. QED  BY <1>4, <1>5, <2>1, <3>1 DEF Inv, LogSound
  <2>2. ASSUME NEW i \in 1 .. Len(log')
        PROVE  log'[i].rev = i
    <3>1. i \in 1 .. Len(log) \/ i = Len(log) + 1
      BY <1>2, <1>4
    <3>. QED  BY <1>4, <3>1 DEF Inv, LogSound
  <2>. QED  BY <1>3, <1>4, <2>1, <2>2 DEF LogSound
<1>7. ClaimsIssued'
  <2>1. ASSUME NEW i \in 1 .. Len(log')
        PROVE  log'[i].gen <= row'.gen
    <3>1. i \in 1 .. Len(log) \/ i = Len(log) + 1
      BY <1>2, <1>4
    <3>. QED  BY <1>2, <1>3, <1>4, <1>5, <3>1 DEF JobRow
  <2>. QED  BY <1>1, <1>3, <2>1 DEF Inv, ClaimsIssued
<1>8. ASSUME NEW v \in Workers, v # w, Owns(v)', ReplaySource = {}
      PROVE  Knows(v)'
  <2>1. exec'[v] = exec[v] /\ exec[v].gen = exec[w].gen
    BY <1>1, <1>2, <1>3, <1>8 DEF Owns
  <2>2. exec'[v].pc = "idle"
    BY <1>8, <2>1 DEF Inv, ClaimsIssued
  <2>. QED  BY <2>2 DEF Knows, At, Nodes
<1>9. OwnerKnows'
  BY <1>8 DEF OwnerKnows
<1>10. ASSUME NEW v \in Workers, v # w
       PROVE  Where(v)'
  <2>1. exec'[v] = exec[v] /\ At(v)' = At(v)
    BY <1>1, <1>10 DEF At
  <2>2. Where(v)
    BY DEF Inv, WhereItIs
  <2>. QED  BY <2>1, <2>2 DEF Where
<1>11. WhereItIs'
  BY <1>10 DEF WhereItIs
<1>. QED  BY <1>6, <1>7, <1>9, <1>11 DEF Inv

\* An execution may always end.
LEMMA EndStep ==
  ASSUME Inv, NEW w \in Workers, Ends(w),
         log' = log, row' \in JobRow, row'.gen = row.gen, row'.rev = row.rev,
         row'.status = "running" => row.status = "running", faults' \in Nat
  PROVE  Inv'
<1>1. TypeOK'
  BY EndsTyped DEF Inv, TypeOK
<1>2. Becomes(w, Idle) /\ Idle.pc = "idle"
  BY DEF Ends, Idle
<1>3. exec'[w].pc = "idle"
  BY <1>2, OthersStay DEF Inv
<1>4. Where(w)' /\ Knows(w)'
  BY <1>3 DEF Where, Knows, At, Nodes
<1>. QED  BY <1>1, <1>2, <1>4, QuietStep

\* Or give the graph up for its handlers.
LEMMA LeaveStep ==
  ASSUME Inv, NEW w \in Workers, NEW pc \in {"diagnose", "handle"}, Goto(w, pc),
         exec[w].pc # "idle", log' = log, row' = row, faults' \in Nat
  PROVE  Inv'
<1>1. TypeOK'
  BY GotoTyped DEF Inv, TypeOK, PCs
<1>. DEFINE e == [exec[w] EXCEPT !.pc = pc]
<1>2. Becomes(w, e) /\ e.pc = pc /\ e.gen = exec[w].gen
  BY ExecTyped DEF Goto, Inv, Execution
<1>. HIDE DEF e
<1>3. exec'[w].pc = pc
  BY <1>2, OthersStay DEF Inv
<1>4. Where(w)' /\ Knows(w)'
  BY <1>3 DEF Where, Knows, At, Nodes
<1>. QED  BY <1>1, <1>2, <1>4, QuietStep
-----------------------------------------------------------------------------
(* The nodes of the graph.                                                 *)

\* A node whose events restore the facts it found, and that goes on to a node
\* those facts allow.
LEMMA RunStep ==
  ASSUME Inv, NEW w \in Workers, NEW n \in Nodes, NEW facts \in SUBSET Facts,
         NEW events \in Seq(Events), events # <<>>, FactsOf(events) = facts,
         NEW next \in PCs \ {"append", "generating"},
         Run(w, n, facts, events, next),
         next = "retrieve" /\ "plans" \notin exec[w].done \cup facts
           => "catalog" \notin exec[w].done \cup facts,
         next = "catalog" => {"plans", "catalog"} \cap (exec[w].done \cup facts) = {},
         next = "plan" => "plans" \notin exec[w].done \cup facts,
         next = "generate" => "plans" \in exec[w].done \cup facts
  PROVE  Inv'
<1>1. TypeOK'
  BY RunTyped DEF Inv
<1>. DEFINE e == [exec[w] EXCEPT
               !.pc = "append", !.done = exec[w].done \cup facts,
               !.pending = events, !.next = next,
               !.rounds = IF next \in Loops THEN exec[w].rounds + 1 ELSE exec[w].rounds]
<1>2. Becomes(w, e) /\ exec[w].pc = n /\ Owns(w) /\ row' = row /\ log' = log
  BY DEF Run
<1>3. exec[w] \in Execution
  BY ExecTyped DEF Inv
<1>4. /\ e.pc = "append" /\ e.done = exec[w].done \cup facts /\ e.pending = events /\ e.next = next
      /\ e.gen = exec[w].gen
  BY <1>3 DEF Execution
<1>. HIDE DEF e
<1>5. exec'[w] = e
  BY <1>2, OthersStay DEF Inv
<1>6. Where(w)'
  BY <1>4, <1>5 DEF Where, At
<1>7. ASSUME ReplaySource = {}
      PROVE  Knows(w)'
  <2>1. exec[w].done = Restored
    BY <1>2, <1>7 DEF Inv, OwnerKnows, Knows
  <2>2. Restored' = Restored /\ FactsOf(events)' = FactsOf(events)
    BY <1>2 DEF Restored, FactsOf, RestoredEvents
  <2>3. At(w)' = next
    BY <1>4, <1>5 DEF At
  <2>. QED  BY <1>4, <1>5, <2>1, <2>2, <2>3 DEF Knows, Nodes
<1>8. exec[w].pc # "idle"
  BY <1>2 DEF Nodes
<1>. QED  BY <1>1, <1>2, <1>4, <1>6, <1>7, <1>8, QuietStep

\* Retrieval goes on to the catalog, or, its plans restored, to where they lead.
LEMMA RetrieveStep == ASSUME Inv, NEW w \in Workers, Retrieve(w) PROVE Inv'
<1>. DEFINE facts == {"chunks"}
            event == Event("retrieval_completed", facts)
            done == exec[w].done \cup facts
            next == IF "plans" \in exec[w].done THEN Resume(done) ELSE "catalog"
<1>1. Run(w, "retrieve", facts, <<event>>, next)
  BY DEF Retrieve
<1>2. facts \in SUBSET Facts /\ exec[w].done \in SUBSET Facts /\ done \in SUBSET Facts
  BY ExecTyped DEF Inv, Execution, Facts, Stages
<1>3. <<event>> \in Seq(Events) /\ <<event>> # <<>> /\ FactsOf(<<event>>) = facts
  BY <1>2, EventTyped, FactsOfOne DEF Names, RestoredEvents
<1>4. At(w) = "retrieve" /\ Where(w)
  BY <1>1 DEF Run, At, Inv, WhereItIs
<1>5. /\ next \in PCs \ {"append", "generating"}
      /\ next = "retrieve" /\ "plans" \notin done => "catalog" \notin done
      /\ next = "catalog" => {"plans", "catalog"} \cap done = {}
      /\ next = "plan" => "plans" \notin done
      /\ next # "generate"
  BY <1>2, <1>4, ResumeTyped DEF Where, PCs, Nodes
<1>6. "retrieve" \in Nodes
  BY DEF Nodes
<1>. HIDE DEF next, event, facts
<1>. QED  BY <1>1, <1>2, <1>3, <1>5, <1>6, RunStep

\* The catalog is compiled only before there are plans.
LEMMA CompileCatalogStep == ASSUME Inv, NEW w \in Workers, CompileCatalog(w) PROVE Inv'
<1>. DEFINE facts == {"catalog"}
            event == Event("assessment_catalog_compiled", facts)
<1>1. Run(w, "catalog", facts, <<event>>, "plan")
  BY DEF CompileCatalog
<1>2. facts \in SUBSET Facts
  BY DEF Facts, Stages
<1>3. <<event>> \in Seq(Events) /\ <<event>> # <<>> /\ FactsOf(<<event>>) = facts
  BY <1>2, EventTyped, FactsOfOne DEF Names, RestoredEvents
<1>4. At(w) = "catalog" /\ Where(w)
  BY <1>1 DEF Run, At, Inv, WhereItIs
<1>5. "plans" \notin exec[w].done \cup facts
  BY <1>4 DEF Where
<1>6. "catalog" \in Nodes /\ "plan" \in PCs \ {"append", "generating"}
  BY DEF Nodes, PCs
<1>. HIDE DEF event, facts
<1>. QED  BY <1>1, <1>2, <1>3, <1>5, <1>6, RunStep

\* The three nodes that leave plans.
LEMMA PlansStep ==
  ASSUME Inv, NEW w \in Workers, NEW n \in Nodes,
         NEW name \in {"plan_completed", "plan_repaired", "difficulty_adjustment_completed"},
         NEW next \in AfterPlan(w),
         Run(w, n, {"plans"}, <<Event(name, {"plans"})>>, next)
  PROVE  Inv'
<1>. DEFINE facts == {"plans"}
            event == Event(name, facts)
<1>1. facts \in SUBSET Facts
  BY DEF Facts, Stages
<1>2. name \in Names /\ name \in RestoredEvents
  BY DEF Names, RestoredEvents
<1>3. event \in Events /\ event.event = name /\ event.facts = facts
  BY <1>1, <1>2, EventTyped
<1>4. <<event>> \in Seq(Events) /\ <<event>> # <<>> /\ FactsOf(<<event>>) = facts
  BY <1>2, <1>3, FactsOfOne
<1>5. next \in {"generate", "handle", "repair_plan", "adjust"}
  BY DEF AfterPlan, Rounds
<1>6. next \in PCs \ {"append", "generating"}
  BY <1>5 DEF PCs, Nodes
<1>7. Run(w, n, facts, <<event>>, next) /\ "plans" \in exec[w].done \cup facts
  OBVIOUS
<1>. HIDE DEF event, facts
<1>. QED  BY <1>1, <1>4, <1>5, <1>6, <1>7, RunStep

\* The three nodes that find nothing that is restored.
LEMMA NothingFoundStep ==
  ASSUME Inv, NEW w \in Workers, NEW n \in Nodes,
         NEW events \in Seq(Events), events # <<>>, FactsOf(events) = {},
         NEW next \in {"validate", "repair", "assemble", "finishing"},
         Run(w, n, {}, events, next)
  PROVE  Inv'
<1>1. next \in PCs \ {"append", "generating"}
  BY DEF PCs, Nodes
<1>2. {} \in SUBSET Facts
  OBVIOUS
<1>. QED  BY <1>1, <1>2, RunStep

\* Validation restores nothing of what the model tells apart.
LEMMA ValidateStep == ASSUME Inv, NEW w \in Workers, Validate(w) PROVE Inv'
<1>. DEFINE event == Event("validation_completed", {})
            more == Event("quantitative_validation_completed", {})
<1>1. PICK next \in {"assemble", "validate", "repair"}, events \in {<<event>>, <<event, more>>} :
        Run(w, "validate", {}, events, next)
  BY DEF Validate, Rounds
<1>2. event \in Events /\ event.facts = {} /\ more \in Events /\ more.facts = {}
  BY EventTyped DEF Names, RestoredEvents
<1>. HIDE DEF event, more
<1>3. events \in Seq(Events) /\ events # <<>> /\ FactsOf(events) = {}
  <2>1. <<event>> \in Seq(Events) /\ <<event>> # <<>> /\ FactsOf(<<event>>) = {}
    BY <1>2, FactsOfOne
  <2>2. /\ <<event, more>> \in Seq(Events) /\ <<event, more>> # <<>>
        /\ FactsOf(<<event, more>>) = {}
    BY <1>2, FactsOfTwo
  <2>. QED  BY <1>1, <2>1, <2>2, Zenon
<1>4. "validate" \in Nodes
  BY DEF Nodes
<1>. QED  BY <1>1, <1>3, <1>4, NothingFoundStep

\* Nor does the repair of questions.
LEMMA RepairStep == ASSUME Inv, NEW w \in Workers, Repair(w) PROVE Inv'
<1>. DEFINE event == Event("repair_completed", {})
<1>1. Run(w, "repair", {}, <<event>>, "validate")
  BY DEF Repair
<1>2. event \in Events /\ event.facts = {}
  BY EventTyped DEF Names, RestoredEvents
<1>. HIDE DEF event
<1>3. <<event>> \in Seq(Events) /\ <<event>> # <<>> /\ FactsOf(<<event>>) = {}
  BY <1>2, FactsOfOne
<1>4. "repair" \in Nodes
  BY DEF Nodes
<1>. QED  BY <1>1, <1>3, <1>4, NothingFoundStep

\* Nor does the assembly of the exam.
LEMMA AssembleStep == ASSUME Inv, NEW w \in Workers, Assemble(w) PROVE Inv'
<1>. DEFINE event == Event("exam_assembled", {})
            more == Event("question_shortage", {})
<1>1. PICK events \in {<<event>>, <<event, more>>} : Run(w, "assemble", {}, events, "finishing")
  BY DEF Assemble
<1>2. event \in Events /\ event.facts = {} /\ more \in Events /\ more.facts = {}
  BY EventTyped DEF Names
<1>. HIDE DEF event, more
<1>3. events \in Seq(Events) /\ events # <<>> /\ FactsOf(events) = {}
  <2>1. <<event>> \in Seq(Events) /\ <<event>> # <<>> /\ FactsOf(<<event>>) = {}
    BY <1>2, FactsOfOne
  <2>2. /\ <<event, more>> \in Seq(Events) /\ <<event, more>> # <<>>
        /\ FactsOf(<<event, more>>) = {}
    BY <1>2, FactsOfTwo
  <2>. QED  BY <1>1, <2>1, <2>2, Zenon
<1>4. "assemble" \in Nodes
  BY DEF Nodes
<1>. QED  BY <1>1, <1>3, <1>4, NothingFoundStep
-----------------------------------------------------------------------------
(* Generation.                                                             *)

\* Generation starts from the plans, knowing what the log restores.
LEMMA StartGenerationStep ==
  ASSUME Inv, NEW w \in Workers, StartGeneration(w) PROVE Inv'
<1>. DEFINE e == [exec[w] EXCEPT !.pc = "generating", !.model = 1]
<1>1. /\ Becomes(w, e) /\ exec[w].pc = "generate" /\ Owns(w)
      /\ row' = row /\ log' = log /\ faults' = faults
  BY DEF StartGeneration
<1>2. exec[w] \in Execution
  BY ExecTyped DEF Inv
<1>3. /\ e \in Execution /\ e.pc = "generating" /\ e.model = 1
      /\ e.gen = exec[w].gen /\ e.done = exec[w].done
  BY <1>2 DEF Execution, PCs
<1>. HIDE DEF e
<1>4. TypeOK'
  BY <1>1, <1>3, OneMoves DEF Inv, TypeOK
<1>5. exec'[w] = e
  BY <1>1, OthersStay DEF Inv
<1>6. At(w)' = "generating"
  BY <1>3, <1>5 DEF At
<1>7. "plans" \in exec[w].done
  BY <1>1 DEF Inv, WhereItIs, Where, At
<1>8. Where(w)'
  BY <1>3, <1>5, <1>6, <1>7 DEF Where
<1>9. ASSUME ReplaySource = {}
      PROVE  Knows(w)'
  <2>1. exec[w].done = Restored
    BY <1>1, <1>9 DEF Inv, OwnerKnows, Knows, Nodes
  <2>2. Restored' = Restored
    BY <1>1 DEF Restored, FactsOf, RestoredEvents
  <2>. QED  BY <1>3, <1>5, <2>1, <2>2 DEF Knows, Nodes
<1>. QED  BY <1>1, <1>3, <1>4, <1>8, <1>9, QuietStep

\* The model an execution generates is one of the models.
LEMMA ModelTyped ==
  ASSUME Inv, NEW w \in Workers, exec[w].pc = "generating", exec[w].model <= Len(ModelOrder)
  PROVE  ModelOrder[exec[w].model] \in Models
<1>1. exec[w].model \in Nat /\ exec[w].model # 0
  BY ExecTyped DEF Inv, Execution, At
<1>2. ModelOrder \in Seq(Models)
  BY OrderAssumption
<1>3. exec[w].model \in 1 .. Len(ModelOrder)
  BY <1>1, <1>2
<1>. QED  BY <1>2, <1>3

\* A model adds its questions to what the owner knows, and its checkpoint holds
\* only questions the owner has.
LEMMA GenerateModelStep ==
  ASSUME Inv, NEW w \in Workers, GenerateModel(w) PROVE Inv'
<1>. DEFINE m == ModelOrder[exec[w].model]
<1>1. PICK early \in SUBSET {m}, late \in SUBSET {m} :
        Becomes(w, [exec[w] EXCEPT
          !.pc = "append", !.next = "generating", !.model = exec[w].model + 1,
          !.done = exec[w].done \cup early \cup late,
          !.pending = <<Event("generation_checkpoint",
                              {"plans"} \cup ((exec[w].done \cap Models) \cup early))>>])
  BY DEF GenerateModel
<1>2. /\ exec[w].pc = "generating" /\ exec[w].model <= Len(ModelOrder)
      /\ row' = row /\ log' = log /\ faults' = faults
  BY DEF GenerateModel
<1>3. exec[w] \in Execution
  BY ExecTyped DEF Inv
<1>4. early \subseteq Models /\ late \subseteq Models
  BY <1>1, <1>2, ModelTyped
<1>. DEFINE facts == {"plans"} \cup ((exec[w].done \cap Models) \cup early)
            event == Event("generation_checkpoint", facts)
            done == exec[w].done \cup early \cup late
            model == exec[w].model + 1
<1>5. /\ facts \in SUBSET Facts /\ done \in SUBSET Facts
  BY <1>3, <1>4 DEF Execution, Facts, Stages
<1>6. PICK pending \in Seq(Events) :
        pending = <<event>> /\ pending # <<>> /\ FactsOf(pending) = facts
  <2>1. <<event>> \in Seq(Events) /\ <<event>> # <<>> /\ FactsOf(<<event>>) = facts
    BY <1>5, EventTyped, FactsOfOne DEF Names, RestoredEvents
  <2>. QED  BY <2>1
<1>. DEFINE e == [exec[w] EXCEPT !.pc = "append", !.next = "generating",
                                 !.model = model, !.done = done, !.pending = pending]
<1>7. Becomes(w, e)
  BY <1>1, <1>6
<1>8. model \in Nat /\ model # 0
  BY <1>3 DEF Execution
<1>. HIDE DEF event, done, model
<1>9. /\ e \in Execution /\ e.pc = "append" /\ e.next = "generating" /\ e.model # 0
      /\ e.gen = exec[w].gen /\ e.done = done /\ e.pending = pending
  BY <1>3, <1>5, <1>8 DEF Execution, PCs
<1>. HIDE DEF e, m
<1>10. TypeOK'
  BY <1>2, <1>6, <1>7, <1>9, OneMoves DEF Inv, TypeOK
<1>11. exec'[w] = e /\ At(w)' = "generating"
  BY <1>7, <1>9, OthersStay DEF Inv, At
<1>12. "plans" \in exec[w].done
  BY <1>2 DEF Inv, WhereItIs, Where, At
<1>13. Where(w)'
  BY <1>9, <1>11, <1>12 DEF Where, done
<1>14. ASSUME ReplaySource = {}, Owns(w)'
       PROVE  Knows(w)'
  <2>1. Owns(w) /\ At(w) = "generating"
    BY <1>2, <1>9, <1>11, <1>14 DEF Owns, At
  <2>2. Restored \subseteq exec[w].done /\ exec[w].done \ Models \subseteq Restored
    BY <1>14, <2>1 DEF Inv, OwnerKnows, Knows
  <2>3. Restored' = Restored /\ FactsOf(pending)' = FactsOf(pending)
    BY <1>2 DEF Restored, FactsOf, RestoredEvents
  <2>4. /\ Restored \subseteq done /\ done \ Models \subseteq Restored
        /\ FactsOf(pending) \subseteq done
    BY <1>4, <1>6, <1>12, <2>2 DEF done
  <2>. QED  BY <1>9, <1>11, <2>3, <2>4 DEF Knows, Nodes
<1>. QED  BY <1>2, <1>7, <1>9, <1>10, <1>13, <1>14, QuietStep

\* The last event of generation restores every question made since the first.
LEMMA EndGenerationStep ==
  ASSUME Inv, NEW w \in Workers, EndGeneration(w) PROVE Inv'
<1>. DEFINE facts == {"plans"} \cup (exec[w].done \cap Models)
            event == Event("questions_generated", facts)
<1>1. /\ exec[w].pc = "generating"
      /\ row' = row /\ log' = log /\ faults' = faults
  BY DEF EndGeneration
<1>2. exec[w] \in Execution
  BY ExecTyped DEF Inv
<1>3. facts \in SUBSET Facts
  BY <1>2 DEF Execution, Facts, Stages
<1>4. PICK pending \in Seq(Events) :
        pending = <<event>> /\ pending # <<>> /\ FactsOf(pending) = facts
  <2>1. <<event>> \in Seq(Events) /\ <<event>> # <<>> /\ FactsOf(<<event>>) = facts
    BY <1>3, EventTyped, FactsOfOne DEF Names, RestoredEvents
  <2>. QED  BY <2>1
<1>. DEFINE e == [exec[w] EXCEPT !.pc = "append", !.next = "validate", !.pending = pending]
<1>5. Becomes(w, e)
  BY <1>4 DEF EndGeneration
<1>. HIDE DEF event
<1>6. /\ e \in Execution /\ e.pc = "append" /\ e.next = "validate"
      /\ e.gen = exec[w].gen /\ e.done = exec[w].done /\ e.pending = pending
  BY <1>2 DEF Execution, PCs, Nodes
<1>. HIDE DEF e
<1>7. TypeOK'
  BY <1>1, <1>4, <1>6, <1>5, OneMoves DEF Inv, TypeOK
<1>8. exec'[w] = e /\ At(w)' = "validate"
  BY <1>6, <1>5, OthersStay DEF Inv, At
<1>9. Where(w)'
  BY <1>8 DEF Where
<1>10. ASSUME ReplaySource = {}, Owns(w)'
      PROVE  Knows(w)'
  <2>1. /\ Restored \subseteq exec[w].done /\ exec[w].done \ Models \subseteq Restored
        /\ "plans" \in exec[w].done
    BY <1>1, <1>6, <1>8, <1>10 DEF Inv, OwnerKnows, Knows, Owns, At, WhereItIs, Where
  <2>2. Restored' = Restored /\ FactsOf(pending)' = FactsOf(pending)
    BY <1>1 DEF Restored, FactsOf, RestoredEvents
  <2>3. exec[w].done = Restored \cup facts
    <3>1. "plans" \in Restored
      BY <2>1, FactsAssumption DEF Stages
    <3>. QED  BY <2>1, <3>1
  <2>. QED  BY <1>4, <1>6, <1>8, <2>2, <2>3 DEF Knows, Nodes
<1>. QED  BY <1>1, <1>6, <1>7, <1>9, <1>10, <1>5, QuietStep

-----------------------------------------------------------------------------
(* The checkpoint writer.                                                  *)

\* The event is committed and the execution goes on, to the next event if it
\* has one.
LEMMA AppendEventStep ==
  ASSUME Inv, NEW w \in Workers, AppendEvent(w) PROVE Inv'
<1>1. CASE ~CanAppend(w)
  BY <1>1, EndStep DEF AppendEvent, Inv, TypeOK
<1>2. CASE CanAppend(w)
  <2>1. /\ exec[w] \in Execution /\ exec[w].pc = "append" /\ exec[w].pending # <<>>
        /\ exec[w].pending \in Seq(Events) /\ At(w) = exec[w].next /\ Owns(w)
    BY <1>2, ExecTyped DEF AppendEvent, CanAppend, Inv, Execution, At
  <2>2. PICK event \in Events, rest \in Seq(Events) :
          /\ event = Head(exec[w].pending) /\ rest = Tail(exec[w].pending)
          /\ FactsOf(exec[w].pending) =
               (IF event.event \in RestoredEvents THEN event.facts ELSE {}) \cup FactsOf(rest)
    BY <2>1, FactsOfTail
  <2>. DEFINE rev == exec[w].rev + 1
              pc == IF rest = <<>> THEN exec[w].next ELSE "append"
              e == [exec[w] EXCEPT !.rev = rev, !.pending = rest, !.pc = pc]
  <2>3. Commit(w, event) /\ Becomes(w, e) /\ faults' = faults
    BY <1>2, <2>2 DEF AppendEvent
  <2>4. rev \in Nat
    BY <2>1 DEF Execution
  <2>. HIDE DEF rev
  <2>5. /\ e \in Execution /\ e.pc = pc /\ e.pending = rest /\ e.next = exec[w].next
        /\ e.gen = exec[w].gen /\ e.done = exec[w].done /\ e.model = exec[w].model
    BY <2>1, <2>4 DEF Execution, PCs
  <2>. HIDE DEF e
  <2>6. pc # "append" \/ rest # <<>>
    BY <2>1 DEF Execution
  <2>7. exec'[w] = e
    BY <2>3, OthersStay DEF Inv
  <2>8. At(w)' = At(w)
    BY <2>1, <2>5, <2>7 DEF At, Execution
  <2>9. TypeOK'
    <3>1. row' \in JobRow /\ log' \in Seq(LoggedEvents) /\ faults' \in Nat
      BY <2>3, CommitTyped DEF Inv, TypeOK
    <3>2. At(w)' = (IF e.pc = "append" THEN e.next ELSE e.pc)
      BY <2>7 DEF At
    <3>3. At(w)' = "generating" => e.model # 0
      BY <2>5, <2>8, ExecTyped DEF Inv
    <3>. QED  BY <2>3, <2>5, <2>6, <3>1, <3>2, <3>3, OneMoves DEF Inv
  <2>10. Where(w)'
    BY <2>5, <2>7, <2>8 DEF Inv, WhereItIs, Where
  <2>11. ASSUME ReplaySource = {}
         PROVE  Knows(w)'
    <3>. DEFINE head == IF event.event \in RestoredEvents THEN event.facts ELSE {}
    <3>1. /\ Knows(w)
      BY <2>1, <2>11 DEF Inv, OwnerKnows
    <3>2. /\ Restored' = Restored \cup head /\ FactsOf(rest)' = FactsOf(rest)
      BY <2>3, CommitRestores DEF Inv, FactsOf, RestoredEvents
    <3>3. FactsOf(exec[w].pending) = head \cup FactsOf(rest)
      BY <2>2
    <3>4. rest = <<>> => FactsOf(rest) = {}
      BY FactsOfNone
    <3>. HIDE DEF head
    <3>5. CASE exec[w].next \notin {"generating", "handle"}
      <4>1. exec[w].done = Restored' \cup FactsOf(rest)
        BY <2>1, <3>1, <3>2, <3>3, <3>5 DEF Knows
      <4>2. CASE rest = <<>>
        <5>1. pc = exec[w].next /\ exec[w].done = Restored'
          BY <3>4, <4>1, <4>2
        <5>. HIDE DEF pc
        <5>. QED  BY <2>1, <2>5, <2>6, <2>7, <2>8, <3>5, <4>2, <5>1 DEF Knows
      <4>3. CASE rest # <<>>
        <5>1. pc = "append"
          BY <4>3
        <5>. HIDE DEF pc
        <5>. QED  BY <2>1, <2>5, <2>7, <2>8, <3>2, <3>5, <4>1, <5>1 DEF Knows, Nodes
      <4>. QED  BY <4>2, <4>3
    <3>6. CASE exec[w].next = "generating"
      <4>1. /\ Restored' \subseteq exec[w].done /\ exec[w].done \ Models \subseteq Restored'
            /\ FactsOf(rest) \subseteq exec[w].done
        BY <2>1, <3>1, <3>2, <3>3, <3>6 DEF Knows
      <4>2. pc \notin Nodes \cup {"finishing"}
        BY <3>6 DEF Nodes
      <4>. QED  BY <2>5, <2>7, <3>2, <3>6, <4>1, <4>2 DEF Knows
    <3>7. CASE exec[w].next = "handle"
      <4>1. pc \notin Nodes \cup {"finishing"}
        BY <3>7 DEF Nodes
      <4>. QED  BY <2>1, <2>5, <2>7, <2>8, <3>7, <4>1 DEF Knows
    <3>. QED  BY <3>5, <3>6, <3>7
  <2>. QED  BY <1>2, <2>1, <2>3, <2>5, <2>9, <2>10, <2>11, CommitStep
<1>. QED  BY <1>1, <1>2

\* Where an append or a diagnostic was committed or not, and the execution goes
\* to its handlers either way.
LEMMA CommitAndLeave ==
  ASSUME Inv, NEW w \in Workers, NEW pc \in {"diagnose", "handle"}, Goto(w, pc),
         exec[w].pc # "idle", NEW event \in Events,
         \/ CanAppend(w) /\ Commit(w, event)
         \/ row' = row /\ log' = log,
         faults' \in Nat
  PROVE  Inv'
<1>1. CASE row' = row /\ log' = log
  BY <1>1, LeaveStep
<1>2. CASE CanAppend(w) /\ Commit(w, event)
  <2>1. TypeOK'
    BY <1>2, CommitTyped, GotoTyped DEF Inv, TypeOK, PCs
  <2>. DEFINE e == [exec[w] EXCEPT !.pc = pc]
  <2>2. Becomes(w, e) /\ e.pc = pc /\ e.gen = exec[w].gen
    BY ExecTyped DEF Goto, Inv, Execution
  <2>. HIDE DEF e
  <2>3. exec'[w].pc = pc
    BY <2>2, OthersStay DEF Inv
  <2>4. Where(w)' /\ Knows(w)'
    BY <2>3 DEF Where, Knows, At, Nodes
  <2>. QED  BY <1>2, <2>1, <2>2, <2>4, CommitStep
<1>. QED  BY <1>1, <1>2

\* A failed append is one that was committed or not.
LEMMA AppendFailsStep ==
  ASSUME Inv, NEW w \in Workers, AppendFails(w) PROVE Inv'
<1>1. PICK pc \in {"diagnose", "handle"} : Goto(w, pc)
  BY DEF AppendFails
<1>2. exec[w].pc = "append" /\ faults' \in Nat
  BY DEF AppendFails, Fault, Inv, TypeOK
<1>3. Head(exec[w].pending) \in Events
  BY <1>2, ExecTyped, FactsOfTail DEF Inv, Execution
<1>4. \/ CanAppend(w) /\ Commit(w, Head(exec[w].pending))
      \/ row' = row /\ log' = log
  BY DEF AppendFails
<1>. QED  BY <1>1, <1>2, <1>3, <1>4, CommitAndLeave

\* The diagnostic event, and what becomes of it.
LEMMA DiagnoseStep ==
  ASSUME Inv, NEW w \in Workers, Diagnose(w) \/ DiagnoseFails(w) PROVE Inv'
<1>. DEFINE event == Event("stage_exception", {})
<1>1. event \in Events
  BY EventTyped DEF Names
<1>2. exec[w].pc = "diagnose" /\ faults' \in Nat
  BY DEF Diagnose, DiagnoseFails, Fault, Inv, TypeOK
<1>3. CASE Goto(w, "handle")
  <2>1. \/ CanAppend(w) /\ Commit(w, event)
        \/ row' = row /\ log' = log
    BY <1>3 DEF Diagnose, DiagnoseFails
  <2>. HIDE DEF event
  <2>. QED  BY <1>1, <1>2, <1>3, <2>1, CommitAndLeave
<1>4. CASE Ends(w) /\ row' = row /\ log' = log
  BY <1>2, <1>4, EndStep DEF Inv, TypeOK
<1>. QED  BY <1>3, <1>4 DEF Diagnose, DiagnoseFails
-----------------------------------------------------------------------------
(* The beginning of an execution.                                          *)

\* A claim gets a generation no execution and no event has.
LEMMA ClaimStep ==
  ASSUME Inv, NEW w \in Workers, Claim(w) PROVE Inv'
<1>. DEFINE gen == row.gen + 1
            e == [Idle EXCEPT !.pc = "loading", !.gen = gen, !.rev = row.rev]
<1>1. /\ Becomes(w, e) /\ exec[w].pc = "idle" /\ log' = log /\ faults' = faults
      /\ row' = [row EXCEPT !.status = "running", !.gen = gen]
  BY DEF Claim
<1>2. row \in JobRow /\ gen \in Nat /\ row.gen \in Nat /\ gen > row.gen
  BY DEF Inv, TypeOK, JobRow
<1>. HIDE DEF gen
<1>3. /\ e \in Execution /\ e.pc = "loading" /\ e.gen = gen
  <2>1. Idle \in Execution
    BY DEF Idle, Execution, PCs
  <2>2. row.rev \in Nat
    BY <1>2 DEF JobRow
  <2>. QED  BY <1>2, <2>1, <2>2 DEF Execution, PCs
<1>. HIDE DEF e
<1>4. /\ row' \in JobRow /\ row'.gen = gen /\ row'.rev = row.rev
  BY <1>1, <1>2 DEF JobRow
<1>5. TypeOK'
  BY <1>1, <1>3, <1>4, OneMoves DEF Inv, TypeOK
<1>6. /\ exec'[w] = e
      /\ \A v \in Workers \ {w} : exec'[v] = exec[v]
  BY <1>1, OthersStay DEF Inv
<1>7. LogSound'
  BY <1>1, <1>4 DEF Inv, LogSound
<1>8. \A v \in Workers \ {w} : exec[v].pc # "idle" => exec[v].gen < gen /\ exec[v].gen \in Nat
  <2>1. \A v \in Workers : exec[v] \in Execution
    BY ExecTyped DEF Inv
  <2>. QED  BY <1>2, <2>1 DEF Inv, ClaimsIssued, Execution, gen
<1>9. ClaimsIssued'
  <2>1. \A i \in 1 .. Len(log) : log[i].gen <= gen
    <3>1. \A i \in 1 .. Len(log) : log[i] \in LoggedEvents
      BY DEF Inv, TypeOK
    <3>. QED  BY <1>2, <3>1 DEF Inv, ClaimsIssued, LoggedEvents, gen
  <2>2. ASSUME NEW u \in Workers, exec'[u].pc # "idle"
        PROVE  /\ exec'[u].gen <= gen
               /\ \A v \in Workers : exec'[v].pc # "idle" /\ exec'[v].gen = exec'[u].gen => v = u
    <3>1. CASE u = w
      BY <1>2, <1>3, <1>6, <1>8, <3>1
    <3>2. CASE u # w
      <4>1. exec'[u] = exec[u] /\ exec[u].gen < gen /\ exec[u].gen \in Nat
        BY <1>6, <1>8, <2>2, <3>2
      <4>. QED  BY <1>2, <1>3, <1>6, <2>2, <3>2, <4>1 DEF Inv, ClaimsIssued
    <3>. QED  BY <3>1, <3>2
  <2>. QED  BY <1>1, <1>4, <2>1, <2>2 DEF ClaimsIssued
<1>10. OwnerKnows'
  <2>1. ASSUME NEW v \in Workers, Owns(v)'
        PROVE  exec'[v].pc \in {"idle", "loading"}
    BY <1>2, <1>3, <1>4, <1>6, <1>8, <2>1 DEF Owns
  <2>. QED  BY <2>1 DEF OwnerKnows, Knows, At, Nodes
<1>11. WhereItIs'
  <2>1. ASSUME NEW v \in Workers
        PROVE  Where(v)'
    <3>1. CASE v = w
      BY <1>3, <1>6, <3>1 DEF Where, At
    <3>2. CASE v # w
      <4>1. exec'[v] = exec[v] /\ At(v)' = At(v)
        BY <1>6, <3>2 DEF At
      <4>2. Where(v)
        BY DEF Inv, WhereItIs
      <4>. QED  BY <4>1, <4>2 DEF Where
    <3>. QED  BY <3>1, <3>2
  <2>. QED  BY <2>1 DEF WhereItIs
<1>. QED  BY <1>5, <1>7, <1>9, <1>10, <1>11 DEF Inv

\* The owner of the job learns what the log restores, and nothing else.
LEMMA LoadStep ==
  ASSUME Inv, NEW w \in Workers, Load(w) PROVE Inv'
<1>1. CASE ~Owns(w)
  BY <1>1, EndStep DEF Load, Inv, TypeOK
<1>2. CASE Owns(w)
  <2>. DEFINE pc == Resume(Restored)
              e == [exec[w] EXCEPT !.done = Restored, !.pc = pc]
  <2>1. /\ Becomes(w, e) /\ exec[w].pc = "loading"
        /\ row' = row /\ log' = log /\ faults' = faults
    BY <1>2 DEF Load
  <2>2. Restored \in SUBSET Facts
    BY RestoredTyped DEF Inv
  <2>3. /\ pc \in Nodes \ {"generate"}
        /\ pc = "retrieve" /\ "plans" \notin Restored => "catalog" \notin Restored
        /\ pc = "catalog" => {"plans", "catalog"} \cap Restored = {}
        /\ pc = "plan" => "plans" \notin Restored
    BY <2>2, ResumeTyped
  <2>. HIDE DEF pc
  <2>4. /\ e \in Execution /\ e.pc = pc /\ e.done = Restored /\ e.gen = exec[w].gen
    BY <2>2, <2>3, ExecTyped DEF Inv, Execution, PCs
  <2>. HIDE DEF e
  <2>5. pc \notin {"append", "generating", "idle"}
    BY <2>3 DEF Nodes
  <2>6. TypeOK'
    BY <2>1, <2>4, <2>5, OneMoves DEF Inv, TypeOK
  <2>7. exec'[w] = e
    BY <2>1, OthersStay DEF Inv
  <2>8. At(w)' = pc
    BY <2>4, <2>5, <2>7 DEF At
  <2>9. Where(w)'
    BY <2>3, <2>4, <2>5, <2>7, <2>8 DEF Where
  <2>10. Restored' = Restored
    BY <2>1 DEF Restored, FactsOf, RestoredEvents
  <2>11. Knows(w)'
    BY <2>3, <2>4, <2>5, <2>7, <2>8, <2>10 DEF Knows
  <2>. QED  BY <2>1, <2>4, <2>6, <2>9, <2>11, QuietStep
<1>. QED  BY <1>1, <1>2

\* A replay goes on where its source leads.
LEMMA LoadReplayStep ==
  ASSUME Inv, NEW w \in Workers, LoadReplay(w) PROVE Inv'
<1>. DEFINE next == Resume(ReplaySource)
            event == Event("questions_generated", ReplaySource)
<1>1. /\ exec[w].pc = "loading" /\ ReplaySource # {}
      /\ row' = row /\ log' = log /\ faults' = faults
  BY DEF LoadReplay
<1>2. ReplaySource \in SUBSET Facts
  BY FactsAssumption
<1>3. PICK pending \in Seq(Events) : pending = <<event>> /\ pending # <<>>
  <2>1. event \in Events
    BY <1>2, EventTyped DEF Names, RestoredEvents
  <2>. QED  BY <2>1, FactsOfOne
<1>. DEFINE e == [exec[w] EXCEPT !.pc = "append", !.done = ReplaySource,
                                 !.next = next, !.pending = pending]
<1>4. Becomes(w, e)
  BY <1>3 DEF LoadReplay
<1>. HIDE DEF event
<1>5. /\ next \in Nodes \ {"generate"}
      /\ next = "retrieve" /\ "plans" \notin ReplaySource => "catalog" \notin ReplaySource
      /\ next = "catalog" => {"plans", "catalog"} \cap ReplaySource = {}
      /\ next = "plan" => "plans" \notin ReplaySource
  BY <1>2, ResumeTyped
<1>. HIDE DEF next
<1>6. next \in PCs \ {"append", "generating"}
  BY <1>5 DEF Nodes, PCs
<1>7. /\ e \in Execution /\ e.pc = "append" /\ e.next = next /\ e.pending = pending
      /\ e.done = ReplaySource /\ e.gen = exec[w].gen
  BY <1>2, <1>6, ExecTyped DEF Inv, Execution, PCs
<1>. HIDE DEF e
<1>8. TypeOK'
  BY <1>1, <1>3, <1>4, <1>6, <1>7, OneMoves DEF Inv, TypeOK
<1>9. exec'[w] = e /\ At(w)' = next
  BY <1>4, <1>7, OthersStay DEF Inv, At
<1>10. Where(w)'
  BY <1>5, <1>6, <1>7, <1>9 DEF Where
<1>. QED  BY <1>1, <1>4, <1>7, <1>8, <1>10, QuietStep

-----------------------------------------------------------------------------
(* The end of an execution, and of the job.                                *)

\* The actions that end an execution, or the job, or take it from its owner.
LEMMA EndsStep ==
  ASSUME Inv, NEW w \in Workers,
         Superseded(w) \/ Handle(w) \/ Complete(w) \/ Crash(w)
  PROVE  Inv'
<1>1. row \in JobRow /\ faults \in Nat
  BY DEF Inv, TypeOK
<1>2. Ends(w) /\ log' = log /\ faults' = faults
  BY DEF Superseded, Handle, Complete, Crash
<1>3. /\ row' \in JobRow /\ row'.gen = row.gen /\ row'.rev = row.rev
      /\ row'.status = "running" => row.status = "running"
  <2>1. CASE row' = row
    BY <1>1, <2>1
  <2>2. CASE \E status \in {"waiting", "failed"} : row' = [row EXCEPT !.status = status]
    BY <1>1, <2>2 DEF JobRow
  <2>3. CASE row' = [row EXCEPT !.status = "completed", !.author = exec[w].gen]
    <3>1. exec[w].gen \in Nat
      BY ExecTyped DEF Inv, Execution
    <3>. QED  BY <1>1, <2>3, <3>1 DEF JobRow
  <2>. QED  BY <2>1, <2>2, <2>3 DEF Superseded, Handle, Complete, Crash
<1>. QED  BY <1>1, <1>2, <1>3, EndStep

\* A node, or the loading of a checkpoint, fails.
LEMMA FailsStep ==
  ASSUME Inv, NEW w \in Workers, NodeFails(w) \/ LoadFails(w) PROVE Inv'
<1>1. PICK pc \in {"diagnose", "handle"} : Goto(w, pc)
  BY DEF NodeFails, LoadFails
<1>2. exec[w].pc # "idle" /\ row' = row /\ log' = log /\ faults' = faults
  BY DEF NodeFails, LoadFails, Nodes
<1>. QED  BY <1>1, <1>2, LeaveStep DEF Inv, TypeOK

\* The steps that only take the job away from its executions.
LEMMA RowStep ==
  ASSUME Inv, Recover \/ GiveUp PROVE Inv'
<1>1. PICK status \in {"waiting", "failed", "cancelled"} :
        row' = [row EXCEPT !.status = status]
  BY DEF Recover, GiveUp
<1>2. log' = log /\ exec' = exec /\ faults' = faults
  BY DEF Recover, GiveUp
<1>3. /\ row' \in JobRow /\ row'.gen = row.gen /\ row'.rev = row.rev
      /\ row'.status # "running"
  BY <1>1 DEF Inv, TypeOK, JobRow
<1>4. TypeOK'
  BY <1>2, <1>3 DEF Inv, TypeOK, At
<1>5. LogSound' /\ ClaimsIssued'
  BY <1>2, <1>3 DEF Inv, LogSound, ClaimsIssued
<1>6. OwnerKnows'
  BY <1>3 DEF OwnerKnows, Owns
<1>7. WhereItIs'
  BY <1>2 DEF Inv, WhereItIs, Where, At
<1>. QED  BY <1>4, <1>5, <1>6, <1>7 DEF Inv

\* Nothing happens.
LEMMA StutterStep == ASSUME Inv, UNCHANGED vars PROVE Inv'
<1>1. row' = row /\ log' = log /\ exec' = exec /\ faults' = faults
  BY DEF vars
<1>2. TypeOK' /\ LogSound' /\ ClaimsIssued' /\ WhereItIs'
  BY <1>1 DEF Inv, TypeOK, LogSound, ClaimsIssued, WhereItIs, Where, At
<1>3. ASSUME NEW v \in Workers, Knows(v)
      PROVE  Knows(v)'
  BY <1>1, <1>3 DEF Knows, Restored, FactsOf, RestoredEvents, At, Nodes
<1>4. OwnerKnows'
  BY <1>1, <1>3 DEF Inv, OwnerKnows, Owns
<1>. QED  BY <1>2, <1>4 DEF Inv

-----------------------------------------------------------------------------
(* The theorems.                                                           *)

\* The job as it was created.
LEMMA Initially == Init => Inv
<1>. SUFFICES ASSUME Init PROVE Inv
  OBVIOUS
<1>1. /\ log = <<>> /\ Len(log) = 0 /\ log \in Seq(LoggedEvents)
  BY DEF Init
<1>2. \A w \in Workers : exec[w] = Idle
  BY DEF Init
<1>3. Idle \in Execution /\ Idle.pc = "idle" /\ Idle.gen = 0
  BY DEF Idle, Execution, PCs
<1>4. row \in JobRow /\ row.rev = 0 /\ row.gen = 0 /\ row.status = "waiting"
  BY DEF Init, JobRow
<1>5. TypeOK
  BY <1>1, <1>2, <1>3, <1>4 DEF Init, TypeOK, At
<1>6. LogSound /\ ClaimsIssued
  BY <1>1, <1>2, <1>3, <1>4 DEF LogSound, ClaimsIssued
<1>7. OwnerKnows /\ WhereItIs
  BY <1>2, <1>3, <1>4 DEF OwnerKnows, Owns, WhereItIs, Where, At
<1>. QED  BY <1>5, <1>6, <1>7 DEF Inv

\* Every step keeps the invariant.
LEMMA Preserved == Inv /\ [Next]_vars => Inv'
<1>. SUFFICES ASSUME Inv, [Next]_vars PROVE Inv'
  OBVIOUS
<1>1. CASE UNCHANGED vars
  BY <1>1, StutterStep
<1>2. CASE Recover \/ GiveUp
  BY <1>2, RowStep
<1>3. ASSUME NEW w \in Workers, ExecutionStep(w)
      PROVE  Inv'
  <2>1. CASE Claim(w)
    BY <2>1, ClaimStep
  <2>2. CASE Load(w) \/ LoadReplay(w)
    BY <2>2, LoadStep, LoadReplayStep
  <2>3. CASE Retrieve(w) \/ CompileCatalog(w)
    BY <2>3, RetrieveStep, CompileCatalogStep
  <2>4. CASE Plan(w)
    <3>1. "plan" \in Nodes
      BY DEF Nodes
    <3>. QED  BY <2>4, <3>1, PlansStep DEF Plan
  <2>5. CASE RepairPlan(w)
    <3>1. "repair_plan" \in Nodes
      BY DEF Nodes
    <3>. QED  BY <2>5, <3>1, PlansStep DEF RepairPlan
  <2>6. CASE Adjust(w)
    <3>1. "adjust" \in Nodes
      BY DEF Nodes
    <3>. QED  BY <2>6, <3>1, PlansStep DEF Adjust
  <2>7. CASE StartGeneration(w) \/ GenerateModel(w) \/ EndGeneration(w)
    BY <2>7, StartGenerationStep, GenerateModelStep, EndGenerationStep
  <2>8. CASE Validate(w) \/ Repair(w) \/ Assemble(w)
    BY <2>8, ValidateStep, RepairStep, AssembleStep
  <2>9. CASE AppendEvent(w) \/ AppendFails(w)
    BY <2>9, AppendEventStep, AppendFailsStep
  <2>10. CASE NodeFails(w) \/ LoadFails(w)
    BY <2>10, FailsStep
  <2>11. CASE Diagnose(w) \/ DiagnoseFails(w)
    BY <2>11, DiagnoseStep
  <2>12. CASE Superseded(w) \/ Handle(w) \/ Complete(w) \/ Crash(w)
    BY <2>12, EndsStep
  <2>. QED  BY <1>3, <2>1, <2>2, <2>3, <2>4, <2>5, <2>6, <2>7, <2>8, <2>9, <2>10,
                <2>11, <2>12 DEF ExecutionStep
<1>. QED  BY <1>1, <1>2, <1>3 DEF Next

\* Inv holds in every reachable state.
THEOREM Invariance == Spec => []Inv
  BY Initially, Preserved, PTL DEF Spec

\* The log never has a gap, a revision twice, or an event of an execution that
\* had already lost the job, whatever the interleaving of its executions.
THEOREM LogStaysSound == Spec => []LogSound
<1>1. Inv => LogSound
  BY DEF Inv
<1>. QED  BY <1>1, Invariance, PTL

\* A crash of the owner between two nodes loses nothing: what the log restores
\* is what the owner knows.
THEOREM ResumableAnywhere == Spec => []NothingLost
<1>1. Inv => NothingLost
  BY DEF Inv, OwnerKnows, Knows, NothingLost
<1>. QED  BY <1>1, Invariance, PTL

\* A job that replays no other never compiles, plans or generates again what
\* its log already has.
THEOREM NothingPaidTwice == Spec => [](ReplaySource = {} => PaidOnce)
<1>1. Inv => (ReplaySource = {} => PaidOnce)
  <2>. SUFFICES ASSUME ReplaySource = {}, Inv, NEW w \in Workers, Owns(w)
                PROVE  /\ exec[w].pc = "catalog" => "catalog" \notin Restored
                       /\ exec[w].pc = "plan" => "plans" \notin Restored
                       /\ exec[w].pc = "generating" => Restored \cap Models \subseteq exec[w].done
    BY DEF PaidOnce, Given
  <2>1. Knows(w) /\ Where(w)
    BY DEF Inv, OwnerKnows, WhereItIs
  <2>. QED  BY <2>1 DEF Knows, Where, At, Nodes
<1>. QED  BY <1>1, Invariance, PTL

\* Every step of the executions is one of the promise, or changes nothing that
\* the user sees.
LEMMA PromiseStep ==
  ASSUME Inv, [Next]_vars
  PROVE  [Promise!Next]_Promise!vars
<1>1. row \in JobRow
  BY DEF Inv, TypeOK
<1>2. CASE row'.status = row.status /\ row'.gen = row.gen /\ row'.author = row.author
  BY <1>2 DEF Promise!vars
<1>. SUFFICES ASSUME ~(row'.status = row.status /\ row'.gen = row.gen /\ row'.author = row.author)
              PROVE  Promise!Next
  BY <1>2
<1>3. ASSUME NEW w \in Workers, Claim(w)
      PROVE  Promise!Next
  <2>1. /\ row.status = "waiting" /\ row'.status = "running"
        /\ row'.gen = row.gen + 1 /\ row'.author = row.author
    BY <1>1, <1>3 DEF Claim, JobRow
  <2>2. Promise!Run("job")
    BY <2>1 DEF Promise!Run
  <2>. QED  BY <2>2 DEF Promise!Next
<1>4. ASSUME NEW status \in {"waiting", "failed", "cancelled"},
             row' = [row EXCEPT !.status = status], row.status \in {"waiting", "running"},
             status = "waiting" => row.status = "running"
      PROVE  Promise!Next
  <2>1. row'.status = status /\ row'.gen = row.gen /\ row'.author = row.author
    BY <1>1, <1>4 DEF JobRow
  <2>2. CASE status = "waiting"
    <3>1. Promise!Release("job")
      BY <1>4, <2>1, <2>2 DEF Promise!Release
    <3>. QED  BY <3>1 DEF Promise!Next
  <2>3. CASE status \in {"failed", "cancelled"}
    <3>1. Promise!GiveUp("job")
      BY <1>4, <2>1, <2>3 DEF Promise!GiveUp
    <3>. QED  BY <3>1 DEF Promise!Next
  <2>. QED  BY <2>2, <2>3
<1>5. ASSUME NEW w \in Workers, Complete(w)
      PROVE  Promise!Next
  <2>1. /\ Owns(w) /\ row' = [row EXCEPT !.status = "completed", !.author = exec[w].gen]
    BY <1>5 DEF Complete
  <2>2. /\ row.status = "running" /\ row'.status = "completed"
        /\ row'.gen = row.gen /\ row'.author = row.gen
    BY <1>1, <2>1 DEF JobRow, Owns
  <2>3. Promise!Complete("job")
    BY <2>2 DEF Promise!Complete
  <2>. QED  BY <2>3 DEF Promise!Next
<1>6. ASSUME NEW w \in Workers, NEW event, Commit(w, event)
      PROVE  FALSE
  BY <1>1, <1>6 DEF Commit, JobRow
<1>7. CASE Recover \/ GiveUp
  BY <1>4, <1>7 DEF Recover, GiveUp
<1>8. ASSUME NEW w \in Workers, Handle(w)
      PROVE  Promise!Next
  BY <1>4, <1>8 DEF Handle, Owns
<1>9. ASSUME NEW w \in Workers, ExecutionStep(w), ~Claim(w), ~Complete(w), ~Handle(w)
      PROVE  FALSE
  <2>1. row' = row \/ \E event : Commit(w, event)
    BY <1>9 DEF ExecutionStep, Load, LoadReplay, LoadFails, Superseded, Run, Retrieve, CompileCatalog,
         Plan, RepairPlan, Adjust, StartGeneration, GenerateModel, EndGeneration, Validate,
         Repair, Assemble, AppendEvent, AppendFails, NodeFails, Diagnose, DiagnoseFails, Crash
  <2>. QED  BY <1>6, <2>1
<1>10. CASE UNCHANGED vars
  BY <1>10 DEF vars
<1>. QED  BY <1>3, <1>5, <1>7, <1>8, <1>9, <1>10 DEF Next

\* An exam generated by several executions, each resuming from the events of
\* the others, is published once, by the last of them.
THEOREM Refinement == Spec => KeepsPromise
<1>1. Init => Promise!Init
  BY DEF Init, Promise!Init
<1>2. Inv /\ [Next]_vars => [Promise!Next]_Promise!vars
  BY PromiseStep
<1>3. KeepsPromise <=> Promise!Init /\ [][Promise!Next]_Promise!vars
  BY DEF KeepsPromise, Promise!Spec
<1>. QED  BY <1>1, <1>2, <1>3, Invariance, PTL DEF Spec
=============================================================================
