---------------------------- MODULE Checkpoints ----------------------------
(***************************************************************************)
(* One exam generation job, the executions that run its graph of stages,   *)
(* and the audit events they append to PostgreSQL, numbered by revision,   *)
(* from which a later execution resumes.                                   *)
(*                                                                         *)
(* What a stage produces is abstracted to facts: the chunks are retrieved, *)
(* the catalog is compiled, the plans are made, every planned question of  *)
(* a model (one version of the exam) is generated.  The checkpoint state   *)
(* is the union of the facts of its events, as dict.update accumulates     *)
(* them.  How the job comes to be claimed, taken over or given up is       *)
(* JobLifecycle's matter: here it only follows JobPromise.                 *)
(*                                                                         *)
(* Left out: the request fingerprint (one job has one request) and what    *)
(* the stages ask of the language models.                                  *)
(***************************************************************************)
EXTENDS Integers, Sequences, Functions

CONSTANTS
  Workers,
  ModelOrder,     \* the versions of the exam to generate, in order
  ReplaySource,   \* facts taken from the job this one replays, {} if none
  MaxClaims,      \* bound on executions of the job
  MaxRounds,      \* bound on plan repairs, adjustments, repairs per execution
  MaxFaults       \* bound on database failures

Stages == {"chunks", "catalog", "plans"}
Models == Range(ModelOrder)
Facts == Stages \cup Models

ASSUME BoundsAssumption == {MaxClaims, MaxRounds, MaxFaults} \subseteq Nat
ASSUME OrderAssumption == ModelOrder \in Seq(Models)
ASSUME FactsAssumption == Stages \cap Models = {} /\ ReplaySource \subseteq Facts

VARIABLES
  row,     \* the jobs row: status, claim_generation, checkpoint_revision
  log,     \* the exam_audit_events that have a checkpoint revision
  exec,    \* the executions
  faults

vars == <<row, log, exec, faults>>

-----------------------------------------------------------------------------
Nodes == {"retrieve", "catalog", "plan", "repair_plan", "adjust", "generate",
          "validate", "repair", "assemble"}

Idle == [pc |-> "idle", gen |-> 0, rev |-> 0, done |-> {}, model |-> 0,
         pending |-> <<>>, next |-> "idle", rounds |-> 0]

Event(name, facts) == [event |-> name, facts |-> facts]

Owns(w) == row.status = "running" /\ row.gen = exec[w].gen

\* Mutant: the append is not fenced by the claim.
AppendUnfenced(w) == row.rev = exec[w].rev

\* Mutant: the append does not compare the revision.
AppendUnordered(w) == Owns(w)

\* append_exam_audit_event's WHERE clause, for revision exec[w].rev + 1.
CanAppend(w) == Owns(w) /\ row.rev = exec[w].rev

\* The events load_generation_checkpoint reads.
RestoredEvents ==
  {"retrieval_completed", "assessment_catalog_compiled", "plan_completed",
   "plan_repaired", "difficulty_adjustment_completed", "generation_checkpoint",
   "questions_generated", "validation_completed", "repair_completed"}

\* The facts of a sequence of events that a later execution can restore.
FactsOf(events) ==
  UNION {events[i].facts : i \in {k \in DOMAIN events :
                                    events[k].event \in RestoredEvents}}

Restored == FactsOf(log)

\* Mutant: a resumed job with chunks and plans plans again.
ResumeReplans(done) ==
  CASE "chunks" \notin done -> "retrieve"
    [] "chunks" \in done /\ "catalog" \notin done -> "catalog"
    [] OTHER -> "plan"

\* Where the graph goes on from a checkpoint.
Resume(done) ==
  CASE "plans" \in done /\ "chunks" \notin done -> "retrieve"
    [] {"plans", "chunks"} \cup Models \subseteq done -> "validate"
    [] {"plans", "chunks"} \subseteq done /\ ~(Models \subseteq done) -> "repair_plan"
    [] "catalog" \in done /\ "plans" \notin done -> "plan"
    [] done \cap {"plans", "catalog"} = {} /\ "chunks" \in done -> "catalog"
    [] OTHER -> "retrieve"

-----------------------------------------------------------------------------
Init ==
  /\ row = [status |-> "waiting", gen |-> 0, rev |-> 0, author |-> 0]
  /\ log = <<>>
  /\ exec = [w \in Workers |-> Idle]
  /\ faults = 0

Becomes(w, execution) == exec' = [exec EXCEPT ![w] = execution]

Ends(w) == Becomes(w, Idle)

Goto(w, pc) == Becomes(w, [exec[w] EXCEPT !.pc = pc])

Fault == faults < MaxFaults /\ faults' = faults + 1

\* claim_job; the writer starts from the revision of the claimed row.
Claim(w) ==
  /\ exec[w].pc = "idle"
  /\ row.status = "waiting" /\ row.gen < MaxClaims
  /\ row' = [row EXCEPT !.status = "running", !.gen = @ + 1]
  /\ Becomes(w, [Idle EXCEPT !.pc = "loading", !.gen = row.gen + 1, !.rev = row.rev])
  /\ UNCHANGED <<log, faults>>

\* load_generation_checkpoint, which is fenced, then receive_request.
Load(w) ==
  /\ exec[w].pc = "loading" /\ ReplaySource = {}
  /\ IF Owns(w)
       THEN Becomes(w, [exec[w] EXCEPT !.done = Restored, !.pc = Resume(Restored)])
       ELSE Ends(w)
  /\ UNCHANGED <<row, log, faults>>

\* load_generation_replay_checkpoint reads the source job only; what it finds
\* becomes this execution's first event.
LoadReplay(w) ==
  /\ exec[w].pc = "loading" /\ ReplaySource # {}
  /\ Becomes(w, [exec[w] EXCEPT
       !.pc = "append", !.done = ReplaySource, !.next = Resume(ReplaySource),
       !.pending = <<Event("questions_generated", ReplaySource)>>])
  /\ UNCHANGED <<row, log, faults>>

\* Neither can be read: the database is down, or the source does not fit.
LoadFails(w) ==
  /\ exec[w].pc = "loading"
  /\ Goto(w, "handle")
  /\ UNCHANGED <<row, log, faults>>

-----------------------------------------------------------------------------
(* The nodes of the graph.                                                 *)

\* A node reports its progress first, which an execution without the claim
\* is refused.
Superseded(w) ==
  /\ exec[w].pc \in Nodes /\ ~Owns(w)
  /\ Ends(w)
  /\ UNCHANGED <<row, log, faults>>

\* The nodes that take the graph back to an earlier one.
Loops == {"repair_plan", "adjust", "repair", "validate"}

\* Node n runs, finds facts, and leaves events to append before node next.
Run(w, n, facts, events, next) ==
  /\ exec[w].pc = n /\ Owns(w)
  /\ Becomes(w, [exec[w] EXCEPT
       !.pc = "append", !.done = exec[w].done \cup facts,
       !.pending = events, !.next = next,
       !.rounds = IF next \in Loops THEN exec[w].rounds + 1 ELSE exec[w].rounds])
  /\ UNCHANGED <<row, log, faults>>

Rounds(w, loops) == IF exec[w].rounds < MaxRounds THEN loops ELSE {}

Retrieve(w) ==
  Run(w, "retrieve", {"chunks"}, <<Event("retrieval_completed", {"chunks"})>>,
      IF "plans" \in exec[w].done THEN Resume(exec[w].done \cup {"chunks"})
                                  ELSE "catalog")

CompileCatalog(w) ==
  Run(w, "catalog", {"catalog"},
      <<Event("assessment_catalog_compiled", {"catalog"})>>, "plan")

\* An invalid plan is repaired, a pending difficulty adjusted; when attempts
\* are spent the graph stops with an error and the task's handler fails the job.
AfterPlan(w) == {"generate", "handle"} \cup Rounds(w, {"repair_plan", "adjust"})

Plan(w) == \E next \in AfterPlan(w) :
  Run(w, "plan", {"plans"}, <<Event("plan_completed", {"plans"})>>, next)

RepairPlan(w) == \E next \in AfterPlan(w) :
  Run(w, "repair_plan", {"plans"}, <<Event("plan_repaired", {"plans"})>>, next)

Adjust(w) == \E next \in AfterPlan(w) :
  Run(w, "adjust", {"plans"},
      <<Event("difficulty_adjustment_completed", {"plans"})>>, next)

StartGeneration(w) ==
  /\ exec[w].pc = "generate" /\ Owns(w)
  /\ Becomes(w, [exec[w] EXCEPT !.pc = "generating", !.model = 1])
  /\ UNCHANGED <<row, log, faults>>

\* The missing questions of one model.  Its checkpoint is written before the
\* shortfall is made good, so a model may be complete only afterwards.
GenerateModel(w) ==
  /\ exec[w].pc = "generating" /\ exec[w].model <= Len(ModelOrder)
  /\ \E early, late \in SUBSET {ModelOrder[exec[w].model]} :
       LET made == (exec[w].done \cap Models) \cup early IN
       Becomes(w, [exec[w] EXCEPT
         !.pc = "append", !.next = "generating", !.model = exec[w].model + 1,
         !.done = exec[w].done \cup early \cup late,
         !.pending = <<Event("generation_checkpoint", {"plans"} \cup made)>>])
  /\ UNCHANGED <<row, log, faults>>

EndGeneration(w) ==
  /\ exec[w].pc = "generating" /\ exec[w].model > Len(ModelOrder)
  /\ Becomes(w, [exec[w] EXCEPT
       !.pc = "append", !.next = "validate",
       !.pending = <<Event("questions_generated",
                           {"plans"} \cup (exec[w].done \cap Models))>>])
  /\ UNCHANGED <<row, log, faults>>

Validate(w) ==
  \E next \in {"assemble"} \cup Rounds(w, {"validate", "repair"}),
     events \in {<<Event("validation_completed", {})>>,
                 <<Event("validation_completed", {}),
                   Event("quantitative_validation_completed", {})>>} :
       Run(w, "validate", {}, events, next)

Repair(w) ==
  Run(w, "repair", {}, <<Event("repair_completed", {})>>, "validate")

\* The assembled exam is not a checkpoint: only its audit is written.  The task
\* then writes the shortage of questions, if there is one.
Assemble(w) ==
  \E events \in {<<Event("exam_assembled", {})>>,
                 <<Event("exam_assembled", {}), Event("question_shortage", {})>>} :
    Run(w, "assemble", {}, events, "finishing")

-----------------------------------------------------------------------------
(* _CheckpointWriter.append and what becomes of its exceptions.            *)

\* The transaction of append_exam_audit_event commits.
Commit(w, e) ==
  /\ log' = Append(log, [rev |-> exec[w].rev + 1, gen |-> exec[w].gen,
                         event |-> e.event, facts |-> e.facts])
  /\ row' = [row EXCEPT !.rev = exec[w].rev + 1]

\* Refused, it raises StaleJobExecution or StaleCheckpoint: the task returns.
AppendEvent(w) ==
  /\ exec[w].pc = "append"
  /\ LET rest == Tail(exec[w].pending) IN
     IF CanAppend(w)
       THEN /\ Commit(w, Head(exec[w].pending))
            /\ Becomes(w, [exec[w] EXCEPT
                 !.rev = exec[w].rev + 1, !.pending = rest,
                 !.pc = IF rest = <<>> THEN exec[w].next ELSE "append"])
       ELSE Ends(w) /\ UNCHANGED <<row, log>>
  /\ UNCHANGED faults

\* DatabaseUnavailable, before or after the commit.  The writer keeps its
\* revision.  Raised inside a node, the graph first tries to log the exception.
AppendFails(w) ==
  /\ exec[w].pc = "append"
  /\ Fault
  /\ \/ CanAppend(w) /\ Commit(w, Head(exec[w].pending))
     \/ UNCHANGED <<row, log>>
  /\ Goto(w, IF exec[w].next = "generating" THEN "diagnose" ELSE "handle")

\* An exception of the node itself.
NodeFails(w) ==
  /\ exec[w].pc \in Nodes \cup {"generating"}
  /\ Goto(w, "diagnose")
  /\ UNCHANGED <<row, log, faults>>

\* The stage_exception event.  An execution whose last append committed without
\* its knowing is refused and returns as superseded, the job still its own.
Diagnose(w) ==
  /\ exec[w].pc = "diagnose"
  /\ IF CanAppend(w) THEN Commit(w, Event("stage_exception", {})) /\ Goto(w, "handle")
                     ELSE Ends(w) /\ UNCHANGED <<row, log>>
  /\ UNCHANGED faults

DiagnoseFails(w) ==
  /\ exec[w].pc = "diagnose"
  /\ Fault
  /\ \/ CanAppend(w) /\ Commit(w, Event("stage_exception", {}))
     \/ UNCHANGED <<row, log>>
  /\ Goto(w, "handle")

\* The task's handlers: retry_job or fail_job, both fenced.
Handle(w) ==
  /\ exec[w].pc = "handle"
  /\ IF Owns(w) THEN \E status \in {"waiting", "failed"} :
                       row' = [row EXCEPT !.status = status]
                ELSE UNCHANGED row
  /\ Ends(w)
  /\ UNCHANGED <<log, faults>>

\* Mutant: the final transaction does not check the claim.
CompleteUnfenced(w) ==
  /\ exec[w].pc = "finishing"
  /\ row' = [row EXCEPT !.status = "completed", !.author = exec[w].gen]
  /\ Ends(w)
  /\ UNCHANGED <<log, faults>>

Complete(w) ==
  /\ exec[w].pc = "finishing"
  /\ IF Owns(w)
       THEN row' = [row EXCEPT !.status = "completed", !.author = exec[w].gen]
       ELSE UNCHANGED row
  /\ Ends(w)
  /\ UNCHANGED <<log, faults>>

-----------------------------------------------------------------------------
(* What happens to the job around its executions.                          *)

Crash(w) == exec[w].pc # "idle" /\ Ends(w) /\ UNCHANGED <<row, log, faults>>

\* recover_stale_jobs: the execution may be dead or only slow.
Recover ==
  /\ row.status = "running"
  /\ row' = [row EXCEPT !.status = "waiting"]
  /\ UNCHANGED <<log, exec, faults>>

\* cancel_job, or recover_stale_jobs when no attempt is left.
GiveUp ==
  /\ row.status \in {"waiting", "running"}
  /\ \E status \in {"failed", "cancelled"} : row' = [row EXCEPT !.status = status]
  /\ UNCHANGED <<log, exec, faults>>

ExecutionStep(w) ==
  \/ Claim(w) \/ Load(w) \/ LoadReplay(w) \/ LoadFails(w) \/ Superseded(w)
  \/ Retrieve(w) \/ CompileCatalog(w) \/ Plan(w) \/ RepairPlan(w) \/ Adjust(w)
  \/ StartGeneration(w) \/ GenerateModel(w) \/ EndGeneration(w)
  \/ Validate(w) \/ Repair(w) \/ Assemble(w)
  \/ AppendEvent(w) \/ AppendFails(w) \/ NodeFails(w)
  \/ Diagnose(w) \/ DiagnoseFails(w) \/ Handle(w) \/ Complete(w) \/ Crash(w)

Next == (\E w \in Workers : ExecutionStep(w)) \/ Recover \/ GiveUp

Spec == Init /\ [][Next]_vars

-----------------------------------------------------------------------------
(* Properties.                                                             *)

Names == RestoredEvents \cup {"quantitative_validation_completed",
           "exam_assembled", "question_shortage", "stage_exception"}

PCs == Nodes \cup {"idle", "loading", "generating", "append", "diagnose",
                 "handle", "finishing"}

JobRow == [status : {"waiting", "running", "completed", "failed", "cancelled"},
           gen : Nat, rev : Nat, author : Nat]

Events == [event : Names, facts : SUBSET Facts]

LoggedEvents == [rev : Nat, gen : Nat, event : Names, facts : SUBSET Facts]

Execution == [pc : PCs, gen : Nat, rev : Nat, done : SUBSET Facts, model : Nat,
              pending : Seq(Events), next : PCs \ {"append"}, rounds : Nat]

\* The node an execution is at, or goes to once it has appended its events.
At(w) == IF exec[w].pc = "append" THEN exec[w].next ELSE exec[w].pc

\* The jobs row, the audit log and the executions hold what their schema allows,
\* and an execution that appends has something to append, one that generates a
\* model to go on with.
TypeOK ==
  /\ row \in JobRow
  /\ log \in Seq(LoggedEvents)
  /\ exec \in [Workers -> Execution]
  /\ \A w \in Workers :
       /\ exec[w].pc = "append" => exec[w].pending # <<>>
       /\ At(w) = "generating" => exec[w].model # 0
  /\ faults \in Nat

\* The log has one event per revision and no gap, up to the revision of the
\* row, and no event of an execution follows one of a later execution: what
\* ORDER BY checkpoint_revision reads back is the order in which it happened.
LogSound ==
  /\ row.rev = Len(log)
  /\ \A i \in 1 .. Len(log) : log[i].rev = i
  /\ \A i, k \in 1 .. Len(log) : i < k => log[i].gen <= log[k].gen

\* Whenever the owner of the job is between two nodes, the log restores exactly
\* what the owner knows: a crash there loses nothing, and nothing in the log
\* comes from an execution that lost the job.
NothingLost ==
  ReplaySource = {} =>
    \A w \in Workers :
      Owns(w) /\ exec[w].pc \in Nodes \cup {"finishing"} => exec[w].done = Restored

\* What every execution of the job starts with: a replay starts from its source
\* each time, and does not see what it generated itself before it was taken over.
Given == IF ReplaySource = {} THEN Restored ELSE ReplaySource

\* The owner of the job never pays again for a stage the log already has: it
\* does not compile or plan twice, nor generate the questions of a model it was
\* given.
PaidOnce ==
  \A w \in Workers : Owns(w) =>
    /\ exec[w].pc = "catalog" => "catalog" \notin Restored
    /\ exec[w].pc = "plan" => "plans" \notin Restored
    /\ exec[w].pc = "generating" => Given \cap Models \subseteq exec[w].done

\* No two executions hold the same claim, and none that was not issued; nor
\* does an event come from such a claim.
ClaimsIssued ==
  /\ \A w \in Workers : exec[w].pc # "idle" =>
       /\ exec[w].gen <= row.gen
       /\ \A v \in Workers : exec[v].pc # "idle" /\ exec[v].gen = exec[w].gen => v = w
  /\ \A i \in 1 .. Len(log) : log[i].gen <= row.gen

\* What the owner knows, whatever it is doing: between two nodes, what the log
\* restores; while it appends, that and what it still has to append; while it
\* generates, also the questions that made a shortfall good, and no other stage.
Knows(w) ==
  LET e == exec[w] IN
  /\ e.pc \in Nodes \cup {"finishing"} => e.done = Restored
  /\ e.pc = "append" /\ e.next \notin {"generating", "handle"} =>
       e.done = Restored \cup FactsOf(e.pending)
  /\ At(w) = "generating" =>
       /\ Restored \subseteq e.done /\ e.done \ Models \subseteq Restored
       /\ e.pc = "append" => FactsOf(e.pending) \subseteq e.done

OwnerKnows == ReplaySource = {} => \A w \in Workers : Owns(w) => Knows(w)

\* The stages an execution has done tell where in the graph it can be.
Where(w) ==
  LET done == exec[w].done IN
  /\ At(w) = "retrieve" /\ "plans" \notin done => "catalog" \notin done
  /\ At(w) = "catalog" => {"plans", "catalog"} \cap done = {}
  /\ At(w) = "plan" => "plans" \notin done
  /\ At(w) \in {"generate", "generating"} => "plans" \in done

WhereItIs == \A w \in Workers : Where(w)

\* The inductive invariant.
Inv == TypeOK /\ LogSound /\ ClaimsIssued /\ OwnerKnows /\ WhereItIs

-----------------------------------------------------------------------------
Promise == INSTANCE JobPromise WITH
  Jobs   <- {"job"},
  phase  <- [j \in {"job"} |-> row.status],
  runs   <- [j \in {"job"} |-> row.gen],
  author <- [j \in {"job"} |-> row.author]

\* The executions keep to the life JobLifecycle gives a job: an exam is
\* published by its last run, whatever the checkpoints it resumed from.
KeepsPromise == Promise!Spec
=============================================================================
