------------------------- MODULE JobLifecycleProofs -------------------------
(***************************************************************************)
(* Proofs about JobLifecycle, for any set of jobs and workers, any faults  *)
(* and any number of them.                                                 *)
(***************************************************************************)
EXTENDS JobLifecycle, FiniteSetTheorems, TLAPS

-----------------------------------------------------------------------------
(* Typing of the transactions, with the row types opaque everywhere else.  *)

\* SetJob writes a row of the jobs table.
LEMMA SetJobTyped ==
  ASSUME job \in [Jobs -> Row], NEW j \in Jobs,
         NEW s \in {"failed", "cancelled", "retrying", "completed"}, SetJob(j, s, s)
  PROVE  job' \in [Jobs -> Row]
<1>1. [job[j] EXCEPT !.status = s, !.stage = s] \in Row
  BY DEF Row, Open, Final
<1> QED BY <1>1 DEF SetJob

\* SetExam writes a row of the exams table.
LEMMA SetExamTyped ==
  ASSUME exam \in [Generation -> ExamRow], NEW j \in Jobs,
         NEW s \in {"running", "retrying", "failed", "cancelled"}, SetExam(j, s)
  PROVE  exam' \in [Generation -> ExamRow]
<1>1. ASSUME j \in Generation PROVE [exam[j] EXCEPT !.status = s] \in ExamRow
  BY <1>1 DEF ExamRow, Open
<1> QED BY <1>1 DEF SetExam

\* fail_job and the failing branch of recover_stale_jobs.
LEMMA FailRowTyped ==
  ASSUME job \in [Jobs -> Row], exam \in [Generation -> ExamRow],
         doc \in [Ingestion -> DocRow], NEW j \in Jobs, FailRow(j)
  PROVE  /\ job' \in [Jobs -> Row]
         /\ exam' \in [Generation -> ExamRow]
         /\ doc' \in [Ingestion -> DocRow]
<1>1. ASSUME j \in Ingestion PROVE [doc[j] EXCEPT !.status = "failed"] \in DocRow
  BY <1>1 DEF DocRow
<1>2. doc' \in [Ingestion -> DocRow]
  BY <1>1 DEF FailRow, SetDoc
<1> QED BY <1>2, SetJobTyped, SetExamTyped DEF FailRow

\* retry_job.
LEMMA RetryRowTyped ==
  ASSUME job \in [Jobs -> Row], exam \in [Generation -> ExamRow],
         NEW j \in Jobs, RetryRow(j)
  PROVE  job' \in [Jobs -> Row] /\ exam' \in [Generation -> ExamRow]
<1>1. [job[j] EXCEPT !.status = "retrying", !.stage = "retrying",
                     !.heartbeat = "recent"] \in Row
  BY DEF Row, Open, Final
<1>2. job' \in [Jobs -> Row]
  BY <1>1 DEF RetryRow
<1> QED BY <1>2, SetExamTyped DEF RetryRow

\* claim_job.
LEMMA ClaimRowTyped ==
  ASSUME job \in [Jobs -> Row], exam \in [Generation -> ExamRow],
         doc \in [Ingestion -> DocRow], NEW j \in Jobs, ClaimRow(j)
  PROVE  /\ job' \in [Jobs -> Row]
         /\ exam' \in [Generation -> ExamRow]
         /\ doc' \in [Ingestion -> DocRow]
<1>1. [status |-> "running", stage |-> "starting", attempt |-> job[j].attempt + 1,
       gen |-> job[j].gen + 1, heartbeat |-> "recent"] \in Row
  BY DEF Row, Open, Final
<1>2. job' \in [Jobs -> Row]
  BY <1>1 DEF ClaimRow
<1>3. ASSUME j \in Ingestion
      PROVE  [doc[j] EXCEPT !.status = "processing", !.active = "job"] \in DocRow
  BY <1>3 DEF DocRow
<1>4. doc' \in [Ingestion -> DocRow]
  BY <1>3 DEF ClaimRow
<1> QED BY <1>2, <1>4, SetExamTyped DEF ClaimRow

\* complete_generation_job and complete_ingestion_job.
LEMMA PublishRowTyped ==
  ASSUME job \in [Jobs -> Row], exam \in [Generation -> ExamRow],
         doc \in [Ingestion -> DocRow], NEW j \in Jobs, NEW g \in Nat,
         PublishRow(j, g)
  PROVE  /\ job' \in [Jobs -> Row]
         /\ exam' \in [Generation -> ExamRow]
         /\ doc' \in [Ingestion -> DocRow]
<1>1. job' \in [Jobs -> Row]
  BY SetJobTyped DEF PublishRow
<1>2. \A o \in {"complete", "partial"} : [status |-> o, author |-> g] \in ExamRow
  BY DEF ExamRow
<1>3. exam' \in [Generation -> ExamRow]
  BY <1>2 DEF PublishRow
<1>4. ASSUME j \in Ingestion
      PROVE  [doc[j] EXCEPT !.status = "ready", !.author = g] \in DocRow
  BY <1>4 DEF DocRow
<1>5. doc' \in [Ingestion -> DocRow]
  BY <1>4 DEF PublishRow
<1> QED BY <1>1, <1>3, <1>5

\* mark_job_dispatched.
LEMMA MarkTyped ==
  ASSUME job \in [Jobs -> Row], NEW j \in Jobs, MarkDispatched(j)
  PROVE  job' \in [Jobs -> Row]
<1>1. [job[j] EXCEPT !.stage = "dispatched"] \in Row
  BY DEF Row
<1> QED BY <1>1 DEF MarkDispatched

\* Publishing a message.
LEMMA SendTyped ==
  ASSUME inbox \in [Jobs -> [Retries -> Nat]], NEW j \in Jobs, NEW r \in Retries,
         Send(j, r)
  PROVE  inbox' \in [Jobs -> [Retries -> Nat]]
BY DEF Send

\* A heartbeat, or its expiry.
LEMMA HeartbeatTyped ==
  ASSUME job \in [Jobs -> Row], NEW j \in Jobs, NEW h \in {"recent", "old"},
         job' = [job EXCEPT ![j].heartbeat = h]
  PROVE  job' \in [Jobs -> Row]
<1>1. [job[j] EXCEPT !.heartbeat = h] \in Row
  BY DEF Row
<1> QED BY <1>1

\* update_job_progress.
LEMMA ProgressTyped ==
  ASSUME TypeOK, NEW w \in Workers, Progress(w), worker[w].job \in Jobs
  PROVE  job' \in [Jobs -> Row] /\ exam' \in [Generation -> ExamRow]
<1> DEFINE j == worker[w].job
<1> /\ job \in [Jobs -> Row]
    /\ exam \in [Generation -> ExamRow]
  BY DEF TypeOK
<1>1. [job[j] EXCEPT !.stage = "working", !.heartbeat = "recent"] \in Row
  BY DEF Row
<1>2. ASSUME j \in Generation PROVE [exam[j] EXCEPT !.status = "running"] \in ExamRow
  BY <1>2 DEF ExamRow, Open
<1> QED BY <1>1, <1>2 DEF Progress, rows

\* cancel_job on the documents row.
LEMMA CancelDocTyped ==
  ASSUME doc \in [Ingestion -> DocRow], NEW j \in Jobs, Cancel(j)
  PROVE  doc' \in [Ingestion -> DocRow]
<1>1. ASSUME j \in Ingestion
      PROVE  [doc[j] EXCEPT !.status = "cancelled", !.active = "none"] \in DocRow
  BY <1>1 DEF DocRow
<1> QED BY <1>1 DEF Cancel

\* A worker that is not idle holds a message of a job and its retry count.
LEMMA BusyWorker ==
  ASSUME WorkersOK, NEW w \in Workers
  PROVE  /\ worker[w] \in Execution
         /\ worker[w].retries \in Retries /\ worker[w].gen \in Nat
         /\ worker[w].pc \in Executing \cup {"idle", "claiming", "retrying"}
         /\ worker[w].pc # "idle" => worker[w].job \in Jobs
         /\ worker[w].pc = "retrying" => worker[w].retries + 1 \in Retries
BY DEF WorkersOK, Execution, Retries

\* Steps of the other processes.
LEMMA WorkersKept == WorkersOK /\ UNCHANGED worker => WorkersOK'
BY DEF WorkersOK

\* An acknowledged message leaves the worker idle.
LEMMA AckTyped ==
  ASSUME WorkersOK, NEW w \in Workers, Ack(w)
  PROVE  WorkersOK'
<1>1. Idle \in Execution /\ Idle.pc = "idle"
  BY DEF Idle, Execution, Retries
<1> QED BY <1>1 DEF Ack, WorkersOK

\* A step of the program counter.
LEMMA GotoTyped ==
  ASSUME WorkersOK, NEW w \in Workers, worker[w].pc # "idle",
         NEW pc \in Executing \cup {"retrying"}, Goto(w, pc),
         pc = "retrying" => worker[w].retries < 2
  PROVE  WorkersOK'
<1>1. worker[w] \in Execution
  BY DEF WorkersOK
<1>2. /\ [worker[w] EXCEPT !.pc = pc] \in Execution
      /\ [worker[w] EXCEPT !.pc = pc].job = worker[w].job
      /\ [worker[w] EXCEPT !.pc = pc].retries = worker[w].retries
      /\ [worker[w] EXCEPT !.pc = pc].pc = pc
  BY <1>1 DEF Execution
<1> QED BY <1>2 DEF Goto, WorkersOK

\* max_retries is at most 2, so the retry count of a retry is at most 2.
LEMMA RetriesLeft ==
  ASSUME NEW j \in Jobs, NEW r \in Retries, r < MaxRetries(j)
  PROVE  r < 2
BY DEF MaxRetries, Retries

\* A message taken from the broker.
LEMMA ReceiveTyped ==
  ASSUME WorkersOK, NEW w \in Workers, NEW j \in Jobs, NEW r \in Retries,
         Receive(w, j, r)
  PROVE  WorkersOK'
<1>1. [pc |-> "claiming", job |-> j, retries |-> r, gen |-> 0] \in Execution
  BY DEF Execution
<1> QED BY <1>1 DEF Receive, WorkersOK

\* A claim granted.
LEMMA GrantTyped ==
  ASSUME WorkersOK, job \in [Jobs -> Row], NEW w \in Workers,
         worker[w].pc # "idle",
         worker' = [worker EXCEPT ![w].pc = "working",
                                  ![w].gen = job[worker[w].job].gen + 1]
  PROVE  WorkersOK'
<1> DEFINE x == [worker[w] EXCEPT !.pc = "working",
                                  !.gen = job[worker[w].job].gen + 1]
<1>1. worker[w] \in Execution /\ worker[w].job \in Jobs
  BY DEF WorkersOK
<1>2. job[worker[w].job].gen + 1 \in Nat
  BY <1>1 DEF Row
<1>3. x \in Execution /\ x.job = worker[w].job /\ x.pc = "working"
  BY <1>1, <1>2 DEF Execution, Executing
<1> QED BY <1>1, <1>3 DEF WorkersOK

\* Every step keeps the type invariant.
LEMMA TypeStep == TypeOK /\ [Next]_vars => TypeOK'
<1> SUFFICES ASSUME TypeOK, [Next]_vars PROVE TypeOK'
  OBVIOUS
<1> USE JobsAssumption, FaultsAssumption, WorkersKept DEF TypeOK, rows, Fault
<1>1. ASSUME NEW j \in Jobs, JobStep(j) PROVE TypeOK'
  <2> 0 \in Retries
    BY DEF Retries
  <2>1. CASE ApiEnqueue(j)
    BY <2>1, SendTyped DEF ApiEnqueue
  <2>2. CASE ApiMark(j)
    BY <2>2, MarkTyped DEF ApiMark
  <2>3. CASE ApiFails(j)
    BY <2>3, FailRowTyped DEF ApiFails
  <2>4. CASE Cancel(j)
    BY <2>4, SetJobTyped, SetExamTyped, CancelDocTyped DEF Cancel
  <2>5. CASE CleanupCancelled(j)
    BY <2>5 DEF CleanupCancelled
  <2>6. CASE SweepList(j)
    BY <2>6 DEF SweepList
  <2>7. CASE SweepPublish(j)
    BY <2>7, SendTyped DEF SweepPublish
  <2>8. CASE SweepMark(j)
    BY <2>8, MarkTyped DEF SweepMark
  <2>9. CASE SweepFails(j)
    BY <2>9 DEF SweepFails
  <2>10. CASE RecoverStale(j)
    BY <2>10, FailRowTyped, SetJobTyped, SetExamTyped DEF RecoverStale
  <2>11. CASE RequeuePublish(j)
    BY <2>11, SendTyped DEF RequeuePublish
  <2>12. CASE HeartbeatExpires(j)
    BY <2>12, HeartbeatTyped DEF HeartbeatExpires
  <2> QED BY <1>1, <2>1, <2>2, <2>3, <2>4, <2>5, <2>6, <2>7, <2>8, <2>9, <2>10,
             <2>11, <2>12 DEF JobStep
<1>2. ASSUME NEW w \in Workers, WorkerStep(w) PROVE TypeOK'
  <2>1. ASSUME NEW j \in Jobs, NEW r \in Retries, Receive(w, j, r) PROVE TypeOK'
    <3>1. inbox' \in [Jobs -> [Retries -> Nat]]
      BY <2>1 DEF Receive
    <3> QED BY <2>1, <3>1, ReceiveTyped DEF Receive
  <2>2. CASE Claim(w)
    BY <2>2, BusyWorker, GrantTyped, ClaimRowTyped, AckTyped DEF Claim
  <2>3. CASE ClaimUnavailable(w)
    BY <2>3, AckTyped DEF ClaimUnavailable
  <2>4. CASE ClaimReplyLost(w)
    BY <2>4, BusyWorker, ClaimRowTyped, AckTyped DEF ClaimReplyLost
  <2>5. CASE Progress(w)
    BY <2>5, BusyWorker, ProgressTyped, AckTyped DEF Progress
  <2>6. CASE Heartbeat(w)
    BY <2>6, BusyWorker, HeartbeatTyped DEF Heartbeat
  <2>7. CASE IndexChunks(w)
    BY <2>7, BusyWorker, AckTyped, GotoTyped DEF IndexChunks, Executing
  <2>8. CASE CheckCancelled(w)
    BY <2>8, BusyWorker, AckTyped, GotoTyped DEF CheckCancelled, Executing
  <2>9. CASE Complete(w)
    BY <2>9, BusyWorker, PublishRowTyped, AckTyped DEF Complete
  <2>10. CASE Fail(w)
    BY <2>10, BusyWorker, FailRowTyped, AckTyped DEF Fail, Executing
  <2>11. CASE Retry(w)
    BY <2>11, BusyWorker, RetriesLeft, RetryRowTyped, AckTyped, GotoTyped DEF Retry, RetryRow, Executing
  <2>12. CASE RetryPublish(w)
    BY <2>12, BusyWorker, SendTyped, AckTyped DEF RetryPublish
  <2>13. CASE RetryPublishFails(w)
    BY <2>13, AckTyped DEF RetryPublishFails
  <2>14. CASE RetryReplyLost(w)
    <3>1. worker[w].job \in Jobs
      BY <2>14, BusyWorker DEF RetryReplyLost, Executing
    <3>2. job' \in [Jobs -> Row] /\ exam' \in [Generation -> ExamRow]
      BY <2>14, <3>1, RetryRowTyped DEF RetryReplyLost
    <3> QED BY <2>14, <3>2, AckTyped DEF RetryReplyLost, RetryRow
  <2>15. CASE HandlerUnavailable(w)
    BY <2>15, AckTyped DEF HandlerUnavailable
  <2>16. CASE WorkerLost(w)
    BY <2>16, BusyWorker, SendTyped, AckTyped DEF WorkerLost
  <2>17. CASE TimeLimit(w)
    BY <2>17, AckTyped DEF TimeLimit
  <2>18. CASE Terminate(w)
    BY <2>18, AckTyped DEF Terminate
  <2> QED BY <1>2, <2>1, <2>2, <2>3, <2>4, <2>5, <2>6, <2>7, <2>8, <2>9, <2>10,
             <2>11, <2>12, <2>13, <2>14, <2>15, <2>16, <2>17, <2>18 DEF WorkerStep
<1>3. CASE RequeueFails
  BY <1>3 DEF RequeueFails
<1>4. CASE UNCHANGED vars
  BY <1>4 DEF vars
<1> QED BY <1>1, <1>2, <1>3, <1>4 DEF Next

-----------------------------------------------------------------------------
(* What the transactions do to the fields the other invariants are about.  *)

\* No status, claim generation or author changes.
Stays ==
  /\ \A i \in Jobs : job'[i].status = job[i].status /\ job'[i].gen = job[i].gen
  /\ \A i \in Generation : /\ exam'[i].status = exam[i].status
                           /\ exam'[i].author = exam[i].author
  /\ \A i \in Ingestion : /\ doc'[i].status = doc[i].status
                          /\ doc'[i].author = doc[i].author

\* Job j moves to an unpublished status, and the row it drives with it.
Moves(j, to, g) ==
  /\ \A i \in Jobs : /\ job'[i].status = IF i = j THEN to ELSE job[i].status
                     /\ job'[i].gen = IF i = j THEN g ELSE job[i].gen
  /\ \A i \in Generation : /\ exam'[i].status = IF i = j THEN to ELSE exam[i].status
                           /\ exam'[i].author = exam[i].author
  /\ \A i \in Ingestion :
       /\ doc'[i].status = IF i = j THEN DocStatus(to) ELSE doc[i].status
       /\ doc'[i].author = doc[i].author

\* Execution v does not get ahead: it holds no claim it did not hold before.
Inherits(v) ==
  worker'[v].pc \in Executing =>
    /\ worker[v].pc \in Executing
    /\ worker'[v].job = worker[v].job /\ worker'[v].gen = worker[v].gen
    /\ worker'[v].pc \in {"indexed", "finishing"} =>
         worker[v].pc \in {"indexed", "finishing"} \/ worker[v].job \notin Ingestion

\* A transaction that touches no row.
LEMMA RowsStay == UNCHANGED rows => Stays
BY DEF rows, Stays

\* mark_job_dispatched, heartbeats and progress touch neither status nor claim.
LEMMA MarkStays ==
  ASSUME job \in [Jobs -> Row], NEW j \in Jobs, MarkDispatched(j),
         UNCHANGED <<exam, doc>>
  PROVE  Stays
BY DEF Row, MarkDispatched, Stays

\* heartbeat_job, and the passing of time.
LEMMA HeartbeatStays ==
  ASSUME job \in [Jobs -> Row], NEW j \in Jobs, NEW h \in {"recent", "old"},
         job' = [job EXCEPT ![j].heartbeat = h], UNCHANGED <<exam, doc>>
  PROVE  Stays
BY DEF Row, Stays

\* update_job_progress finds the exam running already.
LEMMA ProgressStays ==
  ASSUME job \in [Jobs -> Row], exam \in [Generation -> ExamRow], RowsAgree,
         NEW w \in Workers, worker[w].job \in Jobs, Progress(w)
  PROVE  Stays
<1>1. CASE ~Owns(w)
  BY <1>1, RowsStay DEF Progress
<1>2. CASE Owns(w)
  <2> DEFINE j == worker[w].job
  <2>1. job[j].status = "running"
    BY <1>2 DEF Owns, Fenced
  <2>2. \A i \in Jobs : job'[i].status = job[i].status /\ job'[i].gen = job[i].gen
    BY <1>2 DEF Row, Progress
  <2>3. j \in Generation => exam[j].status = "running"
    BY <2>1 DEF RowsAgree, ExamStatuses
  <2>4. \A i \in Generation : /\ exam'[i].status = exam[i].status
                              /\ exam'[i].author = exam[i].author
    BY <1>2, <2>3 DEF ExamRow, Progress
  <2> QED BY <1>2, <2>2, <2>4 DEF Progress, Stays
<1> QED BY <1>1, <1>2

\* SetJob and SetExam by field.
LEMMA SetFields ==
  ASSUME job \in [Jobs -> Row], exam \in [Generation -> ExamRow],
         NEW j \in Jobs, NEW to, SetJob(j, to, to), SetExam(j, to)
  PROVE  /\ \A i \in Jobs : /\ job'[i].status = IF i = j THEN to ELSE job[i].status
                            /\ job'[i].gen = IF i = j THEN job[j].gen ELSE job[i].gen
         /\ \A i \in Generation :
              /\ exam'[i].status = IF i = j THEN to ELSE exam[i].status
              /\ exam'[i].author = exam[i].author
BY DEF Row, ExamRow, SetJob, SetExam

\* fail_job, and recover_stale_jobs when no attempt is left.
LEMMA FailMoves ==
  ASSUME job \in [Jobs -> Row], exam \in [Generation -> ExamRow],
         doc \in [Ingestion -> DocRow], NEW j \in Jobs, FailRow(j)
  PROVE  Moves(j, "failed", job[j].gen)
<1>1. \A i \in Ingestion :
        /\ doc'[i].status = IF i = j THEN DocStatus("failed") ELSE doc[i].status
        /\ doc'[i].author = doc[i].author
  BY DEF FailRow, SetDoc, DocRow, DocStatus
<1> QED BY <1>1, SetFields DEF FailRow, Moves

\* retry_job, whose job was running.
LEMMA RetryMoves ==
  ASSUME job \in [Jobs -> Row], exam \in [Generation -> ExamRow], RowsAgree,
         NEW j \in Jobs, job[j].status = "running", RetryRow(j)
  PROVE  Moves(j, "retrying", job[j].gen)
<1>1. \A i \in Jobs : /\ job'[i].status = IF i = j THEN "retrying" ELSE job[i].status
                      /\ job'[i].gen = IF i = j THEN job[j].gen ELSE job[i].gen
  BY DEF RetryRow, Row
<1>2. \A i \in Generation :
        /\ exam'[i].status = IF i = j THEN "retrying" ELSE exam[i].status
        /\ exam'[i].author = exam[i].author
  BY DEF RetryRow, SetExam, ExamRow
<1>3. j \in Ingestion => doc[j].status = DocStatus("retrying")
  BY DEF RowsAgree, DocStatus
<1> QED BY <1>1, <1>2, <1>3 DEF RetryRow, Moves

\* recover_stale_jobs when an attempt is left.
LEMMA RecoverMoves ==
  ASSUME job \in [Jobs -> Row], exam \in [Generation -> ExamRow], RowsAgree,
         NEW j \in Jobs, job[j].status = "running",
         SetJob(j, "retrying", "retrying"), SetExam(j, "retrying"), UNCHANGED doc
  PROVE  Moves(j, "retrying", job[j].gen)
<1>1. j \in Ingestion => doc[j].status = DocStatus("retrying")
  BY DEF RowsAgree, DocStatus
<1> QED BY <1>1, SetFields DEF Moves

\* cancel_job: the status filter on the documents row always lets it through.
LEMMA CancelMoves ==
  ASSUME job \in [Jobs -> Row], exam \in [Generation -> ExamRow],
         doc \in [Ingestion -> DocRow], RowsAgree, NEW j \in Jobs, Cancel(j)
  PROVE  Moves(j, "cancelled", job[j].gen)
<1>1. j \in Ingestion => doc[j].status \in {"queued", "processing"}
  BY DEF RowsAgree, DocStatus, Cancel, Open
<1>2. \A i \in Ingestion :
        /\ doc'[i].status = IF i = j THEN "cancelled" ELSE doc[i].status
        /\ doc'[i].author = doc[i].author
  BY <1>1 DEF Cancel, DocRow
<1>3. DocStatus("cancelled") = "cancelled"
  BY DEF DocStatus
<1> QED BY <1>2, <1>3, SetFields DEF Cancel, Moves

\* claim_job.
LEMMA ClaimMoves ==
  ASSUME job \in [Jobs -> Row], exam \in [Generation -> ExamRow],
         doc \in [Ingestion -> DocRow], NEW j \in Jobs, ClaimRow(j)
  PROVE  Moves(j, "running", job[j].gen + 1)
<1>1. \A i \in Jobs : /\ job'[i].status = IF i = j THEN "running" ELSE job[i].status
                      /\ job'[i].gen = IF i = j THEN job[j].gen + 1 ELSE job[i].gen
  BY DEF ClaimRow, Row
<1>2. \A i \in Generation :
        /\ exam'[i].status = IF i = j THEN "running" ELSE exam[i].status
        /\ exam'[i].author = exam[i].author
  BY DEF ClaimRow, SetExam, ExamRow
<1>3. \A i \in Ingestion :
        /\ doc'[i].status = IF i = j THEN DocStatus("running") ELSE doc[i].status
        /\ doc'[i].author = doc[i].author
  BY DEF ClaimRow, DocRow, DocStatus
<1> QED BY <1>1, <1>2, <1>3 DEF Moves

-----------------------------------------------------------------------------
(* The invariants other than the type, for one kind of step at a time.     *)

Rest == RowsAgree /\ PublishedByLastClaim /\ ClaimsDistinct /\ ClaimsIssued
          /\ ChunksKept

\* The facts about types the following lemmas use.
LEMMA Fields ==
  ASSUME TypeOK
  PROVE  /\ \A j \in Jobs : job[j].gen \in Nat
         /\ \A w \in Workers :
              /\ worker[w].gen \in Nat
              /\ worker[w].pc \in Executing => worker[w].job \in Jobs
BY DEF TypeOK, WorkersOK, Row, Execution, Executing

\* What a claim is worth once no execution has got ahead and no job has gone
\* back: the executions' claims are still issued and distinct.
LEMMA ClaimsInherited ==
  ASSUME TypeOK, TypeOK', ClaimsDistinct, ClaimsIssued,
         \A v \in Workers : Inherits(v),
         \A i \in Jobs : job'[i].gen >= job[i].gen
  PROVE  ClaimsDistinct' /\ ClaimsIssued'
<1>1. ClaimsDistinct'
  BY DEF ClaimsDistinct, Inherits
<1>2. ASSUME NEW w \in Workers, worker'[w].pc \in Executing
      PROVE  1 <= worker'[w].gen /\ worker'[w].gen <= job'[worker'[w].job].gen
  <2>1. /\ worker[w].pc \in Executing
        /\ worker'[w].job = worker[w].job /\ worker'[w].gen = worker[w].gen
    BY <1>2 DEF Inherits
  <2>2. 1 <= worker[w].gen /\ worker[w].gen <= job[worker[w].job].gen
    BY <2>1 DEF ClaimsIssued
  <2>3. worker[w].job \in Jobs /\ worker[w].gen \in Nat
    BY <2>1, Fields
  <2>4. job[worker[w].job].gen \in Nat /\ job'[worker[w].job].gen \in Nat
    BY <2>3, Fields DEF TypeOK, Row
  <2> QED BY <2>1, <2>2, <2>3, <2>4
<1> QED BY <1>1, <1>2 DEF ClaimsIssued

\* A step that moves no job keeps the invariants.
LEMMA StayKeeps ==
  ASSUME TypeOK, TypeOK', Rest, Stays, UNCHANGED chunks,
         \A v \in Workers : Inherits(v)
  PROVE  Rest'
<1> USE DEF Rest
<1>1. RowsAgree'
  BY DEF RowsAgree, Stays, Jobs
<1>2. PublishedByLastClaim'
  BY DEF PublishedByLastClaim, Stays, Jobs
<1>3. \A i \in Jobs : job'[i].gen >= job[i].gen
  BY Fields DEF Stays
<1>4. ASSUME NEW w \in Workers,
             worker'[w].pc \in {"indexed", "finishing"},
             worker'[w].job \in Ingestion, Owns(w)'
      PROVE  chunks'[worker'[w].job] = worker'[w].gen
  <2>1. /\ worker'[w].job = worker[w].job /\ worker'[w].gen = worker[w].gen
        /\ worker[w].pc \in {"indexed", "finishing"}
    BY <1>4 DEF Inherits, Executing
  <2>2. worker[w].job \in Jobs
    BY <1>4, <2>1 DEF Jobs
  <2>3. Owns(w)
    BY <1>4, <2>1, <2>2 DEF Owns, Fenced, Stays, Executing
  <2> QED BY <1>4, <2>1, <2>3 DEF ChunksKept
<1> QED BY <1>1, <1>2, <1>3, <1>4, ClaimsInherited DEF ChunksKept

\* A step that retries, fails or cancels a job keeps the invariants.
LEMMA MoveKeeps ==
  ASSUME TypeOK, TypeOK', Rest, NEW j \in Jobs, job[j].status \in Open,
         NEW to \in {"retrying", "failed", "cancelled"}, Moves(j, to, job[j].gen),
         UNCHANGED chunks, \A v \in Workers : Inherits(v)
  PROVE  Rest'
<1> USE DEF Rest
<1>1. RowsAgree'
  <2>1. \A i \in Generation : exam'[i].status \in ExamStatuses(job'[i].status)
    BY DEF RowsAgree, Moves, Jobs, ExamStatuses
  <2>2. \A i \in Ingestion : doc'[i].status = DocStatus(job'[i].status)
    BY DEF RowsAgree, Moves, Jobs
  <2> QED BY <2>1, <2>2 DEF RowsAgree
<1>2. PublishedByLastClaim'
  BY DEF PublishedByLastClaim, Moves, Jobs, Open
<1>3. \A i \in Jobs : job'[i].gen >= job[i].gen
  BY Fields DEF Moves
<1>4. ASSUME NEW w \in Workers,
             worker'[w].pc \in {"indexed", "finishing"},
             worker'[w].job \in Ingestion, Owns(w)'
      PROVE  chunks'[worker'[w].job] = worker'[w].gen
  <2>1. /\ worker'[w].job = worker[w].job /\ worker'[w].gen = worker[w].gen
        /\ worker[w].pc \in {"indexed", "finishing"}
    BY <1>4 DEF Inherits, Executing
  <2>2. worker[w].job \in Jobs
    BY <1>4, <2>1 DEF Jobs
  <2>3. Owns(w)
    BY <1>4, <2>1, <2>2 DEF Owns, Fenced, Moves, Executing
  <2> QED BY <1>4, <2>1, <2>3 DEF ChunksKept
<1> QED BY <1>1, <1>2, <1>3, <1>4, ClaimsInherited DEF ChunksKept

\* A step that claims a job, for execution w or for nobody.
LEMMA ClaimKeeps ==
  ASSUME TypeOK, TypeOK', Rest, NEW j \in Jobs, job[j].status \in Claimable,
         Moves(j, "running", job[j].gen + 1), UNCHANGED chunks, NEW w \in Workers,
         \A v \in Workers \ {w} : Inherits(v),
         \/ Inherits(w)
         \/ /\ worker'[w].pc = "working" /\ worker'[w].job = j
            /\ worker'[w].gen = job[j].gen + 1
  PROVE  Rest'
<1> USE DEF Rest
<1> job[j].gen \in Nat
  BY Fields
<1>1. RowsAgree'
  <2>1. \A i \in Generation : exam'[i].status \in ExamStatuses(job'[i].status)
    BY DEF RowsAgree, Moves, Jobs, ExamStatuses
  <2>2. \A i \in Ingestion : doc'[i].status = DocStatus(job'[i].status)
    BY DEF RowsAgree, Moves, Jobs
  <2> QED BY <2>1, <2>2 DEF RowsAgree
<1>2. PublishedByLastClaim'
  BY DEF PublishedByLastClaim, Moves, Jobs, Claimable
<1>3. ASSUME NEW v \in Workers, worker'[v].pc \in Executing
      PROVE  1 <= worker'[v].gen /\ worker'[v].gen <= job'[worker'[v].job].gen
  <2>1. CASE Inherits(v)
    <3>1. /\ worker[v].pc \in Executing
          /\ worker'[v].job = worker[v].job /\ worker'[v].gen = worker[v].gen
      BY <1>3, <2>1 DEF Inherits
    <3>2. 1 <= worker[v].gen /\ worker[v].gen <= job[worker[v].job].gen
      BY <3>1 DEF ClaimsIssued
    <3>3. worker[v].job \in Jobs /\ worker[v].gen \in Nat
          /\ job[worker[v].job].gen \in Nat
      BY <3>1, Fields
    <3> QED BY <2>1, <3>1, <3>2, <3>3 DEF Moves
  <2>2. CASE ~Inherits(v)
    <3>1. v = w /\ worker'[v].job = j /\ worker'[v].gen = job[j].gen + 1
      BY <2>2
    <3> QED BY <3>1 DEF Moves
  <2> QED BY <2>1, <2>2
<1>4. ClaimsIssued'
  BY <1>3 DEF ClaimsIssued
<1>5. ClaimsDistinct'
  <2> SUFFICES ASSUME NEW u \in Workers, NEW v \in Workers,
                      worker'[u].pc \in Executing, worker'[v].pc \in Executing,
                      worker'[u].job = worker'[v].job,
                      worker'[u].gen = worker'[v].gen, u # v
               PROVE  FALSE
    BY DEF ClaimsDistinct
  <2>1. CASE Inherits(u) /\ Inherits(v)
    BY <2>1 DEF Inherits, ClaimsDistinct
  <2>2. CASE ~Inherits(u) \/ ~Inherits(v)
    <3>1. PICK x \in {u, v}, y \in {u, v} : x # y /\ ~Inherits(x)
      BY <2>2
    <3>2. x = w /\ worker'[x].job = j /\ worker'[x].gen = job[j].gen + 1
      BY <3>1
    <3>3. Inherits(y) /\ worker'[y].job = j
      BY <3>1, <3>2
    <3>4. /\ worker[y].pc \in Executing /\ worker[y].job = j
          /\ worker[y].gen = job[j].gen + 1
      BY <3>1, <3>2, <3>3 DEF Inherits
    <3>5. worker[y].gen <= job[j].gen
      BY <3>1, <3>4 DEF ClaimsIssued
    <3> QED BY <3>4, <3>5
  <2> QED BY <2>1, <2>2
<1>6. ASSUME NEW v \in Workers,
             worker'[v].pc \in {"indexed", "finishing"},
             worker'[v].job \in Ingestion, Owns(v)'
      PROVE  chunks'[worker'[v].job] = worker'[v].gen
  <2>1. Inherits(v)
    BY <1>6
  <2>2. /\ worker'[v].job = worker[v].job /\ worker'[v].gen = worker[v].gen
        /\ worker[v].pc \in {"indexed", "finishing"} /\ worker[v].pc \in Executing
    BY <1>6, <2>1 DEF Inherits, Executing
  <2>3. worker[v].job \in Jobs /\ worker[v].gen <= job[worker[v].job].gen
    BY <2>2, <1>6 DEF ClaimsIssued, Jobs
  <2>4. worker[v].job # j
    BY <1>6, <2>2, <2>3, Fields DEF Owns, Fenced, Moves
  <2>5. Owns(v)
    BY <1>6, <2>2, <2>3, <2>4 DEF Owns, Fenced, Moves
  <2> QED BY <1>6, <2>2, <2>5 DEF ChunksKept
<1> QED BY <1>1, <1>2, <1>4, <1>5, <1>6 DEF ChunksKept

\* The final transaction of the owner publishes and keeps the invariants.
LEMMA PublishKeeps ==
  ASSUME TypeOK, TypeOK', Rest, NEW w \in Workers, Owns(w),
         worker[w].pc = "finishing", PublishRow(worker[w].job, worker[w].gen),
         UNCHANGED chunks, Ack(w)
  PROVE  Rest'
<1> USE DEF Rest
<1> DEFINE j == worker[w].job
<1>1. /\ j \in Jobs /\ job[j].status = "running" /\ job[j].gen = worker[w].gen
      /\ job \in [Jobs -> Row] /\ exam \in [Generation -> ExamRow]
      /\ doc \in [Ingestion -> DocRow]
  BY Fields DEF Owns, Fenced, TypeOK
<1>2. /\ \A i \in Jobs : /\ job'[i].status = IF i = j THEN "completed" ELSE job[i].status
                         /\ job'[i].gen = job[i].gen
  BY <1>1 DEF PublishRow, SetJob, Row
<1>3. \A i \in Generation :
        \/ i = j /\ exam'[i].status \in {"complete", "partial"}
                 /\ exam'[i].author = job[j].gen
        \/ i # j /\ exam'[i].status = exam[i].status
                 /\ exam'[i].author = exam[i].author
  BY <1>1, JobsAssumption DEF PublishRow, ExamRow
<1>4. \A i \in Ingestion :
        \/ i = j /\ doc'[i].status = "ready" /\ doc'[i].author = job[j].gen
        \/ i # j /\ doc'[i].status = doc[i].status
                 /\ doc'[i].author = doc[i].author
  BY <1>1, JobsAssumption DEF PublishRow, DocRow
<1>5. RowsAgree'
  <2>1. \A i \in Generation : exam'[i].status \in ExamStatuses(job'[i].status)
    BY <1>2, <1>3 DEF RowsAgree, Jobs, ExamStatuses
  <2>2. \A i \in Ingestion : doc'[i].status = DocStatus(job'[i].status)
    BY <1>2, <1>4 DEF RowsAgree, Jobs, DocStatus
  <2> QED BY <2>1, <2>2 DEF RowsAgree
<1>6. j \in Ingestion => chunks[j] = job[j].gen
  BY <1>1 DEF ChunksKept
<1>7. PublishedByLastClaim'
  BY <1>2, <1>3, <1>4, <1>6 DEF PublishedByLastClaim, Jobs
<1>8. \A v \in Workers : Inherits(v)
  <2>1. Idle.pc \notin Executing
    BY DEF Idle, Executing
  <2> QED BY <2>1 DEF Ack, Inherits, TypeOK, WorkersOK
<1>9. ClaimsDistinct' /\ ClaimsIssued'
  BY <1>2, <1>8, Fields, ClaimsInherited
<1>10. ChunksKept'
  <2> SUFFICES ASSUME NEW v \in Workers,
                      worker'[v].pc \in {"indexed", "finishing"},
                      worker'[v].job \in Ingestion, Owns(v)'
               PROVE  chunks'[worker'[v].job] = worker'[v].gen
    BY DEF ChunksKept
  <2>1. /\ worker'[v].job = worker[v].job /\ worker'[v].gen = worker[v].gen
        /\ worker[v].pc \in {"indexed", "finishing"} /\ worker[v].pc \in Executing
    BY <1>8 DEF Inherits, Executing
  <2>2. worker[v].job \in Jobs
    BY <2>1 DEF Jobs
  <2>3. Owns(v)
    BY <1>2, <2>1, <2>2 DEF Owns, Fenced
  <2> QED BY <2>1, <2>3 DEF ChunksKept
<1> QED BY <1>5, <1>7, <1>9, <1>10

\* replace_document by the owner: no other owner exists, so no other chunks
\* are lost, and the document is not published yet.
LEMMA IndexKeeps ==
  ASSUME TypeOK, TypeOK', Rest, NEW w \in Workers, Owns(w),
         worker[w].pc = "working", worker[w].job \in Ingestion,
         chunks' = [chunks EXCEPT ![worker[w].job] = worker[w].gen],
         Goto(w, "indexed"), UNCHANGED rows
  PROVE  Rest'
<1> USE DEF Rest
<1> DEFINE j == worker[w].job
<1>1. /\ j \in Jobs /\ job[j].status = "running" /\ worker \in [Workers -> Execution]
      /\ chunks \in [Ingestion -> Nat]
  BY Fields DEF Owns, Fenced, TypeOK, WorkersOK
<1>2. /\ worker'[w].pc = "indexed" /\ worker'[w].job = j
      /\ worker'[w].gen = worker[w].gen
      /\ \A v \in Workers \ {w} : worker'[v] = worker[v]
  BY <1>1 DEF Goto, Execution
<1>3. RowsAgree'
  BY DEF RowsAgree, rows
<1>4. PublishedByLastClaim'
  BY <1>1 DEF PublishedByLastClaim, rows
<1>5. ClaimsDistinct' /\ ClaimsIssued'
  BY <1>1, <1>2 DEF ClaimsDistinct, ClaimsIssued, rows, Executing
<1>6. ASSUME NEW v \in Workers,
             worker'[v].pc \in {"indexed", "finishing"},
             worker'[v].job \in Ingestion, Owns(v)'
      PROVE  chunks'[worker'[v].job] = worker'[v].gen
  <2>1. CASE v = w
    BY <1>1, <1>2, <2>1
  <2>2. CASE v # w
    <3>1. Owns(v) /\ worker'[v] = worker[v]
      BY <1>2, <1>6, <2>2 DEF Owns, Fenced, rows
    <3>2. worker[v].job # j
      BY <2>2, <3>1 DEF Owns, Fenced, ClaimsDistinct
    <3> QED BY <1>1, <1>6, <3>1, <3>2 DEF ChunksKept
  <2> QED BY <2>1, <2>2
<1> QED BY <1>3, <1>4, <1>5, <1>6 DEF ChunksKept

\* cleanup_cancelled_document deletes chunks of a job nobody owns.
LEMMA CleanupKeeps ==
  ASSUME TypeOK, TypeOK', Rest, NEW j \in Jobs, CleanupCancelled(j)
  PROVE  Rest'
<1> USE DEF Rest, CleanupCancelled
<1>1. chunks \in [Ingestion -> Nat]
  BY DEF TypeOK
<1>2. RowsAgree' /\ ClaimsDistinct' /\ ClaimsIssued'
  BY DEF RowsAgree, ClaimsDistinct, ClaimsIssued, rows
<1>3. PublishedByLastClaim'
  BY <1>1 DEF PublishedByLastClaim, rows
<1>4. ChunksKept'
  BY <1>1 DEF ChunksKept, Owns, Fenced, rows
<1> QED BY <1>2, <1>3, <1>4

-----------------------------------------------------------------------------
(* The worker side of the steps.                                           *)

\* The end of an execution, a message taken, a step of the program counter.
LEMMA AckInherits ==
  ASSUME WorkersOK, NEW w \in Workers, Ack(w)
  PROVE  \A v \in Workers : Inherits(v)
<1>1. Idle.pc \notin Executing
  BY DEF Idle, Executing
<1> QED BY <1>1 DEF Ack, Inherits, WorkersOK

\* A message taken: the execution that starts holds no claim yet.
LEMMA ReceiveInherits ==
  ASSUME WorkersOK, NEW w \in Workers, NEW j, NEW r, Receive(w, j, r)
  PROVE  \A v \in Workers : Inherits(v)
BY DEF Receive, Inherits, WorkersOK, Executing

\* A step of the program counter keeps the claim the execution holds.
LEMMA GotoInherits ==
  ASSUME WorkersOK, NEW w \in Workers, NEW pc, Goto(w, pc),
         \/ pc = "retrying"
         \/ pc = "finishing" /\ \/ worker[w].pc = "indexed"
                                \/ worker[w].pc = "working" /\ worker[w].job \in Generation
  PROVE  \A v \in Workers : Inherits(v)
BY JobsAssumption DEF Goto, Inherits, WorkersOK, Execution, Executing

\* Steps of the other processes leave every execution its claim.
LEMMA KeptInherits == UNCHANGED worker => \A v \in Workers : Inherits(v)
BY DEF Inherits

-----------------------------------------------------------------------------
(* The inductive invariant.                                                *)

\* Every step keeps the whole invariant: one kind of step per action.
LEMMA InvStep == Inv /\ [Next]_vars => Inv'
<1> SUFFICES ASSUME Inv, [Next]_vars PROVE Inv'
  OBVIOUS
<1>0. TypeOK /\ TypeOK' /\ Rest
  BY TypeStep DEF Inv, Rest
<1>a. /\ job \in [Jobs -> Row] /\ exam \in [Generation -> ExamRow]
      /\ doc \in [Ingestion -> DocRow] /\ WorkersOK /\ RowsAgree
  BY <1>0 DEF TypeOK, Rest
<1> SUFFICES Rest'
  BY <1>0 DEF Inv, Rest
<1>1. ASSUME NEW j \in Jobs, JobStep(j) PROVE Rest'
  <2>1. CASE ApiEnqueue(j)
    BY <1>0, <2>1, RowsStay, KeptInherits, StayKeeps DEF ApiEnqueue
  <2>2. CASE ApiMark(j)
    BY <1>0, <1>a, <2>2, MarkStays, KeptInherits, StayKeeps DEF ApiMark
  <2>3. CASE ApiFails(j)
    <3>1. CASE UNCHANGED rows
      BY <1>0, <2>3, <3>1, RowsStay, KeptInherits, StayKeeps DEF ApiFails
    <3>2. CASE job[j].status = "queued" /\ FailRow(j)
      BY <1>0, <1>a, <2>3, <3>2, FailMoves, KeptInherits, MoveKeeps
      DEF ApiFails, Open
    <3> QED BY <2>3, <3>1, <3>2 DEF ApiFails
  <2>4. CASE Cancel(j)
    <3>1. Moves(j, "cancelled", job[j].gen)
      BY <1>a, <2>4, CancelMoves
    <3> QED BY <1>0, <2>4, <3>1, KeptInherits, MoveKeeps DEF Cancel
  <2>5. CASE CleanupCancelled(j)
    BY <1>0, <2>5, CleanupKeeps
  <2>6. CASE SweepList(j)
    BY <1>0, <2>6, RowsStay, KeptInherits, StayKeeps DEF SweepList
  <2>7. CASE SweepPublish(j)
    BY <1>0, <2>7, RowsStay, KeptInherits, StayKeeps DEF SweepPublish
  <2>8. CASE SweepMark(j)
    BY <1>0, <1>a, <2>8, MarkStays, KeptInherits, StayKeeps DEF SweepMark
  <2>9. CASE SweepFails(j)
    BY <1>0, <2>9, RowsStay, KeptInherits, StayKeeps DEF SweepFails
  <2>10. CASE RecoverStale(j)
    <3>1. \/ Moves(j, "retrying", job[j].gen)
          \/ Moves(j, "failed", job[j].gen)
      BY <1>a, <2>10, FailMoves, RecoverMoves DEF RecoverStale
    <3> QED BY <1>0, <2>10, <3>1, KeptInherits, MoveKeeps DEF RecoverStale, Open
  <2>11. CASE RequeuePublish(j)
    BY <1>0, <2>11, RowsStay, KeptInherits, StayKeeps DEF RequeuePublish
  <2>12. CASE HeartbeatExpires(j)
    BY <1>0, <1>a, <2>12, HeartbeatStays, KeptInherits, StayKeeps
    DEF HeartbeatExpires
  <2> QED BY <1>1, <2>1, <2>2, <2>3, <2>4, <2>5, <2>6, <2>7, <2>8, <2>9, <2>10,
             <2>11, <2>12 DEF JobStep
<1>2. ASSUME NEW w \in Workers, WorkerStep(w) PROVE Rest'
  <2> DEFINE j == worker[w].job
  <2>a. worker[w].pc # "idle" => j \in Jobs
    BY <1>a DEF WorkersOK
  <2>b. Owns(w) => job[j].status = "running"
    BY DEF Owns, Fenced
  <2>1. ASSUME NEW i \in Jobs, NEW r \in Retries, Receive(w, i, r) PROVE Rest'
    <3>1. \A v \in Workers : Inherits(v)
      BY <1>a, <2>1, ReceiveInherits
    <3> QED BY <1>0, <2>1, <3>1, RowsStay, StayKeeps DEF Receive
  <2>2. CASE Claim(w)
    <3>1. CASE job[j].status \in Claimable
      <4>1. Moves(j, "running", job[j].gen + 1)
        BY <1>a, <2>2, <2>a, <3>1, ClaimMoves DEF Claim
      <4>2. /\ worker'[w].pc = "working" /\ worker'[w].job = j
            /\ worker'[w].gen = job[j].gen + 1
            /\ \A v \in Workers \ {w} : worker'[v] = worker[v]
        BY <1>a, <2>2, <3>1 DEF Claim, WorkersOK, Execution
      <4>3. \A v \in Workers \ {w} : Inherits(v)
        BY <4>2 DEF Inherits
      <4> QED BY <1>0, <2>2, <2>a, <3>1, <4>1, <4>2, <4>3, ClaimKeeps DEF Claim
    <3>2. CASE job[j].status \notin Claimable
      BY <1>0, <1>a, <2>2, <3>2, AckInherits, RowsStay, StayKeeps DEF Claim
    <3> QED BY <3>1, <3>2
  <2>3. CASE ClaimUnavailable(w)
    BY <1>0, <1>a, <2>3, AckInherits, RowsStay, StayKeeps DEF ClaimUnavailable
  <2>4. CASE ClaimReplyLost(w)
    <3>1. Moves(j, "running", job[j].gen + 1)
      BY <1>a, <2>4, <2>a, ClaimMoves DEF ClaimReplyLost
    <3>2. \A v \in Workers : Inherits(v)
      BY <1>a, <2>4, AckInherits DEF ClaimReplyLost
    <3> QED BY <1>0, <2>4, <2>a, <3>1, <3>2, ClaimKeeps DEF ClaimReplyLost
  <2>5. CASE Progress(w)
    <3>1. Stays
      BY <1>a, <2>5, <2>a, ProgressStays DEF Progress
    <3>2. \A v \in Workers : Inherits(v)
      BY <1>a, <2>5, AckInherits, KeptInherits DEF Progress
    <3> QED BY <1>0, <2>5, <3>1, <3>2, StayKeeps DEF Progress
  <2>6. CASE Heartbeat(w)
    BY <1>0, <1>a, <2>6, <2>a, HeartbeatStays, KeptInherits, StayKeeps DEF Heartbeat
  <2>7. CASE IndexChunks(w)
    <3>1. CASE Owns(w) /\ doc[j].active = "job"
      BY <1>0, <2>7, <3>1, IndexKeeps DEF IndexChunks
    <3>2. CASE ~(Owns(w) /\ doc[j].active = "job")
      BY <1>0, <1>a, <2>7, <3>2, AckInherits, RowsStay, StayKeeps DEF IndexChunks
    <3> QED BY <3>1, <3>2
  <2>8. CASE CheckCancelled(w)
    <3>1. \A v \in Workers : Inherits(v)
      BY <1>a, <2>8, AckInherits, GotoInherits DEF CheckCancelled
    <3> QED BY <1>0, <2>8, <3>1, RowsStay, StayKeeps DEF CheckCancelled
  <2>9. CASE Complete(w)
    <3>1. CASE Owns(w)
      BY <1>0, <2>9, <3>1, PublishKeeps DEF Complete
    <3>2. CASE ~Owns(w)
      BY <1>0, <1>a, <2>9, <3>2, AckInherits, RowsStay, StayKeeps DEF Complete
    <3> QED BY <3>1, <3>2
  <2>10. CASE Fail(w)
    <3>1. CASE Owns(w)
      <4>1. Moves(j, "failed", job[j].gen)
        BY <1>a, <2>10, <2>a, <3>1, FailMoves DEF Fail, Executing
      <4> QED BY <1>0, <1>a, <2>10, <2>a, <2>b, <3>1, <4>1, AckInherits, MoveKeeps
          DEF Fail, Executing, Open
    <3>2. CASE ~Owns(w)
      BY <1>0, <1>a, <2>10, <3>2, AckInherits, RowsStay, StayKeeps DEF Fail
    <3> QED BY <3>1, <3>2
  <2>11. CASE Retry(w)
    <3>1. CASE Owns(w)
      <4>1. Moves(j, "retrying", job[j].gen)
        BY <1>a, <2>11, <2>a, <2>b, <3>1, RetryMoves DEF Retry, Executing
      <4>2. \A v \in Workers : Inherits(v)
        BY <1>a, <2>11, <3>1, GotoInherits DEF Retry
      <4> QED BY <1>0, <2>11, <2>a, <2>b, <3>1, <4>1, <4>2, MoveKeeps
          DEF Retry, Executing, Open
    <3>2. CASE ~Owns(w)
      BY <1>0, <1>a, <2>11, <3>2, AckInherits, RowsStay, StayKeeps DEF Retry
    <3> QED BY <3>1, <3>2
  <2>12. CASE RetryPublish(w)
    BY <1>0, <1>a, <2>12, AckInherits, RowsStay, StayKeeps DEF RetryPublish
  <2>13. CASE RetryPublishFails(w)
    BY <1>0, <1>a, <2>13, AckInherits, RowsStay, StayKeeps DEF RetryPublishFails
  <2>14. CASE RetryReplyLost(w)
    <3>1. Moves(j, "retrying", job[j].gen)
      BY <1>a, <2>14, <2>a, <2>b, RetryMoves DEF RetryReplyLost, Executing
    <3> QED BY <1>0, <1>a, <2>14, <2>a, <2>b, <3>1, AckInherits, MoveKeeps
        DEF RetryReplyLost, Executing, Open
  <2>15. CASE HandlerUnavailable(w)
    BY <1>0, <1>a, <2>15, AckInherits, RowsStay, StayKeeps DEF HandlerUnavailable
  <2>16. CASE WorkerLost(w)
    BY <1>0, <1>a, <2>16, AckInherits, RowsStay, StayKeeps DEF WorkerLost
  <2>17. CASE TimeLimit(w)
    BY <1>0, <1>a, <2>17, AckInherits, RowsStay, StayKeeps DEF TimeLimit
  <2>18. CASE Terminate(w)
    BY <1>0, <1>a, <2>18, AckInherits, RowsStay, StayKeeps DEF Terminate
  <2> QED BY <1>2, <2>1, <2>2, <2>3, <2>4, <2>5, <2>6, <2>7, <2>8, <2>9, <2>10,
             <2>11, <2>12, <2>13, <2>14, <2>15, <2>16, <2>17, <2>18 DEF WorkerStep
<1>3. CASE RequeueFails
  BY <1>0, <1>3, RowsStay, KeptInherits, StayKeeps DEF RequeueFails
<1>4. CASE UNCHANGED vars
  BY <1>0, <1>4, RowsStay, KeptInherits, StayKeeps DEF vars, rows
<1> QED BY <1>1, <1>2, <1>3, <1>4 DEF Next

\* A job just created satisfies the invariant.
LEMMA InvInit == Init => Inv
<1> SUFFICES ASSUME Init PROVE Inv
  OBVIOUS
<1>1. TypeOK
  <2>1. [status |-> "queued", stage |-> "queued", attempt |-> 0, gen |-> 0,
         heartbeat |-> "none"] \in Row
    BY DEF Row, Open
  <2>2. [status |-> "queued", author |-> 0] \in ExamRow
    BY DEF ExamRow, Open
  <2>3. [status |-> "queued", active |-> "none", author |-> 0] \in DocRow
    BY DEF DocRow
  <2>4. Idle \in Execution /\ Idle.pc = "idle"
    BY DEF Idle, Execution, Retries
  <2>5. WorkersOK
    BY <2>4 DEF Init, WorkersOK
  <2> QED BY <2>1, <2>2, <2>3, <2>5 DEF Init, TypeOK
<1>2. RowsAgree /\ PublishedByLastClaim
  BY DEF Init, RowsAgree, PublishedByLastClaim, ExamStatuses, DocStatus, Jobs
<1>3. \A w \in Workers : worker[w].pc \notin Executing
  BY DEF Init, Idle, Executing
<1>4. ClaimsDistinct /\ ClaimsIssued /\ ChunksKept
  BY <1>3 DEF ClaimsDistinct, ClaimsIssued, ChunksKept, Executing
<1> QED BY <1>1, <1>2, <1>4 DEF Inv

\* The inductive invariant holds of every reachable state, for any jobs and
\* workers and for every kind and number of faults.
THEOREM Invariance == Spec => []Inv
<1>1. Init => Inv
  BY InvInit
<1>2. Inv /\ [Next]_vars => Inv'
  BY InvStep
<1> QED BY <1>1, <1>2, PTL DEF Spec

\* Every table, queue and execution always holds values of its type.
THEOREM TypeCorrect == Spec => []TypeOK
<1>1. Inv => TypeOK
  BY DEF Inv
<1> QED BY <1>1, Invariance, PTL

\* The exams and documents rows never contradict the jobs row.
THEOREM RowsAlwaysAgree == Spec => []RowsAgree
<1>1. Inv => RowsAgree
  BY DEF Inv
<1> QED BY <1>1, Invariance, PTL

\* Fencing: whatever executions overlap, only the last claim publishes, and
\* a ready document is read from the chunks of that same claim.
THEOREM Fencing == Spec => []PublishedByLastClaim
<1>1. Inv => PublishedByLastClaim
  BY DEF Inv
<1> QED BY <1>1, Invariance, PTL

\* No two executions ever hold the same claim of a job.
THEOREM OneExecutionPerClaim == Spec => []ClaimsDistinct
<1>1. Inv => ClaimsDistinct
  BY DEF Inv
<1> QED BY <1>1, Invariance, PTL

-----------------------------------------------------------------------------
(* Finished jobs.                                                          *)

\* Only the rows of job j may change.
Only(j) ==
  /\ \A i \in Jobs \ {j} : job'[i] = job[i]
  /\ \A i \in Generation \ {j} : exam'[i] = exam[i]
  /\ \A i \in Ingestion \ {j} : doc'[i] = doc[i]

\* Each transaction writes the rows of one job.
LEMMA OneJobWritten ==
  ASSUME TypeOK, NEW j \in Jobs,
         \/ FailRow(j) \/ RetryRow(j) \/ ClaimRow(j)
         \/ \E g \in Nat : PublishRow(j, g)
         \/ MarkDispatched(j) /\ UNCHANGED <<exam, doc>>
         \/ SetJob(j, "retrying", "retrying") /\ SetExam(j, "retrying") /\ UNCHANGED doc
         \/ Cancel(j) \/ HeartbeatExpires(j)
         \/ \E w \in Workers : j = worker[w].job /\ (Progress(w) \/ Heartbeat(w))
  PROVE  Only(j)
<1>1. /\ job \in [Jobs -> Row] /\ exam \in [Generation -> ExamRow]
      /\ doc \in [Ingestion -> DocRow]
  BY DEF TypeOK
<1> QED BY <1>1 DEF Only, FailRow, RetryRow, ClaimRow, PublishRow, MarkDispatched,
           Cancel, HeartbeatExpires, Progress, Heartbeat, SetJob, SetExam, SetDoc, rows

\* A step changes the rows of one unfinished job at most.
LEMMA OpenJobWritten ==
  ASSUME TypeOK, [Next]_vars
  PROVE  \/ UNCHANGED rows
         \/ \E j \in Jobs : job[j].status \in Open /\ Only(j)
<1> DEFINE Goal == \E j \in Jobs : job[j].status \in Open /\ Only(j)
<1> SUFFICES ASSUME ~UNCHANGED rows PROVE Goal
  OBVIOUS
<1> USE DEF rows
<1>1. ASSUME NEW j \in Jobs, JobStep(j) PROVE Goal
  <2>1. \/ ApiMark(j) \/ ApiFails(j) \/ Cancel(j) \/ SweepMark(j)
        \/ RecoverStale(j) \/ HeartbeatExpires(j)
    BY <1>1 DEF JobStep, ApiEnqueue, CleanupCancelled, SweepList, SweepPublish,
                SweepFails, RequeuePublish
  <2>2. Only(j)
    BY <2>1, OneJobWritten DEF ApiMark, ApiFails, SweepMark, RecoverStale
  <2>3. job[j].status \in Open
    BY <2>1 DEF ApiMark, ApiFails, Cancel, SweepMark, RecoverStale,
                HeartbeatExpires, MarkDispatched, Open
  <2> QED BY <2>2, <2>3
<1>2. ASSUME NEW w \in Workers, WorkerStep(w) PROVE Goal
  <2> DEFINE j == worker[w].job
  <2>1. /\ \/ Claim(w) \/ ClaimReplyLost(w) \/ Progress(w) \/ Heartbeat(w)
           \/ Complete(w) \/ Fail(w) \/ Retry(w) \/ RetryReplyLost(w)
        /\ worker[w].pc # "idle"
    BY <1>2 DEF WorkerStep, Receive, ClaimUnavailable, IndexChunks, CheckCancelled,
                RetryPublish, RetryPublishFails, HandlerUnavailable, WorkerLost,
                TimeLimit, Terminate, Claim, ClaimReplyLost, Progress, Heartbeat,
                Complete, Fail, Retry, RetryReplyLost, Executing
  <2>2. j \in Jobs /\ worker[w].gen \in Nat
    BY <2>1, BusyWorker DEF TypeOK
  <2>3. \/ ClaimRow(j) \/ Progress(w) \/ Heartbeat(w)
        \/ PublishRow(j, worker[w].gen) \/ FailRow(j) \/ RetryRow(j)
    BY <2>1 DEF Claim, ClaimReplyLost, Complete, Fail, Retry, RetryReplyLost
  <2>4. Only(j)
    BY <2>2, <2>3, OneJobWritten
  <2>5. job[j].status \in Open
    BY <2>1 DEF Claim, ClaimReplyLost, Progress, Heartbeat, Complete, Fail, Retry,
                RetryReplyLost, Owns, Fenced, Claimable, Open
  <2> QED BY <2>2, <2>4, <2>5
<1>3. CASE RequeueFails
  BY <1>3 DEF RequeueFails
<1>4. CASE UNCHANGED vars
  BY <1>4 DEF vars
<1> QED BY <1>1, <1>2, <1>3, <1>4 DEF Next

\* A finished job, and the exam or document it published, never change again.
THEOREM FinalStaysFinal == Spec => FinalIsFinal
<1> DEFINE Kept == \A j \in Jobs : job[j].status \in Final =>
                     /\ job'[j] = job[j]
                     /\ j \in Generation => exam'[j] = exam[j]
                     /\ j \in Ingestion => doc'[j] = doc[j]
<1>1. Inv /\ [Next]_vars => [Kept]_vars
  <2> SUFFICES ASSUME Inv, [Next]_vars PROVE Kept
    OBVIOUS
  <2>1. CASE UNCHANGED rows
    BY <2>1 DEF rows
  <2>2. ASSUME NEW j \in Jobs, job[j].status \in Open, Only(j) PROVE Kept
    <3>1. job[j].status \notin Final
      BY <2>2 DEF Open, Final
    <3> QED BY <2>2, <3>1 DEF Only
  <2> QED BY <2>1, <2>2, OpenJobWritten DEF Inv
<1>2. [][Kept]_vars <=> FinalIsFinal
  BY DEF FinalIsFinal
<1> QED BY <1>1, <1>2, Invariance, PTL DEF Spec

-----------------------------------------------------------------------------
(* The abstract job.                                                       *)

\* The mapping of JobPromise's variables.
PhaseOf  == [i \in Jobs |-> Phase(job[i].status)]
RunsOf   == [i \in Jobs |-> job[i].gen]
AuthorOf == [i \in Jobs |-> IF i \in Generation THEN exam[i].author
                                                ELSE doc[i].author]

\* JobPromise's actions under the mapping.
LEMMA AbstractActions ==
  ASSUME NEW j \in Jobs
  PROVE  /\ Promise!Run(j) <=>
              /\ PhaseOf[j] = "waiting"
              /\ PhaseOf' = [PhaseOf EXCEPT ![j] = "running"]
              /\ RunsOf' = [RunsOf EXCEPT ![j] = @ + 1]
              /\ UNCHANGED AuthorOf
         /\ Promise!Release(j) <=>
              /\ PhaseOf[j] = "running"
              /\ PhaseOf' = [PhaseOf EXCEPT ![j] = "waiting"]
              /\ UNCHANGED <<RunsOf, AuthorOf>>
         /\ Promise!Complete(j) <=>
              /\ PhaseOf[j] = "running"
              /\ PhaseOf' = [PhaseOf EXCEPT ![j] = "completed"]
              /\ AuthorOf' = [AuthorOf EXCEPT ![j] = RunsOf[j]]
              /\ UNCHANGED RunsOf
         /\ Promise!GiveUp(j) <=>
              /\ PhaseOf[j] \in {"waiting", "running"}
              /\ \E end \in {"failed", "cancelled"} :
                   PhaseOf' = [PhaseOf EXCEPT ![j] = end]
              /\ UNCHANGED <<RunsOf, AuthorOf>>
         /\ Promise!Next <=> \E i \in Jobs :
              Promise!Run(i) \/ Promise!Release(i) \/ Promise!Complete(i)
                \/ Promise!GiveUp(i)
<1> USE DEF PhaseOf, RunsOf, AuthorOf
<1>1. Promise!Run(j) <=>
        /\ PhaseOf[j] = "waiting"
        /\ PhaseOf' = [PhaseOf EXCEPT ![j] = "running"]
        /\ RunsOf' = [RunsOf EXCEPT ![j] = @ + 1]
        /\ UNCHANGED AuthorOf
  BY Zenon DEF Promise!Run
<1>2. Promise!Release(j) <=>
        /\ PhaseOf[j] = "running"
        /\ PhaseOf' = [PhaseOf EXCEPT ![j] = "waiting"]
        /\ UNCHANGED <<RunsOf, AuthorOf>>
  BY Zenon DEF Promise!Release
<1>3. Promise!Complete(j) <=>
        /\ PhaseOf[j] = "running"
        /\ PhaseOf' = [PhaseOf EXCEPT ![j] = "completed"]
        /\ AuthorOf' = [AuthorOf EXCEPT ![j] = RunsOf[j]]
        /\ UNCHANGED RunsOf
  BY Zenon DEF Promise!Complete
<1>4. Promise!GiveUp(j) <=>
        /\ PhaseOf[j] \in {"waiting", "running"}
        /\ \E end \in {"failed", "cancelled"} :
             PhaseOf' = [PhaseOf EXCEPT ![j] = end]
        /\ UNCHANGED <<RunsOf, AuthorOf>>
  BY Zenon DEF Promise!GiveUp
<1>5. Promise!Next <=> \E i \in Jobs :
        Promise!Run(i) \/ Promise!Release(i) \/ Promise!Complete(i)
          \/ Promise!GiveUp(i)
  BY Zenon DEF Promise!Next
<1> QED BY <1>1, <1>2, <1>3, <1>4, <1>5, Zenon

\* A step that moves no job is a stutter of the abstract job.
LEMMA StaysStutters ==
  ASSUME Stays
  PROVE  UNCHANGED <<PhaseOf, RunsOf, AuthorOf>>
BY DEF Stays, PhaseOf, RunsOf, AuthorOf, Jobs

\* A job that moves shows what it showed before.
LEMMA MovesAbstractly ==
  ASSUME NEW j \in Jobs, NEW to, NEW g, Moves(j, to, g)
  PROVE  /\ PhaseOf' = [PhaseOf EXCEPT ![j] = Phase(to)]
         /\ RunsOf' = [RunsOf EXCEPT ![j] = g]
         /\ UNCHANGED AuthorOf
<1>1. \A i \in Jobs : Phase(job'[i].status) =
                        IF i = j THEN Phase(to) ELSE Phase(job[i].status)
  BY DEF Moves
<1>2. PhaseOf' = [PhaseOf EXCEPT ![j] = Phase(to)]
  BY <1>1 DEF PhaseOf
<1>3. RunsOf' = [RunsOf EXCEPT ![j] = g]
  BY DEF Moves, RunsOf
<1>4. UNCHANGED AuthorOf
  BY DEF Moves, AuthorOf, Jobs
<1> QED BY <1>2, <1>3, <1>4

\* A retry or a recovery releases the abstract job.
LEMMA RetryReleases ==
  ASSUME NEW j \in Jobs, job[j].status = "running",
         Moves(j, "retrying", job[j].gen)
  PROVE  Promise!Next
<1>1. PhaseOf[j] = "running" /\ Phase("retrying") = "waiting"
  BY DEF PhaseOf, Phase, Claimable
<1>2. /\ PhaseOf' = [PhaseOf EXCEPT ![j] = Phase("retrying")]
      /\ RunsOf' = [RunsOf EXCEPT ![j] = job[j].gen]
      /\ UNCHANGED AuthorOf
  BY MovesAbstractly
<1>3. RunsOf' = RunsOf
  BY <1>2 DEF RunsOf
<1>4. Promise!Release(j)
  BY <1>1, <1>2, <1>3, AbstractActions
<1> QED BY <1>4, AbstractActions

\* A failure or a cancellation gives the abstract job up.
LEMMA EndGivesUp ==
  ASSUME NEW j \in Jobs, job[j].status \in Open, NEW end \in {"failed", "cancelled"},
         Moves(j, end, job[j].gen)
  PROVE  Promise!Next
<1>1. PhaseOf[j] \in {"waiting", "running"} /\ Phase(end) = end
  BY DEF PhaseOf, Phase, Claimable, Open
<1>2. /\ PhaseOf' = [PhaseOf EXCEPT ![j] = Phase(end)]
      /\ RunsOf' = [RunsOf EXCEPT ![j] = job[j].gen]
      /\ UNCHANGED AuthorOf
  BY MovesAbstractly
<1>3. RunsOf' = RunsOf
  BY <1>2 DEF RunsOf
<1>4. Promise!GiveUp(j)
  BY <1>1, <1>2, <1>3, AbstractActions
<1> QED BY <1>4, AbstractActions

\* A claim runs the abstract job.
LEMMA ClaimRuns ==
  ASSUME NEW j \in Jobs, job[j].status \in Claimable,
         Moves(j, "running", job[j].gen + 1)
  PROVE  Promise!Next
<1>1. PhaseOf[j] = "waiting" /\ Phase("running") = "running"
  BY DEF PhaseOf, Phase, Claimable
<1>2. /\ PhaseOf' = [PhaseOf EXCEPT ![j] = Phase("running")]
      /\ RunsOf' = [RunsOf EXCEPT ![j] = job[j].gen + 1]
      /\ UNCHANGED AuthorOf
  BY MovesAbstractly
<1>3. RunsOf' = [RunsOf EXCEPT ![j] = RunsOf[j] + 1]
  BY <1>2 DEF RunsOf
<1>4. Promise!Run(j)
  BY <1>1, <1>2, <1>3, AbstractActions
<1> QED BY <1>4, AbstractActions

\* The owner's final transaction completes the abstract job with its last run.
LEMMA PublishCompletes ==
  ASSUME job \in [Jobs -> Row], exam \in [Generation -> ExamRow],
         doc \in [Ingestion -> DocRow], NEW j \in Jobs,
         job[j].status = "running", PublishRow(j, job[j].gen)
  PROVE  Promise!Next
<1>1. \A i \in Jobs : /\ job'[i].status = IF i = j THEN "completed" ELSE job[i].status
                      /\ job'[i].gen = job[i].gen
  BY DEF PublishRow, SetJob, Row
<1>2. \A i \in Jobs : Phase(job'[i].status) =
                        IF i = j THEN "completed" ELSE Phase(job[i].status)
  BY <1>1 DEF Phase, Claimable
<1>3. PhaseOf[j] = "running" /\ PhaseOf' = [PhaseOf EXCEPT ![j] = "completed"]
  BY <1>2 DEF PhaseOf, Phase, Claimable
<1>4. RunsOf' = RunsOf
  BY <1>1 DEF RunsOf
<1>5. AuthorOf' = [AuthorOf EXCEPT ![j] = RunsOf[j]]
  <2>1. \A i \in Generation :
          exam'[i].author = IF i = j THEN job[j].gen ELSE exam[i].author
    BY JobsAssumption DEF PublishRow, ExamRow
  <2>2. \A i \in Ingestion :
          doc'[i].author = IF i = j THEN job[j].gen ELSE doc[i].author
    BY JobsAssumption DEF PublishRow, DocRow
  <2> QED BY <2>1, <2>2 DEF AuthorOf, RunsOf, Jobs
<1>6. Promise!Complete(j)
  BY <1>3, <1>4, <1>5, AbstractActions
<1> QED BY <1>6, AbstractActions

\* Every step is a step of the abstract job or moves no job.
LEMMA PromiseStep ==
  ASSUME Inv, [Next]_vars
  PROVE  Promise!Next \/ Stays
<1>a. /\ job \in [Jobs -> Row] /\ exam \in [Generation -> ExamRow]
      /\ doc \in [Ingestion -> DocRow] /\ WorkersOK /\ RowsAgree
  BY DEF Inv, TypeOK
<1> DEFINE Goal == Promise!Next \/ Stays
<1>1. ASSUME NEW j \in Jobs, JobStep(j) PROVE Goal
  <2>1. CASE UNCHANGED rows
    BY <2>1, RowsStay
  <2>2. CASE MarkDispatched(j) /\ UNCHANGED <<exam, doc>>
    BY <1>a, <2>2, MarkStays
  <2>3. CASE job[j].status = "queued" /\ FailRow(j)
    <3>1. Moves(j, "failed", job[j].gen)
      BY <1>a, <2>3, FailMoves
    <3> QED BY <2>3, <3>1, EndGivesUp DEF Open
  <2>4. CASE Cancel(j)
    <3>1. Moves(j, "cancelled", job[j].gen)
      BY <1>a, <2>4, CancelMoves
    <3> QED BY <2>4, <3>1, EndGivesUp DEF Cancel
  <2>5. CASE RecoverStale(j)
    <3>1. job[j].status = "running"
      BY <2>5 DEF RecoverStale
    <3>2. Moves(j, "retrying", job[j].gen) \/ Moves(j, "failed", job[j].gen)
      BY <1>a, <2>5, FailMoves, RecoverMoves DEF RecoverStale
    <3> QED BY <3>1, <3>2, RetryReleases, EndGivesUp DEF Open
  <2>6. CASE HeartbeatExpires(j)
    BY <1>a, <2>6, HeartbeatStays DEF HeartbeatExpires
  <2> QED BY <1>1, <2>1, <2>2, <2>3, <2>4, <2>5, <2>6
      DEF JobStep, ApiEnqueue, ApiMark, ApiFails, CleanupCancelled, SweepList,
          SweepPublish, SweepMark, SweepFails, RequeuePublish
<1>2. ASSUME NEW w \in Workers, WorkerStep(w) PROVE Goal
  <2> DEFINE j == worker[w].job
  <2>a. worker[w].pc # "idle" => j \in Jobs
    BY <1>a DEF WorkersOK
  <2>b. Owns(w) => /\ job[j].status = "running" /\ job[j].gen = worker[w].gen
                   /\ worker[w].pc # "idle"
    BY DEF Owns, Fenced, Executing
  <2>1. CASE UNCHANGED rows
    BY <2>1, RowsStay
  <2>2. CASE j \in Jobs /\ job[j].status \in Claimable /\ ClaimRow(j)
    <3>1. Moves(j, "running", job[j].gen + 1)
      BY <1>a, <2>2, ClaimMoves
    <3> QED BY <2>2, <3>1, ClaimRuns
  <2>3. CASE Progress(w)
    BY <1>a, <2>3, <2>a, ProgressStays DEF Progress
  <2>4. CASE Heartbeat(w)
    BY <1>a, <2>4, <2>a, HeartbeatStays DEF Heartbeat
  <2>5. CASE Owns(w) /\ PublishRow(j, worker[w].gen)
    BY <1>a, <2>5, <2>a, <2>b, PublishCompletes
  <2>6. CASE Owns(w) /\ FailRow(j)
    <3>1. Moves(j, "failed", job[j].gen)
      BY <1>a, <2>6, <2>a, <2>b, FailMoves
    <3> QED BY <2>6, <2>a, <2>b, <3>1, EndGivesUp DEF Open
  <2>7. CASE Owns(w) /\ RetryRow(j)
    <3>1. Moves(j, "retrying", job[j].gen)
      BY <1>a, <2>7, <2>a, <2>b, RetryMoves
    <3> QED BY <2>7, <2>a, <2>b, <3>1, RetryReleases
  <2>8. \/ UNCHANGED rows
        \/ worker[w].pc # "idle" /\ job[j].status \in Claimable /\ ClaimRow(j)
        \/ Progress(w) \/ Heartbeat(w)
        \/ Owns(w) /\ (PublishRow(j, worker[w].gen) \/ FailRow(j) \/ RetryRow(j))
    BY <1>2 DEF WorkerStep, Receive, ClaimUnavailable, IndexChunks, CheckCancelled,
                RetryPublish, RetryPublishFails, HandlerUnavailable, WorkerLost,
                TimeLimit, Terminate, Claim, ClaimReplyLost, Complete, Fail, Retry,
                RetryReplyLost
  <2> QED BY <2>8, <2>a, <2>1, <2>2, <2>3, <2>4, <2>5, <2>6, <2>7
<1>3. CASE RequeueFails
  BY <1>3, RowsStay DEF RequeueFails
<1>4. CASE UNCHANGED vars
  BY <1>4, RowsStay DEF vars, rows
<1> QED BY <1>1, <1>2, <1>3, <1>4 DEF Next

\* The jobs of this module keep the promise of a background job: each is run
\* some number of times, ends once, and shows the work of its last run or none,
\* for any number of jobs, workers and faults.
THEOREM Refinement == Spec => KeepsPromise
<1>1. Init => Promise!Init
  BY DEF Init, Promise!Init, Phase, Claimable, Jobs
<1>2. Inv /\ [Next]_vars => [Promise!Next]_Promise!vars
  <2> SUFFICES ASSUME Inv, [Next]_vars PROVE [Promise!Next]_Promise!vars
    OBVIOUS
  <2>1. CASE Stays
    BY <2>1, StaysStutters, Zenon DEF Promise!vars, PhaseOf, RunsOf, AuthorOf
  <2> QED BY <2>1, PromiseStep
<1>3. KeepsPromise <=> Promise!Init /\ [][Promise!Next]_Promise!vars
  BY DEF KeepsPromise, Promise!Spec
<1> QED BY <1>1, <1>2, <1>3, Invariance, PTL DEF Spec

-----------------------------------------------------------------------------
(* No waiting job is forgotten: a job that is queued or retrying is always *)
(* carried by a message, an execution, a list of the recovery task, or by  *)
(* the stage "queued" the sweep looks for.                                 *)

\* An execution that will claim job j, or publish its retry.
Handled(j) == \E w \in Workers : /\ worker[w].job = j
                                 /\ worker[w].pc \in {"claiming", "retrying"}

Posted(j) == \E r \in Retries : inbox[j][r] > 0

Sent(j) == Posted(j) \/ Handled(j) \/ requeue[j] > 0

\* The request or the sweep has yet to send job j's first message, and the
\* sweep can still see it: neither of them is past sending.
Unsent(j) ==
  /\ job[j].status = "queued" /\ job[j].stage = "queued"
  /\ api[j] # "mark" /\ sweep[j] # "mark"

\* The inductive form of NeverForgotten.
Delivery == \A j \in Jobs : job[j].status \in Claimable => Sent(j) \/ Unsent(j)

-----------------------------------------------------------------------------
(* What a step does to the carriers of a job.                              *)

\* A step that touches no message keeps every carrier.
LEMMA SentStays ==
  ASSUME UNCHANGED <<inbox, worker, requeue>>, NEW j, Sent(j)
  PROVE  Sent(j)'
BY DEF Sent, Posted, Handled

\* A message published reaches its job, and takes nothing from the others.
LEMMA SendPosts ==
  ASSUME inbox \in [Jobs -> [Retries -> Nat]], NEW j \in Jobs, NEW r \in Retries,
         Send(j, r)
  PROVE  Posted(j)' /\ \A i \in Jobs : Posted(i) => Posted(i)'
<1>1. \A i \in Jobs, q \in Retries :
        inbox'[i][q] = IF i = j /\ q = r THEN inbox[i][q] + 1 ELSE inbox[i][q]
  BY DEF Send
<1>2. \A i \in Jobs, q \in Retries : inbox[i][q] \in Nat
  OBVIOUS
<1> QED BY <1>1, <1>2 DEF Posted

\* An execution past its claim, or before it has a message, carries nothing.
LEMMA HandledStays ==
  ASSUME NEW w \in Workers, worker[w].pc \notin {"claiming", "retrying"},
         \A v \in Workers \ {w} : worker'[v] = worker[v],
         NEW j, Handled(j)
  PROVE  Handled(j)'
BY DEF Handled

\* The end of execution w leaves the other executions alone.
LEMMA OthersStay ==
  ASSUME WorkersOK, NEW w \in Workers, NEW pc, Ack(w) \/ Goto(w, pc)
  PROVE  \A v \in Workers \ {w} : worker'[v] = worker[v]
BY DEF Ack, Goto, WorkersOK

\* What the invariant asks of a step about job j.
Keeps(j) ==
  job'[j].status \in Claimable =>
    \/ Sent(j)'
    \/ /\ job[j].status \in Claimable
       /\ Sent(j) => Sent(j)'
       /\ Unsent(j) => Unsent(j)'

\* A step that keeps every job keeps the invariant.
LEMMA DeliveryKept ==
  ASSUME Delivery, \A j \in Jobs : Keeps(j)
  PROVE  Delivery'
BY DEF Delivery, Keeps

\* A job the step does not touch.
LEMMA SameKeeps ==
  ASSUME NEW j \in Jobs, job'[j] = job[j], api'[j] = api[j],
         sweep'[j] # "mark" \/ sweep'[j] = sweep[j], Sent(j) => Sent(j)'
  PROVE  Keeps(j)
BY DEF Keeps, Unsent

\* A step of execution w, on its own job j.
LEMMA WorkerKeeps ==
  ASSUME NEW w \in Workers, NEW j, worker[w].job = j,
         UNCHANGED <<api, sweep, requeue>>,
         \A i \in Jobs \ {j} : job'[i] = job[i],
         \A i \in Jobs : Posted(i) => Posted(i)',
         \A v \in Workers \ {w} : worker'[v] = worker[v],
         j \in Jobs => Keeps(j)
  PROVE  \A i \in Jobs : Keeps(i)
<1>1. ASSUME NEW i \in Jobs, i # j PROVE Keeps(i)
  <2>1. Handled(i) => Handled(i)'
    BY <1>1 DEF Handled
  <2>2. Sent(i) => Sent(i)'
    BY <2>1 DEF Sent
  <2> QED BY <1>1, <2>2, SameKeeps
<1> QED BY <1>1

-----------------------------------------------------------------------------
(* Every step keeps the invariant, if no lossy fault is possible.          *)

\* The steps of the request, the user and the beat tasks.
LEMMA JobStepDelivers ==
  ASSUME TypeOK, NEW j \in Jobs, JobStep(j)
  PROVE  \A i \in Jobs : Keeps(i)
<1>a. /\ job \in [Jobs -> Row] /\ inbox \in [Jobs -> [Retries -> Nat]]
      /\ api \in [Jobs -> {"enqueue", "mark", "done"}]
      /\ sweep \in [Jobs -> {"idle", "publish", "mark"}]
      /\ requeue \in [Jobs -> Nat] /\ 0 \in Retries
  BY DEF TypeOK, Retries
<1> DEFINE Untouched == \A i \in Jobs \ {j} :
             job'[i] = job[i] /\ api'[i] = api[i] /\ sweep'[i] = sweep[i]
<1>b. ASSUME UNCHANGED <<inbox, worker, requeue>>, Untouched, Keeps(j)
      PROVE  \A i \in Jobs : Keeps(i)
  BY <1>b, SentStays, SameKeeps
<1>c. ASSUME Untouched, \A i \in Jobs : Sent(i) => Sent(i)', Keeps(j)
      PROVE  \A i \in Jobs : Keeps(i)
  BY <1>c, SameKeeps
<1>d. ASSUME Send(j, 0), UNCHANGED worker,
             \A i \in Jobs \ {j} : requeue'[i] = requeue[i]
      PROVE  Sent(j)' /\ \A i \in Jobs : Sent(i) => Sent(i)'
  <2>1. Posted(j)' /\ \A i \in Jobs : Posted(i) => Posted(i)'
    BY <1>a, <1>d, SendPosts
  <2>2. \A i \in Jobs : Handled(i) => Handled(i)'
    BY <1>d DEF Handled
  <2> QED BY <1>d, <2>1, <2>2 DEF Sent
<1>1. CASE ApiEnqueue(j)
  BY <1>a, <1>1, <1>c, <1>d DEF ApiEnqueue, Keeps, rows
<1>2. CASE ApiMark(j)
  <2>1. job'[j].status = job[j].status /\ \A i \in Jobs \ {j} : job'[i] = job[i]
    BY <1>a, <1>2 DEF ApiMark, MarkDispatched, Row
  <2>2. Keeps(j)
    BY <1>2, <2>1, SentStays DEF ApiMark, Keeps, Unsent
  <2> QED BY <1>a, <1>2, <1>b, <2>1, <2>2 DEF ApiMark
<1>3. CASE ApiFails(j)
  <2>1. CASE UNCHANGED rows
    BY <1>a, <1>3, <1>b, <2>1, SentStays DEF ApiFails, Keeps, Unsent, rows
  <2>2. CASE FailRow(j)
    <3>1. Keeps(j)
      BY <1>a, <2>2 DEF FailRow, SetJob, Row, Keeps, Claimable
    <3> QED BY <1>a, <1>3, <1>b, <2>2, <3>1 DEF ApiFails, FailRow, SetJob
  <2> QED BY <1>3, <2>1, <2>2 DEF ApiFails
<1>4. CASE Cancel(j)
  <2>1. Keeps(j)
    BY <1>a, <1>4 DEF Cancel, SetJob, Row, Keeps, Claimable
  <2> QED BY <1>a, <1>4, <1>b, <2>1 DEF Cancel, SetJob
<1>5. CASE CleanupCancelled(j)
  BY <1>5, <1>b, SentStays DEF CleanupCancelled, Keeps, Unsent, rows
<1>6. CASE SweepList(j)
  BY <1>a, <1>6, <1>b, SentStays DEF SweepList, Keeps, Unsent, rows
<1>7. CASE SweepPublish(j)
  BY <1>a, <1>7, <1>c, <1>d DEF SweepPublish, Keeps, rows
<1>8. CASE SweepMark(j)
  <2>1. job'[j].status = job[j].status /\ \A i \in Jobs \ {j} : job'[i] = job[i]
    BY <1>a, <1>8 DEF SweepMark, MarkDispatched, Row
  <2>2. Keeps(j)
    BY <1>8, <2>1, SentStays DEF SweepMark, Keeps, Unsent
  <2> QED BY <1>a, <1>8, <1>b, <2>1, <2>2 DEF SweepMark
<1>9. CASE SweepFails(j)
  BY <1>a, <1>9, <1>b, SentStays DEF SweepFails, Keeps, Unsent, rows
<1>10. CASE RecoverStale(j)
  <2>1. CASE FailRow(j) /\ UNCHANGED requeue
    <3>1. Keeps(j)
      BY <1>a, <2>1 DEF FailRow, SetJob, Row, Keeps, Claimable
    <3> QED BY <1>a, <1>10, <1>b, <2>1, <3>1 DEF RecoverStale, FailRow, SetJob
  <2>2. CASE /\ SetJob(j, "retrying", "retrying")
             /\ requeue' = [requeue EXCEPT ![j] = @ + 1]
    <3>1. requeue'[j] > 0 /\ \A i \in Jobs : requeue[i] > 0 => requeue'[i] > 0
      BY <1>a, <2>2
    <3>2. UNCHANGED <<inbox, worker>>
      BY <1>10 DEF RecoverStale
    <3>3. Sent(j)' /\ \A i \in Jobs : Sent(i) => Sent(i)'
      BY <3>1, <3>2 DEF Sent, Posted, Handled
    <3>4. Untouched
      BY <1>a, <1>10, <2>2 DEF RecoverStale, SetJob
    <3> QED BY <1>c, <3>3, <3>4 DEF Keeps
  <2> QED BY <1>10, <2>1, <2>2 DEF RecoverStale
<1>11. CASE RequeuePublish(j)
  BY <1>a, <1>11, <1>c, <1>d DEF RequeuePublish, Keeps, rows
<1>12. CASE HeartbeatExpires(j)
  <2>1. Keeps(j)
    BY <1>a, <1>12 DEF HeartbeatExpires, Row, Keeps, Claimable
  <2> QED BY <1>a, <1>12, <1>b, <2>1 DEF HeartbeatExpires
<1> QED BY <1>1, <1>2, <1>3, <1>4, <1>5, <1>6, <1>7, <1>8, <1>9, <1>10, <1>11,
           <1>12 DEF JobStep

\* The steps of the executions.  The lossy faults are those that would end an
\* execution with its job waiting and nothing to carry it.
LEMMA WorkerStepDelivers ==
  ASSUME TypeOK, Faults \cap LossyFaults = {}, NEW w \in Workers, WorkerStep(w)
  PROVE  \A i \in Jobs : Keeps(i)
<1> SUFFICES ASSUME NEW j, j = worker[w].job
             PROVE  \A i \in Jobs : Keeps(i)
  OBVIOUS
<1> DEFINE Others == \A v \in Workers \ {w} : worker'[v] = worker[v]
           RowsOfOthers == \A i \in Jobs \ {j} : job'[i] = job[i]
<1>a. /\ job \in [Jobs -> Row] /\ inbox \in [Jobs -> [Retries -> Nat]]
      /\ WorkersOK
  BY DEF TypeOK
<1>b. worker[w].pc # "idle" => j \in Jobs /\ worker[w].retries \in Retries
  BY <1>a, BusyWorker
<1>c. ASSUME UNCHANGED <<api, sweep, requeue, inbox>>, Others, RowsOfOthers,
             worker[w].pc # "idle", Keeps(j)
      PROVE  \A i \in Jobs : Keeps(i)
  <2>1. \A i \in Jobs : Posted(i) => Posted(i)'
    BY <1>c DEF Posted
  <2> QED BY <1>c, <2>1, WorkerKeeps
\* The execution is past its claim, and its row is not made to wait.
<1>d. ASSUME UNCHANGED <<api, sweep, requeue, inbox>>, Others, RowsOfOthers,
             worker[w].pc \in Executing,
             job'[j] = job[j] \/ job'[j].status \notin Claimable
      PROVE  \A i \in Jobs : Keeps(i)
  <2>1. worker[w].pc \notin {"idle", "claiming", "retrying"}
    BY <1>d DEF Executing
  <2>2. Sent(j) => Sent(j)'
    BY <1>d, <2>1, HandledStays DEF Sent, Posted
  <2>3. Keeps(j)
    BY <1>b, <1>d, <2>1, <2>2 DEF Keeps, Unsent
  <2> QED BY <1>c, <1>d, <2>1, <2>3
\* A message of the job is published.
<1>e. ASSUME UNCHANGED <<api, sweep, requeue, rows>>, Others,
             worker[w].pc # "idle", NEW r \in Retries, Send(j, r)
      PROVE  \A i \in Jobs : Keeps(i)
  <2>1. Posted(j)' /\ \A i \in Jobs : Posted(i) => Posted(i)'
    BY <1>a, <1>b, <1>e, SendPosts
  <2>2. Keeps(j)
    BY <2>1 DEF Keeps, Sent
  <2> QED BY <1>e, <2>1, <2>2, WorkerKeeps DEF rows
<1>f. /\ Ack(w) \/ UNCHANGED worker => Others
      /\ \A pc \in {"indexed", "finishing", "retrying"} : Goto(w, pc) => Others
  BY <1>a, OthersStay
<1>g. Owns(w) => job[j].status \notin Claimable
  BY DEF Owns, Fenced, Claimable
<1>h. \A kind \in LossyFaults : ~Fault(kind)
  BY DEF Fault
<1>1. ASSUME NEW i \in Jobs, NEW r \in Retries, Receive(w, i, r)
      PROVE  \A k \in Jobs : Keeps(k)
  <2>1. /\ worker'[w].job = i /\ worker'[w].pc = "claiming"
        /\ worker[w].pc = "idle" /\ Others
    BY <1>a, <1>1 DEF Receive, WorkersOK
  <2>2. \A k \in Jobs : Handled(k) => Handled(k)'
    BY <2>1, HandledStays
  <2>3. Sent(i)'
    BY <2>1 DEF Sent, Handled
  <2>4. \A k \in Jobs \ {i} : Posted(k) => Posted(k)'
    BY <1>a, <1>1 DEF Receive, Posted
  <2>5. \A k \in Jobs : Sent(k) => Sent(k)'
    BY <1>1, <2>2, <2>3, <2>4 DEF Receive, Sent
  <2> QED BY <1>1, <2>5, SameKeeps DEF Receive, rows
<1>2. CASE Claim(w) \/ ClaimReplyLost(w)
  <2>1. CASE job[j].status \in Claimable /\ ClaimRow(j)
    <3>1. job'[j].status \notin Claimable /\ RowsOfOthers
      BY <1>a, <1>b, <1>2, <2>1 DEF ClaimRow, Claim, ClaimReplyLost, Claimable
    <3>2. Others
      BY <1>a, <1>2, <1>f DEF Claim, ClaimReplyLost, WorkersOK
    <3>3. Keeps(j)
      BY <3>1 DEF Keeps
    <3> QED BY <1>2, <1>c, <3>1, <3>2, <3>3 DEF Claim, ClaimReplyLost
  <2>2. CASE job[j].status \notin Claimable /\ UNCHANGED rows
    <3>1. Keeps(j)
      BY <2>2 DEF Keeps, rows
    <3> QED BY <1>2, <1>c, <1>f, <2>2, <3>1 DEF Claim, ClaimReplyLost, rows
  <2> QED BY <1>2, <2>1, <2>2 DEF Claim, ClaimReplyLost
<1>3. CASE Progress(w) \/ Heartbeat(w)
  <2>1. worker[w].pc \in Executing
    BY <1>3 DEF Progress, Heartbeat, Executing
  <2>2. CASE Owns(w)
    <3>1. RowsOfOthers /\ job'[j].status = job[j].status
      BY <1>a, <1>3, <2>2 DEF Progress, Heartbeat, Row
    <3> QED BY <1>3, <1>d, <1>f, <1>g, <2>1, <2>2, <3>1 DEF Progress, Heartbeat
  <2>3. CASE ~Owns(w)
    BY <1>3, <1>d, <1>f, <2>1, <2>3 DEF Progress, Heartbeat, rows
  <2> QED BY <2>2, <2>3
<1>4. CASE IndexChunks(w) \/ CheckCancelled(w)
  <2>1. worker[w].pc \in Executing
    BY <1>4 DEF IndexChunks, CheckCancelled, Executing
  <2>2. Others
    BY <1>4, <1>f DEF IndexChunks, CheckCancelled
  <2>3. RowsOfOthers /\ job'[j] = job[j] /\ UNCHANGED <<api, sweep, requeue, inbox>>
    BY <1>4 DEF IndexChunks, CheckCancelled, rows
  <2> QED BY <1>d, <2>1, <2>2, <2>3
<1>5. CASE Complete(w) \/ Fail(w)
  <2>1. worker[w].pc \in Executing
    BY <1>5 DEF Complete, Fail, Executing
  <2>2. CASE Owns(w)
    <3>1. RowsOfOthers /\ job'[j].status \notin Claimable
      BY <1>a, <1>b, <1>5, <2>1, <2>2
      DEF Complete, Fail, PublishRow, FailRow, SetJob, Row, Claimable, Executing
    <3> QED BY <1>5, <1>d, <1>f, <2>1, <3>1 DEF Complete, Fail
  <2>3. CASE ~Owns(w)
    BY <1>5, <1>d, <1>f, <2>1, <2>3 DEF Complete, Fail, rows
  <2> QED BY <2>2, <2>3
<1>6. CASE Retry(w)
  <2>1. CASE Owns(w)
    <3>1. worker'[w].pc = "retrying" /\ worker'[w].job = j
      BY <1>a, <1>6, <2>1 DEF Retry, Goto, WorkersOK, Execution
    <3>2. Keeps(j)
      BY <3>1 DEF Keeps, Sent, Handled
    <3>3. RowsOfOthers /\ worker[w].pc # "idle"
      BY <1>a, <1>6, <2>1 DEF Retry, RetryRow, Executing
    <3>4. Others
      BY <1>6, <1>f, <2>1 DEF Retry
    <3> QED BY <1>6, <1>c, <3>2, <3>3, <3>4 DEF Retry
  <2>2. CASE ~Owns(w)
    BY <1>6, <1>d, <1>f, <2>2 DEF Retry, rows
  <2> QED BY <2>1, <2>2
<1>7. CASE RetryPublish(w)
  <2>1. worker[w].retries + 1 \in Retries
    BY <1>a, <1>7, BusyWorker DEF RetryPublish
  <2> QED BY <1>7, <1>e, <1>f, <2>1 DEF RetryPublish
<1>8. CASE WorkerLost(w)
  BY <1>8, <1>b, <1>e, <1>f DEF WorkerLost
<1>9. CASE HandlerUnavailable(w) \/ TimeLimit(w)
  BY <1>9, <1>d, <1>f DEF HandlerUnavailable, TimeLimit, rows
<1>10. CASE Terminate(w)
  <2>1. Keeps(j)
    BY <1>10 DEF Terminate, Keeps, Claimable, rows
  <2> QED BY <1>10, <1>c, <1>f, <2>1 DEF Terminate, rows
<1>11. ~ClaimUnavailable(w) /\ ~RetryPublishFails(w) /\ ~RetryReplyLost(w)
  BY <1>h DEF ClaimUnavailable, RetryPublishFails, RetryReplyLost, LossyFaults
<1> QED BY <1>1, <1>2, <1>3, <1>4, <1>5, <1>6, <1>7, <1>8, <1>9, <1>10, <1>11
    DEF WorkerStep

\* Every step keeps the invariant unless a lossy fault is possible.
LEMMA DeliveryStep ==
  ASSUME TypeOK, Faults \cap LossyFaults = {}, Delivery, [Next]_vars
  PROVE  Delivery'
<1>1. CASE RequeueFails
  BY <1>1 DEF RequeueFails, Fault, LossyFaults
<1>2. CASE UNCHANGED vars
  BY <1>2, SentStays, SameKeeps, DeliveryKept DEF vars
<1> QED BY <1>1, <1>2, JobStepDelivers, WorkerStepDelivers, DeliveryKept DEF Next

\* Unless a fault can lose its last message for good, a job that is queued or
\* retrying is carried by something, however many jobs and workers there are.
THEOREM NothingForgotten == Spec => []NeverForgotten
<1>1. CASE Faults \cap LossyFaults = {}
  <2>1. Init => Delivery
    BY DEF Init, Delivery, Unsent
  <2>2. TypeOK /\ Delivery /\ [Next]_vars => Delivery'
    BY <1>1, DeliveryStep
  <2>3. Delivery => NeverForgotten
    BY DEF Delivery, Sent, Posted, Handled, Unsent, NeverForgotten, Carried
  <2> QED BY <2>1, <2>2, <2>3, TypeCorrect, PTL DEF Spec
<1>2. CASE Faults \cap LossyFaults # {}
  <2>1. NeverForgotten
    BY <1>2 DEF NeverForgotten
  <2> QED BY <2>1, PTL
<1> QED BY <1>1, <1>2

-----------------------------------------------------------------------------
(* No job is claimed without end: what carries it and its retries, counted. *)

\* Execution w has message n of the job, before its claim or for its retry.
Carries(w, j, n) ==
  /\ worker[w].job = j
  /\ \/ worker[w].pc = "claiming" /\ worker[w].retries = n
     \/ worker[w].pc = "retrying" /\ worker[w].retries + 1 = n
Carriers(j, n) == {w \in Workers : Carries(w, j, n)}

\* The messages with retry count n.
Messages(j, n) == inbox[j][n] + Cardinality(Carriers(j, n))

\* The messages that are yet to be sent with no retry: by the request, by the sweep, which
\* has listed the job or still may, and by the recovery.
Due(j) ==
  (IF api[j] = "enqueue" THEN 1 ELSE 0)
  + (IF \/ sweep[j] = "publish"
        \/ sweep[j] = "idle" /\ job[j].status = "queued" /\ job[j].stage = "queued"
     THEN 1 ELSE 0)
  + requeue[j]

Owned(j, n) == \E w \in Workers : worker[w].job = j /\ worker[w].retries = n /\ Owns(w)

\* The retries that Celery would still grant: to an ingestion 2 a message, to a
\* generation 1.
Granted(j) ==
  IF j \in Ingestion
  THEN 2 * (Due(j) + Messages(j, 0)) + Messages(j, 1)
       + (IF Owned(j, 0) THEN 2 ELSE IF Owned(j, 1) THEN 1 ELSE 0)
  ELSE Due(j) + Messages(j, 0) + (IF Owned(j, 0) THEN 1 ELSE 0)

\* Each fault brings at most one message, and the claim that runs stands for the message it
\* was made with: so a claim that recovery takes away leaves no more messages than before.
FewMessages(j) ==
  Due(j) + Messages(j, 0) + Messages(j, 1) + Messages(j, 2)
  + (IF job[j].status = "running" THEN 1 ELSE 0) <= 2 + faults

\* The claims made, the one the job waits for, and one for each retry still granted.
FewClaims(j) ==
  job[j].gen + (IF job[j].status \in Claimable THEN 1 ELSE 0) + Granted(j)
    <= IF j \in Ingestion THEN 7 + 2 * faults ELSE 4 + faults

Counted(j) ==
  /\ \A n \in Retries : IsFiniteSet(Carriers(j, n))
  /\ job[j].attempt = job[j].gen
  /\ FewMessages(j) /\ FewClaims(j)

Counts == \A j \in Jobs : Counted(j)

\* What the numbers of a job are.
LEMMA Numbers ==
  ASSUME TypeOK, NEW j \in Jobs, Counted(j)
  PROVE  /\ Due(j) \in Nat /\ requeue[j] \in Nat /\ requeue[j] <= Due(j)
         /\ job[j].gen \in Nat /\ faults \in Nat
         /\ \A n \in Retries : /\ Messages(j, n) \in Nat /\ Cardinality(Carriers(j, n)) \in Nat
                               /\ inbox[j][n] \in Nat
  <1>1. \A n \in Retries : Cardinality(Carriers(j, n)) \in Nat
    BY FS_CardinalityType DEF Counted
  <1>2. inbox[j] \in [Retries -> Nat] /\ requeue[j] \in Nat /\ job[j] \in Row /\ faults \in Nat
    BY DEF TypeOK
  <1>3. job[j].gen \in Nat /\ \A n \in Retries : inbox[j][n] \in Nat
    BY <1>2 DEF Row
  <1> QED BY <1>1, <1>2, <1>3 DEF Due, Messages

\* Steps that give no execution a claim of job j.
LEMMA OwnedStays ==
  ASSUME NEW j,
         job'[j].status = "running" => job[j].status = "running" /\ job'[j].gen = job[j].gen,
         \A w \in Workers : worker'[w].pc \in Executing /\ worker'[w].job = j =>
           /\ worker[w].pc \in Executing /\ worker[w].job = j
           /\ worker'[w].gen = worker[w].gen /\ worker'[w].retries = worker[w].retries
  PROVE  \A n : Owned(j, n)' => Owned(j, n)
  BY DEF Owned, Owns, Fenced

\* The retries still granted, as a number; they are fewer when fewer executions own the job.
LEMMA GrantedNumber ==
  ASSUME NEW j, Due(j) \in Nat, Messages(j, 0) \in Nat, Messages(j, 1) \in Nat
  PROVE  /\ Granted(j) \in Nat
         /\ j \in Ingestion => Granted(j) <= 2 * (Due(j) + Messages(j, 0)) + Messages(j, 1) + 2
         /\ j \notin Ingestion => Granted(j) <= Due(j) + Messages(j, 0) + 1
  BY DEF Granted

\* A step that sends no more than it takes away, and leaves the claims alone or ends one.
LEMMA FewerCounted ==
  ASSUME TypeOK, TypeOK', NEW j \in Jobs, Counted(j), \A n \in Retries : IsFiniteSet(Carriers(j, n)'),
         job'[j].gen = job[j].gen, job'[j].attempt = job[j].attempt,
         job'[j].status \in {"running"} \cup Claimable => job'[j].status = job[j].status,
         \A n : Owned(j, n)' => Owned(j, n),
         NEW extra \in {0, 1}, faults + extra <= faults',
         Due(j)' + Messages(j, 0)' <= Due(j) + Messages(j, 0) + extra,
         Due(j)' + Messages(j, 0)' + Messages(j, 1)' <= Due(j) + Messages(j, 0) + Messages(j, 1) + extra,
         Due(j)' + Messages(j, 0)' + Messages(j, 1)' + Messages(j, 2)'
           <= Due(j) + Messages(j, 0) + Messages(j, 1) + Messages(j, 2) + extra
  PROVE  Counted(j)'
  <1>a. 0 \in Retries /\ 1 \in Retries /\ 2 \in Retries
    BY DEF Retries
  <1>1. /\ Due(j) \in Nat /\ Messages(j, 0) \in Nat /\ Messages(j, 1) \in Nat /\ Messages(j, 2) \in Nat
        /\ faults \in Nat /\ job[j].gen \in Nat
    BY <1>a, Numbers
  <1>2. /\ Due(j)' \in Int /\ Messages(j, 0)' \in Int /\ Messages(j, 1)' \in Int
        /\ Messages(j, 2)' \in Int /\ faults' \in Nat
    <2>1. \A n \in Retries : Cardinality(Carriers(j, n)') \in Nat
      BY FS_CardinalityType
    <2>2. inbox'[j] \in [Retries -> Nat] /\ requeue'[j] \in Nat /\ faults' \in Nat
      BY DEF TypeOK
    <2> QED BY <1>a, <2>1, <2>2 DEF Due, Messages
  <1>3. FewMessages(j)'
    <2> DEFINE r == IF job[j].status = "running" THEN 1 ELSE 0
               q == IF job'[j].status = "running" THEN 1 ELSE 0
    <2>1. r \in {0, 1} /\ q \in {0, 1} /\ q <= r
      OBVIOUS
    <2>2. Due(j) + Messages(j, 0) + Messages(j, 1) + Messages(j, 2) + r <= 2 + faults
      BY DEF Counted, FewMessages
    <2> HIDE DEF r, q
    <2>3. Due(j)' + Messages(j, 0)' + Messages(j, 1)' + Messages(j, 2)' + q <= 2 + faults'
      BY <1>1, <1>2, <2>1, <2>2
    <2> QED BY <2>3 DEF FewMessages, q
  <1>4. FewClaims(j)'
    <2> DEFINE c == IF job[j].status \in Claimable THEN 1 ELSE 0
               e == IF job'[j].status \in Claimable THEN 1 ELSE 0
               o == IF Owned(j, 0) THEN 2 ELSE IF Owned(j, 1) THEN 1 ELSE 0
               p == IF Owned(j, 0)' THEN 2 ELSE IF Owned(j, 1)' THEN 1 ELSE 0
               a == IF Owned(j, 0) THEN 1 ELSE 0
               b == IF Owned(j, 0)' THEN 1 ELSE 0
    <2>1. /\ c \in {0, 1} /\ e \in {0, 1} /\ e <= c /\ o \in 0..2 /\ p \in 0..2 /\ p <= o
          /\ a \in {0, 1} /\ b \in {0, 1} /\ b <= a
      BY DEF Claimable
    <2>2. CASE j \in Ingestion
      <3>1. job[j].gen + c + (2 * (Due(j) + Messages(j, 0)) + Messages(j, 1) + o) <= 7 + 2 * faults
        BY <2>2 DEF Counted, FewClaims, Granted
      <3> HIDE DEF c, e, o, p
      <3>2. job'[j].gen + e + (2 * (Due(j)' + Messages(j, 0)') + Messages(j, 1)' + p) <= 7 + 2 * faults'
        BY <1>1, <1>2, <2>1, <3>1
      <3> QED BY <2>2, <3>2 DEF FewClaims, Granted, e, p
    <2>3. CASE j \notin Ingestion
      <3>1. job[j].gen + c + (Due(j) + Messages(j, 0) + a) <= 4 + faults
        BY <2>3 DEF Counted, FewClaims, Granted
      <3> HIDE DEF c, e, a, b
      <3>2. job'[j].gen + e + (Due(j)' + Messages(j, 0)' + b) <= 4 + faults'
        BY <1>1, <1>2, <2>1, <3>1
      <3> QED BY <2>3, <3>2 DEF FewClaims, Granted, e, b
    <2> QED BY <2>2, <2>3
  <1> QED BY <1>3, <1>4 DEF Counted

\* A job the step does not concern.
LEMMA BystanderCounted ==
  ASSUME TypeOK, TypeOK', NEW i \in Jobs, Counted(i),
         \A n \in Retries : Carriers(i, n)' = Carriers(i, n), \A n : Owned(i, n)' => Owned(i, n),
         job'[i] = job[i], inbox'[i] = inbox[i], api'[i] = api[i], sweep'[i] = sweep[i],
         requeue'[i] <= requeue[i], faults <= faults'
  PROVE  Counted(i)'
  <1>a. 0 \in Retries /\ 1 \in Retries /\ 2 \in Retries
    BY DEF Retries
  <1>1. \A n \in Retries : Messages(i, n)' = Messages(i, n) /\ Messages(i, n) \in Nat
    BY Numbers DEF Messages
  <1>2. Due(i)' <= Due(i) /\ Due(i) \in Nat /\ Due(i)' \in Int /\ faults \in Nat /\ faults' \in Nat
    <2>1. requeue[i] \in Nat /\ requeue'[i] \in Nat /\ faults \in Nat /\ faults' \in Nat
      BY DEF TypeOK
    <2> QED BY <2>1 DEF Due
  <1>3. \A n \in Retries : IsFiniteSet(Carriers(i, n)')
    BY DEF Counted
  <1>4. /\ faults + 0 <= faults' /\ Due(i)' + Messages(i, 0)' <= Due(i) + Messages(i, 0) + 0
        /\ Due(i)' + Messages(i, 0)' + Messages(i, 1)' <= Due(i) + Messages(i, 0) + Messages(i, 1) + 0
        /\ Due(i)' + Messages(i, 0)' + Messages(i, 1)' + Messages(i, 2)'
             <= Due(i) + Messages(i, 0) + Messages(i, 1) + Messages(i, 2) + 0
    BY <1>a, <1>1, <1>2
  <1> QED BY <1>3, <1>4, FewerCounted

\* A message of the job is published that was due before.
LEMMA SentCounted ==
  ASSUME TypeOK, TypeOK', NEW j \in Jobs, Counted(j), UNCHANGED <<job, worker, faults>>, Send(j, 0),
         Due(j)' + 1 <= Due(j)
  PROVE  Counted(j)'
  <1>a. 0 \in Retries /\ 1 \in Retries /\ 2 \in Retries
    BY DEF Retries
  <1>1. \A n \in Retries : Carriers(j, n)' = Carriers(j, n) /\ IsFiniteSet(Carriers(j, n)')
    BY DEF Carriers, Carries, Counted
  <1>2. \A n \in Retries : inbox'[j][n] = IF n = 0 THEN inbox[j][n] + 1 ELSE inbox[j][n]
    BY <1>a DEF Send, TypeOK
  <1>3. \A n : Owned(j, n)' => Owned(j, n)
    BY DEF Owned, Owns, Fenced
  <1>4. /\ Due(j) \in Nat /\ faults \in Nat
        /\ \A n \in Retries : Cardinality(Carriers(j, n)) \in Nat /\ inbox[j][n] \in Nat
    BY Numbers
  <1>5. /\ Messages(j, 0)' = Messages(j, 0) + 1 /\ Messages(j, 1)' = Messages(j, 1)
        /\ Messages(j, 2)' = Messages(j, 2)
    <2>1. \A n \in Retries : Messages(j, n)' = inbox'[j][n] + Cardinality(Carriers(j, n))
      BY <1>1 DEF Messages
    <2>2. \A n \in Retries : Messages(j, n) = inbox[j][n] + Cardinality(Carriers(j, n))
      BY DEF Messages
    <2>3. \A n \in Retries : Messages(j, n)' = IF n = 0 THEN Messages(j, n) + 1 ELSE Messages(j, n)
      BY <1>2, <1>4, <2>1, <2>2
    <2> QED BY <1>a, <2>3
  <1>6. Due(j)' \in Int
    <2>1. requeue'[j] \in Nat
      BY DEF TypeOK
    <2> QED BY <2>1 DEF Due
  <1>7. /\ faults + 0 <= faults' /\ Due(j)' + Messages(j, 0)' <= Due(j) + Messages(j, 0) + 0
        /\ Due(j)' + Messages(j, 0)' + Messages(j, 1)' <= Due(j) + Messages(j, 0) + Messages(j, 1) + 0
        /\ Due(j)' + Messages(j, 0)' + Messages(j, 1)' + Messages(j, 2)'
             <= Due(j) + Messages(j, 0) + Messages(j, 1) + Messages(j, 2) + 0
    <2>1. Messages(j, 0) \in Nat /\ Messages(j, 1) \in Nat /\ Messages(j, 2) \in Nat
      BY <1>a, <1>4 DEF Messages
    <2> QED BY <1>4, <1>5, <1>6, <2>1
  <1> QED BY <1>1, <1>3, <1>7, FewerCounted

\* No message is published, and what is due may grow by what a fault is charged for.
LEMMA QuietCounted ==
  ASSUME TypeOK, TypeOK', NEW j \in Jobs, Counted(j), UNCHANGED <<inbox, worker>>,
         job'[j].gen = job[j].gen, job'[j].attempt = job[j].attempt,
         job'[j].status \in {"running"} \cup Claimable => job'[j].status = job[j].status,
         NEW extra \in {0, 1}, faults + extra <= faults', Due(j)' <= Due(j) + extra
  PROVE  Counted(j)'
  <1>a. 0 \in Retries /\ 1 \in Retries /\ 2 \in Retries
    BY DEF Retries
  <1>1. \A n \in Retries : Carriers(j, n)' = Carriers(j, n) /\ IsFiniteSet(Carriers(j, n)')
    BY DEF Carriers, Carries, Counted
  <1>2. \A n : Owned(j, n)' => Owned(j, n)
    BY OwnedStays
  <1>3. \A n \in Retries : Messages(j, n)' = Messages(j, n) /\ Messages(j, n) \in Nat
    BY <1>1, Numbers DEF Messages
  <1>4. Due(j) \in Nat /\ Due(j)' \in Int
    <2>1. requeue'[j] \in Nat
      BY DEF TypeOK
    <2> QED BY <2>1, Numbers DEF Due
  <1>5. /\ Due(j)' + Messages(j, 0)' <= Due(j) + Messages(j, 0) + extra
        /\ Due(j)' + Messages(j, 0)' + Messages(j, 1)' <= Due(j) + Messages(j, 0) + Messages(j, 1) + extra
        /\ Due(j)' + Messages(j, 0)' + Messages(j, 1)' + Messages(j, 2)'
             <= Due(j) + Messages(j, 0) + Messages(j, 1) + Messages(j, 2) + extra
    BY <1>a, <1>3, <1>4
  <1> QED BY <1>1, <1>2, <1>5, FewerCounted

\* A job that is recovered: the claim that ran gives way to the message it was made with.
LEMMA RecoveredCounted ==
  ASSUME TypeOK, TypeOK', NEW j \in Jobs, Counted(j), RecoverStale(j),
         job[j].attempt < MaxAttempts(j)
  PROVE  Counted(j)'
  <1>a. 0 \in Retries /\ 1 \in Retries /\ 2 \in Retries
    BY DEF Retries
  <1>b. job[j].status = "running" /\ UNCHANGED <<inbox, worker, api, sweep, faults>>
    BY DEF RecoverStale
  <1>1. /\ job'[j].status = "retrying" /\ job'[j].gen = job[j].gen /\ job'[j].attempt = job[j].attempt
        /\ requeue'[j] = requeue[j] + 1
    BY DEF RecoverStale, SetJob, TypeOK, Row
  <1>2. \A n \in Retries : Carriers(j, n)' = Carriers(j, n) /\ IsFiniteSet(Carriers(j, n)')
    BY <1>b DEF Carriers, Carries, Counted
  <1>3. /\ Due(j) \in Nat /\ faults \in Nat /\ job[j].gen \in Nat
        /\ \A n \in Retries : Messages(j, n)' = Messages(j, n) /\ Messages(j, n) \in Nat
    BY <1>b, <1>2, Numbers DEF Messages
  <1>4. Due(j)' = Due(j) + 1
    <2>1. requeue[j] \in Nat
      BY DEF TypeOK
    <2> QED BY <1>b, <1>1, <2>1 DEF Due
  <1>5. \A n : ~Owned(j, n)'
    BY <1>1 DEF Owned, Owns, Fenced
  <1>6. Due(j) + Messages(j, 0) + Messages(j, 1) + Messages(j, 2) + 1 <= 2 + faults
    BY <1>b DEF Counted, FewMessages
  <1>7. FewMessages(j)'
    <2>1. Due(j)' + Messages(j, 0)' + Messages(j, 1)' + Messages(j, 2)' + 0 <= 2 + faults'
      BY <1>a, <1>b, <1>3, <1>4, <1>6
    <2> QED BY <1>1, <2>1 DEF FewMessages
  <1>8. FewClaims(j)'
    <2>1. CASE j \in Ingestion
      <3>1. job[j].gen <= 2
        BY <1>3, <2>1 DEF Counted, MaxAttempts
      <3>2. job'[j].gen + 1 + (2 * (Due(j)' + Messages(j, 0)') + Messages(j, 1)' + 0) <= 7 + 2 * faults'
        BY <1>a, <1>b, <1>1, <1>3, <1>4, <1>6, <3>1
      <3> QED BY <1>1, <1>5, <2>1, <3>2 DEF FewClaims, Granted, Claimable
    <2>2. CASE j \notin Ingestion
      <3>1. job[j].gen <= 1
        BY <1>3, <2>2 DEF Counted, MaxAttempts
      <3>2. job'[j].gen + 1 + (Due(j)' + Messages(j, 0)' + 0) <= 4 + faults'
        BY <1>a, <1>b, <1>1, <1>3, <1>4, <1>6, <3>1
      <3> QED BY <1>1, <1>5, <2>2, <3>2 DEF FewClaims, Granted, Claimable
    <2> QED BY <2>1, <2>2
  <1> QED BY <1>1, <1>2, <1>7, <1>8 DEF Counted

\* The steps of the request, the user and the beat tasks.
LEMMA JobStepCounts ==
  ASSUME TypeOK, TypeOK', Counts, NEW j \in Jobs, JobStep(j)
  PROVE  Counts'
  <1>a. /\ job \in [Jobs -> Row] /\ inbox \in [Jobs -> [Retries -> Nat]]
        /\ api \in [Jobs -> {"enqueue", "mark", "done"}]
        /\ sweep \in [Jobs -> {"idle", "publish", "mark"}]
        /\ requeue \in [Jobs -> Nat] /\ 0 \in Retries /\ faults \in Nat /\ Counted(j)
        /\ requeue[j] \in Nat
    BY DEF TypeOK, Retries, Counts
  <1>b. UNCHANGED worker
    BY DEF JobStep, ApiEnqueue, ApiMark, ApiFails, Cancel, CleanupCancelled, SweepList, SweepPublish,
           SweepMark, SweepFails, RecoverStale, RequeuePublish, HeartbeatExpires
  <1> DEFINE Apart == /\ faults <= faults'
                      /\ \A i \in Jobs \ {j} :
                           /\ job'[i] = job[i] /\ inbox'[i] = inbox[i] /\ api'[i] = api[i]
                           /\ sweep'[i] = sweep[i] /\ requeue'[i] <= requeue[i]
  <1>c. ASSUME Apart, Counted(j)' PROVE Counts'
    <2>1. ASSUME NEW i \in Jobs, i # j PROVE Counted(i)'
      <3>1. \A n : Carriers(i, n)' = Carriers(i, n)
        BY <1>b DEF Carriers, Carries
      <3>2. \A n : Owned(i, n)' => Owned(i, n)
        BY <1>b, <1>c, <2>1 DEF Owned, Owns, Fenced
      <3> QED BY <1>c, <2>1, <3>1, <3>2, BystanderCounted DEF Counts
    <2> QED BY <1>c, <2>1 DEF Counts
  <1>d. \A i \in Jobs : requeue[i] <= requeue[i] /\ faults <= faults
    BY DEF TypeOK
  <1>e. \A i \in Jobs \ {j} : Send(j, 0) => inbox'[i] = inbox[i]
    BY <1>a DEF Send
  <1> HIDE DEF Apart
\* The step changes the job's row, or what is due, and sends nothing.
  <1>f. ASSUME UNCHANGED <<inbox, faults>>, Apart, Due(j)' <= Due(j),
               job'[j].gen = job[j].gen, job'[j].attempt = job[j].attempt,
               job'[j].status \in {"running"} \cup Claimable => job'[j].status = job[j].status
        PROVE  Counts'
    <2>1. faults + 0 <= faults' /\ Due(j)' <= Due(j) + 0
      <3>1. Due(j) \in Nat
        BY <1>a, Numbers
      <3>2. Due(j)' \in Int
        BY DEF Due, TypeOK
      <3> QED BY <1>a, <1>f, <3>1, <3>2
    <2>2. Counted(j)'
      BY <1>a, <1>b, <1>f, <2>1, QuietCounted
    <2> QED BY <1>c, <1>f, <2>2
  <1>1. CASE ApiEnqueue(j)
    <2>1. Due(j)' + 1 <= Due(j)
      BY <1>a, <1>1 DEF ApiEnqueue, Due, rows
    <2>2. Apart
      BY <1>a, <1>d, <1>e, <1>1 DEF ApiEnqueue, Apart, rows
    <2>3. Counted(j)'
      BY <1>a, <1>1, <2>1, SentCounted DEF ApiEnqueue, rows
    <2> QED BY <1>c, <2>2, <2>3
  <1>2. CASE ApiMark(j)
    <2>1. Due(j)' <= Due(j)
      BY <1>a, <1>2 DEF ApiMark, MarkDispatched, Due, Row
    <2>2. Apart
      BY <1>a, <1>d, <1>2 DEF ApiMark, MarkDispatched, Apart
    <2>3. /\ job'[j].gen = job[j].gen /\ job'[j].attempt = job[j].attempt /\ job'[j].status = job[j].status
      BY <1>a, <1>2 DEF ApiMark, MarkDispatched, Row
    <2> QED BY <1>2, <1>f, <2>1, <2>2, <2>3 DEF ApiMark
  <1>3. CASE ApiFails(j)
    <2>1. job' = job \/ FailRow(j)
      BY <1>3 DEF ApiFails, rows
    <2>2. /\ job'[j].gen = job[j].gen /\ job'[j].attempt = job[j].attempt
          /\ job'[j].status \in {"running"} \cup Claimable => job'[j] = job[j]
          /\ \A i \in Jobs \ {j} : job'[i] = job[i]
      BY <1>a, <2>1 DEF FailRow, SetJob, Row, Claimable
    <2>3. Apart /\ faults + 1 <= faults' /\ Due(j)' <= Due(j) + 1
      <3>1. faults' = faults + 1 /\ UNCHANGED <<inbox, sweep, requeue>>
        BY <1>3 DEF ApiFails, Fault
      <3>2. api'[j] = "done" /\ \A i \in Jobs \ {j} : api'[i] = api[i]
        BY <1>a, <1>3 DEF ApiFails
      <3>3. Due(j)' <= Due(j) + 1
        BY <1>a, <3>1, <3>2 DEF Due
      <3> QED BY <1>a, <1>d, <2>2, <3>1, <3>2, <3>3 DEF Apart
    <2>4. Counted(j)'
      BY <1>a, <1>b, <1>3, <2>2, <2>3, QuietCounted DEF ApiFails
    <2> QED BY <1>c, <2>3, <2>4
  <1>4. CASE Cancel(j)
    <2>1. Due(j)' <= Due(j) /\ Apart
      BY <1>a, <1>d, <1>4 DEF Cancel, SetJob, Due, Row, Apart
    <2>2. job'[j].gen = job[j].gen /\ job'[j].attempt = job[j].attempt /\ job'[j].status = "cancelled"
      BY <1>a, <1>4 DEF Cancel, SetJob, Row
    <2> QED BY <1>4, <1>f, <2>1, <2>2 DEF Cancel, Claimable
  <1>5. CASE CleanupCancelled(j)
    <2>1. Due(j)' <= Due(j) /\ Apart
      BY <1>a, <1>d, <1>5 DEF CleanupCancelled, rows, Due, Apart
    <2> QED BY <1>5, <1>f, <2>1 DEF CleanupCancelled, rows
  <1>6. CASE SweepList(j)
    <2>1. Due(j)' <= Due(j) /\ Apart
      BY <1>a, <1>d, <1>6 DEF SweepList, rows, Due, Apart
    <2> QED BY <1>6, <1>f, <2>1 DEF SweepList, rows
  <1>7. CASE SweepPublish(j)
    <2>1. Due(j)' + 1 <= Due(j)
      BY <1>a, <1>7 DEF SweepPublish, Due, rows
    <2>2. Apart
      BY <1>a, <1>d, <1>e, <1>7 DEF SweepPublish, Apart, rows
    <2>3. Counted(j)'
      BY <1>a, <1>7, <2>1, SentCounted DEF SweepPublish, rows
    <2> QED BY <1>c, <2>2, <2>3
  <1>8. CASE SweepMark(j)
    <2>1. /\ job'[j].gen = job[j].gen /\ job'[j].attempt = job[j].attempt /\ job'[j].status = job[j].status
          /\ ~(job'[j].status = "queued" /\ job'[j].stage = "queued")
      BY <1>a, <1>8 DEF SweepMark, MarkDispatched, Row
    <2>2. Due(j)' <= Due(j)
      BY <1>a, <1>8, <2>1 DEF SweepMark, Due
    <2>3. Apart
      BY <1>a, <1>d, <1>8 DEF SweepMark, MarkDispatched, Apart
    <2> QED BY <1>8, <1>f, <2>1, <2>2, <2>3 DEF SweepMark
  <1>9. CASE SweepFails(j)
    <2>1. faults' = faults + 1
      BY <1>9 DEF SweepFails, Fault
    <2>2. Apart /\ faults + 1 <= faults' /\ Due(j)' <= Due(j) + 1
      BY <1>a, <1>d, <1>9, <2>1 DEF SweepFails, rows, Due, Apart
    <2>3. Counted(j)'
      BY <1>a, <1>b, <1>9, <2>2, QuietCounted DEF SweepFails, rows
    <2> QED BY <1>c, <2>2, <2>3
  <1>10. CASE RecoverStale(j)
    <2>1. CASE job[j].attempt < MaxAttempts(j)
      <3>1. Apart
        BY <1>a, <1>d, <1>10, <2>1 DEF RecoverStale, SetJob, Apart
      <3>2. Counted(j)'
        BY <1>a, <1>10, <2>1, RecoveredCounted
      <3> QED BY <1>c, <3>1, <3>2
    <2>2. CASE ~(job[j].attempt < MaxAttempts(j))
      <3>1. Due(j)' <= Due(j) /\ Apart
        BY <1>a, <1>d, <1>10, <2>2 DEF RecoverStale, FailRow, SetJob, Due, Row, Apart
      <3>2. job'[j].gen = job[j].gen /\ job'[j].attempt = job[j].attempt /\ job'[j].status = "failed"
        BY <1>a, <1>10, <2>2 DEF RecoverStale, FailRow, SetJob, Row
      <3> QED BY <1>10, <1>f, <3>1, <3>2 DEF RecoverStale, Claimable
    <2> QED BY <2>1, <2>2
  <1>11. CASE RequeuePublish(j)
    <2>1. Due(j)' + 1 <= Due(j)
      BY <1>a, <1>11 DEF RequeuePublish, Due, rows
    <2>2. Apart
      BY <1>a, <1>d, <1>e, <1>11 DEF RequeuePublish, Apart, rows
    <2>3. Counted(j)'
      BY <1>a, <1>11, <2>1, SentCounted DEF RequeuePublish, rows
    <2> QED BY <1>c, <2>2, <2>3
  <1>12. CASE HeartbeatExpires(j)
    <2>1. /\ job'[j].gen = job[j].gen /\ job'[j].attempt = job[j].attempt /\ job'[j].status = job[j].status
          /\ job'[j].stage = job[j].stage
      BY <1>a, <1>12 DEF HeartbeatExpires, Row
    <2>2. Due(j)' <= Due(j) /\ Apart
      BY <1>a, <1>d, <1>12, <2>1 DEF HeartbeatExpires, Due, Apart
    <2> QED BY <1>12, <1>f, <2>1, <2>2 DEF HeartbeatExpires
  <1> QED BY <1>1, <1>2, <1>3, <1>4, <1>5, <1>6, <1>7, <1>8, <1>9, <1>10, <1>11,
             <1>12 DEF JobStep

\* A message in the hands of execution w, as a number.
Held(w, j, n) == IF Carries(w, j, n) THEN 1 ELSE 0

\* Where the messages of job j go when only execution w moves.
LEMMA MessagesMove ==
  ASSUME TypeOK, TypeOK', NEW j \in Jobs, Counted(j), NEW w \in Workers,
         \A v \in Workers \ {w} : worker'[v] = worker[v], NEW n \in Retries
  PROVE  /\ IsFiniteSet(Carriers(j, n)')
         /\ Messages(j, n) \in Nat /\ Messages(j, n)' \in Nat
         /\ inbox[j][n] \in Nat /\ inbox'[j][n] \in Nat
         /\ Held(w, j, n) \in {0, 1} /\ Held(w, j, n)' \in {0, 1}
         /\ Messages(j, n)' + Held(w, j, n) + inbox[j][n] = Messages(j, n) + Held(w, j, n)' + inbox'[j][n]
  <1> DEFINE rest == Carriers(j, n) \ {w}
  <1>1. IsFiniteSet(rest) /\ w \notin rest
    BY FS_RemoveElement DEF Counted
  <1>2. Carriers(j, n) = (IF Carries(w, j, n) THEN rest \cup {w} ELSE rest)
    BY DEF Carriers
  <1>3. Carriers(j, n)' = (IF Carries(w, j, n)' THEN rest \cup {w} ELSE rest)
    BY DEF Carriers, Carries
  <1> HIDE DEF rest
  <1>4. IsFiniteSet(rest \cup {w}) /\ Cardinality(rest \cup {w}) = Cardinality(rest) + 1
    BY <1>1, FS_AddElement
  <1>5. Cardinality(rest) \in Nat
    BY <1>1, FS_CardinalityType
  <1>6. IsFiniteSet(Carriers(j, n)') /\ Cardinality(Carriers(j, n)') = Cardinality(rest) + Held(w, j, n)'
    BY <1>1, <1>3, <1>4, <1>5 DEF Held
  <1>7. Cardinality(Carriers(j, n)) = Cardinality(rest) + Held(w, j, n)
    BY <1>2, <1>4, <1>5 DEF Held
  <1>8. Held(w, j, n) \in {0, 1} /\ Held(w, j, n)' \in {0, 1}
    BY DEF Held
  <1>9. inbox[j][n] \in Nat /\ inbox'[j][n] \in Nat
    BY DEF TypeOK
  <1>10. /\ Messages(j, n) = inbox[j][n] + Cardinality(rest) + Held(w, j, n)
         /\ Messages(j, n)' = inbox'[j][n] + Cardinality(rest) + Held(w, j, n)'
    <2>1. Messages(j, n) = inbox[j][n] + Cardinality(Carriers(j, n))
      BY DEF Messages
    <2>2. Messages(j, n)' = inbox'[j][n] + Cardinality(Carriers(j, n)')
      BY DEF Messages
    <2> QED BY <1>5, <1>6, <1>7, <1>8, <1>9, <2>1, <2>2
  <1> QED BY <1>5, <1>6, <1>8, <1>9, <1>10

\* The jobs that execution w has nothing to do with.
LEMMA OthersCounted ==
  ASSUME TypeOK, TypeOK', Counts, NEW w \in Workers, NEW j \in Jobs,
         worker[w].pc # "idle" => worker[w].job = j, worker'[w].pc # "idle" => worker'[w].job = j,
         \A v \in Workers \ {w} : worker'[v] = worker[v],
         \A i \in Jobs \ {j} : job'[i] = job[i] /\ inbox'[i] = inbox[i],
         UNCHANGED <<api, sweep, requeue>>, faults <= faults', Counted(j)'
  PROVE  Counts'
  <1>1. ASSUME NEW i \in Jobs, i # j PROVE Counted(i)'
    <2>1. \A v \in Workers : \A n : Carries(v, i, n)' = Carries(v, i, n)
      BY <1>1 DEF Carries
    <2>2. \A n : Carriers(i, n)' = Carriers(i, n)
      BY <2>1 DEF Carriers
    <2>3. \A n : Owned(i, n)' => Owned(i, n)
      BY <1>1 DEF Owned, Owns, Fenced, Executing
    <2>4. requeue'[i] <= requeue[i]
      BY DEF TypeOK
    <2> QED BY <1>1, <2>2, <2>3, <2>4, BystanderCounted DEF Counts
  <1> QED BY <1>1 DEF Counts

\* An execution that sends nothing, and ends or goes on with its claim.
LEMMA GoingCounted ==
  ASSUME TypeOK, TypeOK', Counts, NEW w \in Workers, NEW j \in Jobs, worker[w].job = j,
         \A v \in Workers \ {w} : worker'[v] = worker[v],
         \/ worker'[w] = Idle
         \/ /\ worker[w].pc \in Executing /\ worker'[w].pc \in Executing /\ worker'[w].job = j
            /\ worker'[w].gen = worker[w].gen /\ worker'[w].retries = worker[w].retries,
         \A i \in Jobs \ {j} : job'[i] = job[i],
         job'[j].gen = job[j].gen, job'[j].attempt = job[j].attempt,
         job'[j].status \in {"running"} \cup Claimable => job'[j].status = job[j].status,
         job'[j].status = "queued" => job'[j].stage = job[j].stage,
         UNCHANGED <<inbox, api, sweep, requeue>>, faults <= faults'
  PROVE  Counts'
  <1>a. 0 \in Retries /\ 1 \in Retries /\ 2 \in Retries /\ Counted(j)
    BY DEF Retries, Counts
  <1>1. \A n \in Retries : /\ IsFiniteSet(Carriers(j, n)')
                           /\ Messages(j, n) \in Nat /\ Messages(j, n)' \in Nat
                           /\ Messages(j, n)' <= Messages(j, n)
    <2> TAKE n \in Retries
    <2>1. Held(w, j, n)' = 0
      BY DEF Held, Carries, Idle, Executing
    <2> HIDE DEF Held
    <2> QED BY <1>a, <2>1, MessagesMove
  <1>2. \A n : Owned(j, n)' => Owned(j, n)
    BY OwnedStays DEF Idle, Executing, Claimable
  <1>3. Due(j) \in Nat /\ Due(j)' \in Int /\ Due(j)' <= Due(j) /\ faults \in Nat /\ faults' \in Nat
    <2>1. requeue[j] \in Nat /\ faults \in Nat /\ faults' \in Nat
      BY DEF TypeOK
    <2>2. job'[j].status = "queued" => job[j].status = "queued" /\ job'[j].stage = job[j].stage
      BY DEF Claimable
    <2> QED BY <2>1, <2>2 DEF Due
  <1>4. /\ faults + 0 <= faults' /\ Due(j)' + Messages(j, 0)' <= Due(j) + Messages(j, 0) + 0
        /\ Due(j)' + Messages(j, 0)' + Messages(j, 1)' <= Due(j) + Messages(j, 0) + Messages(j, 1) + 0
        /\ Due(j)' + Messages(j, 0)' + Messages(j, 1)' + Messages(j, 2)'
             <= Due(j) + Messages(j, 0) + Messages(j, 1) + Messages(j, 2) + 0
    BY <1>a, <1>1, <1>3
  <1>5. Counted(j)'
    BY <1>a, <1>1, <1>2, <1>4, FewerCounted
  <1> QED BY <1>5, OthersCounted DEF Idle

\* An execution that ends with a message: the one it had, or one that a fault is charged for.
LEMMA SendingCounted ==
  ASSUME TypeOK, TypeOK', Counts, NEW w \in Workers, NEW j \in Jobs, worker[w].job = j,
         \A v \in Workers \ {w} : worker'[v] = worker[v], worker'[w] = Idle,
         UNCHANGED <<job, api, sweep, requeue>>, NEW r \in Retries, Send(j, r),
         NEW extra \in {0, 1}, faults + extra <= faults', 1 <= Held(w, j, r) + extra
  PROVE  Counts'
  <1>a. 0 \in Retries /\ 1 \in Retries /\ 2 \in Retries /\ Counted(j)
    BY DEF Retries, Counts
  <1>1. /\ \A n \in Retries : inbox'[j][n] = IF n = r THEN inbox[j][n] + 1 ELSE inbox[j][n]
        /\ \A i \in Jobs \ {j} : inbox'[i] = inbox[i]
    BY DEF Send, TypeOK
  <1>2. \A n \in Retries : /\ IsFiniteSet(Carriers(j, n)')
                           /\ Messages(j, n) \in Nat /\ Messages(j, n)' \in Nat
                           /\ n = r => Messages(j, n)' <= Messages(j, n) + extra
                           /\ n # r => Messages(j, n)' <= Messages(j, n)
    <2> TAKE n \in Retries
    <2>1. Held(w, j, n)' = 0
      BY DEF Held, Carries, Idle
    <2> HIDE DEF Held
    <2>2. /\ IsFiniteSet(Carriers(j, n)')
          /\ Messages(j, n) \in Nat /\ Messages(j, n)' \in Nat
          /\ inbox[j][n] \in Nat /\ Held(w, j, n) \in {0, 1}
          /\ Messages(j, n)' + Held(w, j, n) + inbox[j][n] = Messages(j, n) + Held(w, j, n)' + inbox'[j][n]
      BY <1>a, MessagesMove
    <2> QED BY <1>1, <2>1, <2>2
  <1>3. \A n : Owned(j, n)' => Owned(j, n)
    BY OwnedStays DEF Idle, Executing
  <1>4. Due(j)' = Due(j) /\ Due(j) \in Nat /\ faults \in Nat /\ faults' \in Nat
    <2>1. requeue[j] \in Nat /\ faults \in Nat /\ faults' \in Nat
      BY DEF TypeOK
    <2> QED BY <2>1 DEF Due
  <1>5. /\ Due(j)' + Messages(j, 0)' <= Due(j) + Messages(j, 0) + extra
        /\ Due(j)' + Messages(j, 0)' + Messages(j, 1)' <= Due(j) + Messages(j, 0) + Messages(j, 1) + extra
        /\ Due(j)' + Messages(j, 0)' + Messages(j, 1)' + Messages(j, 2)'
             <= Due(j) + Messages(j, 0) + Messages(j, 1) + Messages(j, 2) + extra
    BY <1>a, <1>2, <1>4
  <1>6. Counted(j)'
    BY <1>a, <1>2, <1>3, <1>5, FewerCounted
  <1>7. faults <= faults'
    BY <1>4
  <1> QED BY <1>1, <1>6, <1>7, OthersCounted DEF Idle

\* A message changes hands.
LEMMA ReceivedCounted ==
  ASSUME TypeOK, TypeOK', Counts, NEW w \in Workers, NEW j \in Jobs, NEW r \in Retries,
         Receive(w, j, r)
  PROVE  Counts'
  <1>a. 0 \in Retries /\ 1 \in Retries /\ 2 \in Retries /\ Counted(j)
    BY DEF Retries, Counts
  <1>b. /\ worker'[w] = [pc |-> "claiming", job |-> j, retries |-> r, gen |-> 0]
        /\ \A v \in Workers \ {w} : worker'[v] = worker[v]
    BY DEF Receive, TypeOK, WorkersOK
  <1>c. UNCHANGED <<job, api, sweep, requeue, faults>>
    BY DEF Receive, rows
  <1>1. /\ \A n \in Retries : inbox[j][n] \in Nat /\ inbox'[j][n] = IF n = r THEN inbox[j][n] - 1 ELSE inbox[j][n]
        /\ \A i \in Jobs \ {j} : inbox'[i] = inbox[i]
    BY DEF Receive, TypeOK
  <1>2. \A n \in Retries : /\ IsFiniteSet(Carriers(j, n)')
                           /\ Messages(j, n) \in Nat /\ Messages(j, n)' = Messages(j, n)
    <2> TAKE n \in Retries
    <2>1. Held(w, j, n) = 0
      BY DEF Held, Carries, Receive
    <2>2. Held(w, j, n)' = IF n = r THEN 1 ELSE 0
      BY <1>b DEF Held, Carries
    <2> HIDE DEF Held
    <2>3. /\ IsFiniteSet(Carriers(j, n)')
          /\ Messages(j, n) \in Nat /\ Messages(j, n)' \in Nat
          /\ Messages(j, n)' + Held(w, j, n) + inbox[j][n] = Messages(j, n) + Held(w, j, n)' + inbox'[j][n]
      BY <1>a, <1>b, MessagesMove
    <2> QED BY <1>1, <2>1, <2>2, <2>3
  <1>3. \A n : Owned(j, n)' => Owned(j, n)
    BY <1>b, <1>c, OwnedStays DEF Executing
  <1>4. Due(j)' = Due(j) /\ Due(j) \in Nat /\ faults \in Nat
    <2>1. requeue[j] \in Nat /\ faults \in Nat
      BY DEF TypeOK
    <2> QED BY <1>c, <2>1 DEF Due
  <1>5. /\ faults + 0 <= faults' /\ Due(j)' + Messages(j, 0)' <= Due(j) + Messages(j, 0) + 0
        /\ Due(j)' + Messages(j, 0)' + Messages(j, 1)' <= Due(j) + Messages(j, 0) + Messages(j, 1) + 0
        /\ Due(j)' + Messages(j, 0)' + Messages(j, 1)' + Messages(j, 2)'
             <= Due(j) + Messages(j, 0) + Messages(j, 1) + Messages(j, 2) + 0
    BY <1>a, <1>c, <1>2, <1>4
  <1>6. Counted(j)'
    BY <1>a, <1>c, <1>2, <1>3, <1>5, FewerCounted
  <1>7. faults <= faults' /\ (worker[w].pc # "idle" => worker[w].job = j)
    BY <1>c, <1>4 DEF Receive
  <1> QED BY <1>b, <1>c, <1>1, <1>6, <1>7, OthersCounted

\* A claim spends the message it was made with, and only that execution can own it.
LEMMA ClaimedCounted ==
  ASSUME TypeOK, TypeOK', Counts, NEW w \in Workers, NEW j \in Jobs, worker[w].job = j,
         worker[w].pc = "claiming", job[j].status \in Claimable, ClaimRow(j),
         \A v \in Workers \ {w} : worker'[v] = worker[v],
         worker'[w] = Idle \/ (worker'[w].pc = "working" /\ worker'[w].job = j),
         \A n : Owned(j, n)' => n = worker[w].retries,
         UNCHANGED <<inbox, api, sweep, requeue>>, faults <= faults'
  PROVE  Counts'
  <1>a. 0 \in Retries /\ 1 \in Retries /\ 2 \in Retries /\ Counted(j) /\ worker[w].retries \in Retries
    BY BusyWorker DEF Retries, Counts, TypeOK
  <1>1. /\ job'[j].status = "running" /\ job'[j].stage = "starting"
        /\ job'[j].gen = job[j].gen + 1 /\ job'[j].attempt = job[j].attempt + 1
        /\ \A i \in Jobs \ {j} : job'[i] = job[i]
    BY DEF ClaimRow, TypeOK
  <1> DEFINE r == worker[w].retries
  <1>2. \A n \in Retries : /\ IsFiniteSet(Carriers(j, n)')
                           /\ Messages(j, n) \in Nat /\ Messages(j, n)' \in Nat
                           /\ n = r => Messages(j, n)' + 1 = Messages(j, n)
                           /\ n # r => Messages(j, n)' = Messages(j, n)
    <2> TAKE n \in Retries
    <2>1. Held(w, j, n)' = 0
      BY DEF Held, Carries, Idle
    <2>2. Held(w, j, n) = IF n = r THEN 1 ELSE 0
      BY DEF Held, Carries
    <2> HIDE DEF Held
    <2>3. /\ IsFiniteSet(Carriers(j, n)')
          /\ Messages(j, n) \in Nat /\ Messages(j, n)' \in Nat /\ inbox[j][n] \in Nat
          /\ Messages(j, n)' + Held(w, j, n) + inbox[j][n] = Messages(j, n) + Held(w, j, n)' + inbox'[j][n]
      BY <1>a, MessagesMove
    <2> QED BY <2>1, <2>2, <2>3
  <1>3. /\ Due(j) \in Nat /\ Due(j)' \in Nat /\ Due(j)' <= Due(j)
        /\ faults \in Nat /\ faults' \in Nat /\ job[j].gen \in Nat
    <2>1. requeue[j] \in Nat /\ faults \in Nat /\ faults' \in Nat /\ job[j] \in Row
      BY DEF TypeOK
    <2> QED BY <1>1, <2>1 DEF Due, Row
  <1>4. \A n : ~Owned(j, n)
    BY DEF Owned, Owns, Fenced, Claimable
  <1>5. r = 0 \/ r = 1 \/ r = 2
    BY <1>a DEF Retries
  <1> HIDE DEF r
  <1>6. FewMessages(j)'
    <2>1. Due(j) + Messages(j, 0) + Messages(j, 1) + Messages(j, 2) + 0 <= 2 + faults
      BY <1>a DEF Counted, FewMessages, Claimable
    <2>2. Due(j)' + Messages(j, 0)' + Messages(j, 1)' + Messages(j, 2)' + 1 <= 2 + faults'
      BY <1>a, <1>2, <1>3, <1>5, <2>1
    <2> QED BY <1>1, <2>2 DEF FewMessages
  <1>7. FewClaims(j)'
    <2> DEFINE p == IF Owned(j, 0)' THEN 2 ELSE IF Owned(j, 1)' THEN 1 ELSE 0
               b == IF Owned(j, 0)' THEN 1 ELSE 0
    <2>1. /\ p \in 0..2 /\ b \in {0, 1}
          /\ r = 1 => p <= 1 /\ b = 0
          /\ r = 2 => p = 0 /\ b = 0
      BY DEF r
    <2>2. CASE j \in Ingestion
      <3>1. job[j].gen + 1 + (2 * (Due(j) + Messages(j, 0)) + Messages(j, 1) + 0) <= 7 + 2 * faults
        BY <1>a, <1>4, <2>2 DEF Counted, FewClaims, Granted
      <3> HIDE DEF p
      <3>2. job'[j].gen + 0 + (2 * (Due(j)' + Messages(j, 0)') + Messages(j, 1)' + p) <= 7 + 2 * faults'
        BY <1>a, <1>1, <1>2, <1>3, <1>5, <2>1, <3>1
      <3> QED BY <1>1, <2>2, <3>2 DEF FewClaims, Granted, Claimable, p
    <2>3. CASE j \notin Ingestion
      <3>1. job[j].gen + 1 + (Due(j) + Messages(j, 0) + 0) <= 4 + faults
        BY <1>a, <1>4, <2>3 DEF Counted, FewClaims, Granted
      <3> HIDE DEF b
      <3>2. job'[j].gen + 0 + (Due(j)' + Messages(j, 0)' + b) <= 4 + faults'
        BY <1>a, <1>1, <1>2, <1>3, <1>5, <2>1, <3>1
      <3> QED BY <1>1, <2>3, <3>2 DEF FewClaims, Granted, Claimable, b
    <2> QED BY <2>2, <2>3
  <1>8. Counted(j)'
    BY <1>a, <1>1, <1>2, <1>6, <1>7 DEF Counted
  <1> QED BY <1>1, <1>8, OthersCounted DEF Idle

\* A retry: the claim ends, and the message it leaves grants one retry less than the claim did.
LEMMA RetriedCounted ==
  ASSUME TypeOK, TypeOK', Counts, NEW w \in Workers, NEW j \in Jobs, worker[w].job = j,
         Owns(w), worker[w].retries < MaxRetries(j), RetryRow(j),
         \A v \in Workers \ {w} : worker'[v] = worker[v],
         \/ worker'[w] = Idle
         \/ worker'[w].pc = "retrying" /\ worker'[w].job = j /\ worker'[w].retries = worker[w].retries,
         UNCHANGED <<inbox, api, sweep, requeue>>, faults <= faults'
  PROVE  Counts'
  <1>a. 0 \in Retries /\ 1 \in Retries /\ 2 \in Retries /\ Counted(j) /\ worker[w].retries \in Retries
    BY BusyWorker DEF Retries, Counts, TypeOK
  <1>1. /\ job[j].status = "running" /\ job'[j].status = "retrying"
        /\ job'[j].gen = job[j].gen /\ job'[j].attempt = job[j].attempt
        /\ \A i \in Jobs \ {j} : job'[i] = job[i]
    BY DEF Owns, Fenced, RetryRow, TypeOK, Row
  <1> DEFINE r == worker[w].retries
  <1>2. \A n \in Retries : /\ IsFiniteSet(Carriers(j, n)')
                           /\ Messages(j, n) \in Nat /\ Messages(j, n)' \in Nat
                           /\ n = r + 1 => Messages(j, n)' <= Messages(j, n) + 1
                           /\ n # r + 1 => Messages(j, n)' = Messages(j, n)
    <2> TAKE n \in Retries
    <2>1. Held(w, j, n) = 0
      BY DEF Held, Carries, Owns, Executing
    <2>2. n # r + 1 => Held(w, j, n)' = 0
      BY DEF Held, Carries, Idle
    <2> HIDE DEF Held
    <2>3. /\ IsFiniteSet(Carriers(j, n)')
          /\ Messages(j, n) \in Nat /\ Messages(j, n)' \in Nat /\ inbox[j][n] \in Nat
          /\ Held(w, j, n)' \in {0, 1}
          /\ Messages(j, n)' + Held(w, j, n) + inbox[j][n] = Messages(j, n) + Held(w, j, n)' + inbox'[j][n]
      BY <1>a, MessagesMove
    <2> QED BY <2>1, <2>2, <2>3
  <1>3. /\ Due(j) \in Nat /\ Due(j)' \in Nat /\ Due(j)' <= Due(j)
        /\ faults \in Nat /\ faults' \in Nat /\ job[j].gen \in Nat
    <2>1. requeue[j] \in Nat /\ faults \in Nat /\ faults' \in Nat /\ job[j] \in Row
      BY DEF TypeOK
    <2> QED BY <1>1, <2>1 DEF Due, Row
  <1>4. \A n : ~Owned(j, n)'
    BY <1>1 DEF Owned, Owns, Fenced
  <1>5. Owned(j, r) /\ (r = 0 \/ (r = 1 /\ j \in Ingestion))
    BY <1>a DEF Owned, Retries, MaxRetries
  <1> HIDE DEF r
  <1>6. FewMessages(j)'
    <2>1. Due(j) + Messages(j, 0) + Messages(j, 1) + Messages(j, 2) + 1 <= 2 + faults
      BY <1>a, <1>1 DEF Counted, FewMessages
    <2>2. Due(j)' + Messages(j, 0)' + Messages(j, 1)' + Messages(j, 2)' + 0 <= 2 + faults'
      BY <1>a, <1>2, <1>3, <1>5, <2>1
    <2> QED BY <1>1, <2>2 DEF FewMessages
  <1>7. FewClaims(j)'
    <2>1. CASE j \in Ingestion
      <3> DEFINE o == IF Owned(j, 0) THEN 2 ELSE IF Owned(j, 1) THEN 1 ELSE 0
      <3>1. o \in 0..2 /\ (r = 0 => o = 2) /\ (r = 1 => 1 <= o)
        BY <1>5
      <3>2. job[j].gen + 0 + (2 * (Due(j) + Messages(j, 0)) + Messages(j, 1) + o) <= 7 + 2 * faults
        BY <1>a, <1>1, <2>1 DEF Counted, FewClaims, Granted, Claimable
      <3> HIDE DEF o
      <3>3. job'[j].gen + 1 + (2 * (Due(j)' + Messages(j, 0)') + Messages(j, 1)' + 0) <= 7 + 2 * faults'
        BY <1>a, <1>1, <1>2, <1>3, <1>5, <3>1, <3>2
      <3> QED BY <1>1, <1>4, <2>1, <3>3 DEF FewClaims, Granted, Claimable
    <2>2. CASE j \notin Ingestion
      <3>1. r = 0
        BY <1>5, <2>2
      <3>2. job[j].gen + 0 + (Due(j) + Messages(j, 0) + 1) <= 4 + faults
        BY <1>a, <1>1, <1>5, <2>2, <3>1 DEF Counted, FewClaims, Granted, Claimable
      <3>3. job'[j].gen + 1 + (Due(j)' + Messages(j, 0)' + 0) <= 4 + faults'
        BY <1>a, <1>1, <1>2, <1>3, <3>1, <3>2
      <3> QED BY <1>1, <1>4, <2>2, <3>3 DEF FewClaims, Granted, Claimable
    <2> QED BY <2>1, <2>2
  <1>8. Counted(j)'
    BY <1>a, <1>1, <1>2, <1>6, <1>7 DEF Counted
  <1> QED BY <1>1, <1>8, OthersCounted DEF Idle

\* The steps of the executions.
LEMMA WorkerStepCounts ==
  ASSUME Inv, TypeOK', Counts, NEW w \in Workers, WorkerStep(w)
  PROVE  Counts'
  <1> SUFFICES ASSUME NEW j, j = worker[w].job
               PROVE  Counts'
    OBVIOUS
  <1> DEFINE Others == \A v \in Workers \ {w} : worker'[v] = worker[v]
  <1>a. /\ TypeOK /\ job \in [Jobs -> Row] /\ worker \in [Workers -> Execution] /\ WorkersOK
        /\ faults \in Nat
    BY DEF Inv, TypeOK, WorkersOK
  <1>b. worker[w].pc # "idle" => j \in Jobs /\ worker[w].retries \in Retries /\ job[j] \in Row
    BY <1>a, BusyWorker
  <1>c. /\ Ack(w) => worker'[w] = Idle /\ Others
        /\ \A pc : Goto(w, pc) => /\ Others /\ worker'[w].pc = pc /\ worker'[w].job = j
                                  /\ worker'[w].gen = worker[w].gen
                                  /\ worker'[w].retries = worker[w].retries
    BY <1>a DEF Ack, Goto, Execution
  <1>d. \A kind : Fault(kind) => faults' = faults + 1
    BY DEF Fault
  <1>e. faults <= faults /\ faults <= faults + 1 /\ faults + 0 <= faults /\ faults + 1 <= faults + 1
    BY <1>a
\* The execution goes on, or ends, and its job's row is as it was.
  <1>f. ASSUME UNCHANGED <<job, inbox, api, sweep, requeue>>, worker[w].pc # "idle",
               \/ Ack(w)
               \/ /\ worker[w].pc \in Executing
                  /\ UNCHANGED worker \/ Goto(w, "indexed") \/ Goto(w, "finishing"),
               faults' = faults \/ faults' = faults + 1
        PROVE  Counts'
    <2>1. Others
      BY <1>c, <1>f
    <2>2. \/ worker'[w] = Idle
          \/ /\ worker[w].pc \in Executing /\ worker'[w].pc \in Executing /\ worker'[w].job = j
             /\ worker'[w].gen = worker[w].gen /\ worker'[w].retries = worker[w].retries
      BY <1>c, <1>f DEF Executing
    <2> QED BY <1>a, <1>b, <1>e, <1>f, <2>1, <2>2, GoingCounted
\* The execution goes on, or ends, and writes its job's row, which stays running or is final.
  <1>g. ASSUME UNCHANGED <<inbox, api, sweep, requeue, faults>>, Owns(w), Ack(w) \/ UNCHANGED worker,
               \A i \in Jobs \ {j} : job'[i] = job[i],
               job'[j].gen = job[j].gen, job'[j].attempt = job[j].attempt,
               job'[j].status \in {"running", "completed", "failed"}
        PROVE  Counts'
    <2>1. Others
      BY <1>c, <1>g
    <2>2. \/ worker'[w] = Idle
          \/ /\ worker[w].pc \in Executing /\ worker'[w].pc \in Executing /\ worker'[w].job = j
             /\ worker'[w].gen = worker[w].gen /\ worker'[w].retries = worker[w].retries
      BY <1>c, <1>g DEF Owns
    <2>3. job'[j].status \in {"running"} \cup Claimable => job'[j].status = job[j].status
      BY <1>g DEF Claimable, Owns, Fenced
    <2>4. j \in Jobs /\ job'[j].status # "queued"
      BY <1>b, <1>g DEF Owns, Executing
    <2> QED BY <1>a, <1>e, <1>g, <2>1, <2>2, <2>3, <2>4, GoingCounted
  <1>1. ASSUME NEW i \in Jobs, NEW r \in Retries, Receive(w, i, r)
        PROVE  Counts'
    BY <1>a, <1>1, ReceivedCounted
  <1>2. CASE Claim(w) \/ ClaimReplyLost(w)
    <2>1. CASE job[j].status \in Claimable
      <3>1. /\ worker[w].pc = "claiming" /\ ClaimRow(j) /\ UNCHANGED <<inbox, api, sweep, requeue>>
            /\ faults' = faults \/ faults' = faults + 1
        BY <1>2, <1>d, <2>1 DEF Claim, ClaimReplyLost
      <3>2. /\ Others
            /\ \/ worker'[w] = Idle
               \/ /\ worker'[w].pc = "working" /\ worker'[w].job = j
                  /\ worker'[w].retries = worker[w].retries
        BY <1>a, <1>c, <1>2, <2>1 DEF Claim, ClaimReplyLost, Execution
      <3>3. ASSUME NEW n, Owned(j, n)' PROVE n = worker[w].retries
        <4>1. PICK v \in Workers : worker'[v].job = j /\ worker'[v].retries = n /\ Owns(v)'
          BY <3>3 DEF Owned
        <4>2. job'[j].gen = job[j].gen + 1 /\ job[j].gen \in Nat
          BY <1>a, <1>b, <3>1 DEF ClaimRow, Row
        <4>3. v = w
          <5>1. SUFFICES ASSUME v # w PROVE FALSE
            OBVIOUS
          <5>2. worker[v].pc \in Executing /\ worker[v].job = j /\ worker[v].gen = job[j].gen + 1
            BY <3>2, <4>1, <4>2, <5>1 DEF Owns, Fenced
          <5>3. worker[v].gen <= job[j].gen
            BY <5>2 DEF Inv, ClaimsIssued
          <5> QED BY <4>2, <5>2, <5>3
        <4>4. worker'[w] # Idle
          BY <4>1, <4>3 DEF Owns, Executing, Idle
        <4> QED BY <3>2, <4>1, <4>3, <4>4
      <3>4. j \in Jobs /\ faults <= faults'
        BY <1>b, <1>e, <3>1
      <3>5. worker'[w] = Idle \/ (worker'[w].pc = "working" /\ worker'[w].job = j)
        BY <3>2
      <3> QED BY <1>a, <2>1, <3>1, <3>2, <3>3, <3>4, <3>5, ClaimedCounted
    <2>2. CASE job[j].status \notin Claimable
      BY <1>2, <1>f, <2>2 DEF Claim, ClaimReplyLost, rows
    <2> QED BY <2>1, <2>2
  <1>3. CASE ClaimUnavailable(w) \/ RetryPublishFails(w) \/ HandlerUnavailable(w) \/ TimeLimit(w)
    BY <1>3, <1>d, <1>f DEF ClaimUnavailable, RetryPublishFails, HandlerUnavailable, TimeLimit, rows,
       Executing
  <1>4. CASE Progress(w) \/ Heartbeat(w)
    <2>1. CASE Owns(w)
      <3>1. /\ \A i \in Jobs \ {j} : job'[i] = job[i]
            /\ job'[j].gen = job[j].gen /\ job'[j].attempt = job[j].attempt /\ job'[j].status = "running"
        BY <1>a, <1>b, <1>4, <2>1 DEF Progress, Heartbeat, Owns, Fenced, Row
      <3> QED BY <1>4, <1>g, <2>1, <3>1 DEF Progress, Heartbeat
    <2>2. CASE ~Owns(w)
      BY <1>4, <1>f, <2>2 DEF Progress, Heartbeat, rows
    <2> QED BY <2>1, <2>2
  <1>5. CASE IndexChunks(w) \/ CheckCancelled(w)
    BY <1>5, <1>f DEF IndexChunks, CheckCancelled, rows, Executing
  <1>6. CASE Complete(w) \/ Fail(w)
    <2>1. CASE Owns(w)
      <3>1. /\ \A i \in Jobs \ {j} : job'[i] = job[i]
            /\ job'[j].gen = job[j].gen /\ job'[j].attempt = job[j].attempt
            /\ job'[j].status \in {"completed", "failed"}
        BY <1>a, <1>b, <1>6, <2>1
        DEF Complete, Fail, PublishRow, FailRow, SetJob, Owns, Fenced, Row, Executing
      <3> QED BY <1>6, <1>g, <2>1, <3>1 DEF Complete, Fail
    <2>2. CASE ~Owns(w)
      BY <1>6, <1>f, <2>2 DEF Complete, Fail, rows, Executing
    <2> QED BY <2>1, <2>2
  <1>7. CASE (Retry(w) /\ Owns(w)) \/ RetryReplyLost(w)
    <2>1. /\ Owns(w) /\ worker[w].retries < MaxRetries(j) /\ RetryRow(j)
          /\ Goto(w, "retrying") \/ Ack(w)
          /\ UNCHANGED <<inbox, api, sweep, requeue>>
          /\ faults' = faults \/ faults' = faults + 1
      BY <1>7, <1>d DEF Retry, RetryReplyLost
    <2>2. /\ Others
          /\ \/ worker'[w] = Idle
             \/ /\ worker'[w].pc = "retrying" /\ worker'[w].job = j
                /\ worker'[w].retries = worker[w].retries
      BY <1>c, <2>1
    <2>3. j \in Jobs /\ faults <= faults'
      BY <1>b, <1>e, <2>1 DEF Owns, Executing
    <2> QED BY <1>a, <2>1, <2>2, <2>3, RetriedCounted
  <1>8. CASE Retry(w) /\ ~Owns(w)
    BY <1>8, <1>f DEF Retry, rows, Executing
  <1>9. CASE RetryPublish(w)
    <2>1. j \in Jobs /\ worker[w].retries + 1 \in Retries
      BY <1>a, <1>b, <1>9, BusyWorker DEF RetryPublish
    <2>2. 1 <= Held(w, j, worker[w].retries + 1) + 0
      BY <1>9 DEF RetryPublish, Held, Carries
    <2>3. /\ worker'[w] = Idle /\ Others /\ Send(j, worker[w].retries + 1) /\ faults + 0 <= faults'
          /\ UNCHANGED <<job, api, sweep, requeue>>
      BY <1>9, <1>c, <1>e DEF RetryPublish, rows
    <2> QED BY <1>a, <2>1, <2>2, <2>3, SendingCounted
  <1>10. CASE WorkerLost(w)
    <2>1. j \in Jobs /\ worker[w].retries \in Retries
      BY <1>b, <1>10 DEF WorkerLost
    <2>2. 1 <= Held(w, j, worker[w].retries) + 1
      BY DEF Held
    <2>3. /\ worker'[w] = Idle /\ Others /\ Send(j, worker[w].retries) /\ faults + 1 <= faults'
          /\ UNCHANGED <<job, api, sweep, requeue>>
      BY <1>10, <1>c, <1>d, <1>e DEF WorkerLost, rows
    <2> QED BY <1>a, <2>1, <2>2, <2>3, SendingCounted
  <1>11. CASE Terminate(w)
    BY <1>11, <1>f DEF Terminate, rows
  <1> QED BY <1>1, <1>2, <1>3, <1>4, <1>5, <1>6, <1>7, <1>8, <1>9, <1>10, <1>11
      DEF WorkerStep

\* Every step keeps the counts.
LEMMA CountsStep ==
  ASSUME Inv, TypeOK', Counts, [Next]_vars
  PROVE  Counts'
  <1>1. TypeOK
    BY DEF Inv
  <1>2. ASSUME UNCHANGED <<job, inbox, worker, api, sweep>>, faults <= faults',
               \A i \in Jobs : requeue'[i] <= requeue[i]
        PROVE  Counts'
    <2>1. ASSUME NEW i \in Jobs PROVE Counted(i)'
      <3>1. /\ \A n \in Retries : Carriers(i, n)' = Carriers(i, n)
            /\ \A n : Owned(i, n)' => Owned(i, n)
        BY <1>2 DEF Carriers, Carries, Owned, Owns, Fenced
      <3> QED BY <1>1, <1>2, <3>1, BystanderCounted DEF Counts
    <2> QED BY <2>1 DEF Counts
  <1>3. faults \in Nat /\ requeue \in [Jobs -> Nat]
    BY <1>1 DEF TypeOK
  <1>4. CASE RequeueFails
    BY <1>2, <1>3, <1>4 DEF RequeueFails, Fault, rows
  <1>5. CASE UNCHANGED vars
    BY <1>2, <1>3, <1>5 DEF vars
  <1> QED BY <1>1, <1>4, <1>5, JobStepCounts, WorkerStepCounts DEF Next

LEMMA CountsInit == Init => Counts
  <1> SUFFICES ASSUME Init, NEW j \in Jobs PROVE Counted(j)
    BY DEF Counts
  <1>1. \A n : Carriers(j, n) = {}
    BY DEF Init, Carriers, Carries, Idle
  <1>2. \A n \in Retries : IsFiniteSet(Carriers(j, n)) /\ Messages(j, n) = 0
    <2>1. \A n : IsFiniteSet(Carriers(j, n)) /\ Cardinality(Carriers(j, n)) = 0
      BY <1>1, FS_EmptySet
    <2>2. \A n \in Retries : inbox[j][n] = 0
      BY DEF Init
    <2> HIDE DEF Carriers
    <2> QED BY <2>1, <2>2 DEF Messages
  <1>3. Messages(j, 0) = 0 /\ Messages(j, 1) = 0 /\ Messages(j, 2) = 0
    BY <1>2 DEF Retries
  <1>4. Due(j) = 2
    BY DEF Init, Due
  <1>5. \A n : ~Owned(j, n)
    BY DEF Init, Owned, Owns, Idle, Executing
  <1>6. job[j].status = "queued" /\ job[j].gen = 0 /\ job[j].attempt = 0 /\ faults = 0
    BY DEF Init
  <1> QED BY <1>2, <1>3, <1>4, <1>5, <1>6 DEF Counted, FewMessages, FewClaims, Granted, Claimable

\* However the retries that Celery counts and the attempts that the jobs table counts mix, a
\* job is claimed no more often than its retries, attempts and faults account for.
THEOREM ClaimsAreBounded == Spec => []ClaimsBounded
  <1>1. Inv /\ TypeOK' /\ Counts /\ [Next]_vars => Counts'
    BY CountsStep
  <1>2. Inv /\ Counts => ClaimsBounded
    <2> SUFFICES ASSUME Inv, Counts, NEW j \in Jobs
                 PROVE  job[j].gen <= MaxRetries(j) * (2 + faults) + MaxAttempts(j)
      BY DEF ClaimsBounded
    <2>1. Counted(j) /\ TypeOK /\ 0 \in Retries /\ 1 \in Retries
      BY DEF Counts, Inv, Retries
    <2>2. /\ job[j].gen \in Nat /\ faults \in Nat /\ Due(j) \in Nat
          /\ Messages(j, 0) \in Nat /\ Messages(j, 1) \in Nat
      BY <2>1, Numbers
    <2>3. Granted(j) \in Nat
      BY <2>2, GrantedNumber
    <2> DEFINE c == IF job[j].status \in Claimable THEN 1 ELSE 0
    <2>4. /\ c \in {0, 1}
          /\ job[j].gen + c + Granted(j) <= IF j \in Ingestion THEN 7 + 2 * faults ELSE 4 + faults
      BY <2>1 DEF Counted, FewClaims
    <2> HIDE DEF c
    <2> QED BY <2>2, <2>3, <2>4 DEF MaxRetries, MaxAttempts
  <1> QED BY <1>1, <1>2, CountsInit, Invariance, TypeCorrect, PTL DEF Spec
=============================================================================
