---------------------------- MODULE JobLifecycle ----------------------------
(***************************************************************************)
(* The life of a background job: the jobs row in PostgreSQL, the exams or  *)
(* documents row it drives, the Celery messages that carry it, the worker  *)
(* executions that claim it, and the beat tasks that sweep and recover it. *)
(*                                                                         *)
(* Every repository function is one transaction, hence one action.  Time   *)
(* is abstracted to heartbeat_at, which is none, recent or old, and the    *)
(* content of an exam, a document or a chunk set to its author: the claim  *)
(* generation of the execution that wrote it, 0 for none.                  *)
(*                                                                         *)
(* Left out: the progress percentage, error texts, audit events, and the   *)
(* deletion of rows by cleanup and by expired sessions.                    *)
(***************************************************************************)
EXTENDS Integers

CONSTANTS
  Ingestion,    \* jobs of type document_ingestion, each with its document
  Generation,   \* jobs of type exam_generation, each with its exam
  NoJob,        \* what an idle worker works on
  Workers,      \* Celery worker processes (prefetch 1: one message at a time)
  Faults,       \* the kinds of fault that may happen
  MaxFaults     \* how many faults may happen: the bound of the model

Jobs == Ingestion \cup Generation

\* Faults after which a job that is queued or retrying has no message left.
LossyFaults ==
  {"claim_unavailable", "retry_reply_lost", "retry_publish", "requeue_publish"}

\* Faults that some other mechanism (redelivery, sweep, recovery) makes good.
CoveredFaults ==
  {"enqueue", "sweep", "worker_lost", "time_limit", "claim_reply_lost",
   "handler_unavailable"}

ASSUME JobsAssumption == Ingestion \cap Generation = {} /\ NoJob \notin Jobs
ASSUME FaultsAssumption ==
  Faults \subseteq LossyFaults \cup CoveredFaults /\ MaxFaults \in Nat

VARIABLES
  job,      \* the jobs table
  exam,     \* the exams table, by generation job
  doc,      \* the documents table, by ingestion job
  chunks,   \* author of the document_chunks rows, by ingestion job
  inbox,    \* the broker: number of ready messages by job and request.retries
  worker,   \* the executions
  api,      \* what the request that created the job has left to do
  sweep,    \* what dispatch_undispatched_jobs is doing with the job
  requeue,  \* jobs recover_stale_jobs committed and has yet to publish
  faults    \* number of faults so far

vars == <<job, exam, doc, chunks, inbox, worker, api, sweep, requeue, faults>>

-----------------------------------------------------------------------------
(* Limits and status sets.                                                 *)

MaxAttempts(j) == IF j \in Ingestion THEN 3 ELSE 2   \* jobs.max_attempts
MaxRetries(j)  == IF j \in Ingestion THEN 2 ELSE 1   \* Task.max_retries
Retries        == 0 .. 2

Open      == {"queued", "running", "retrying"}
Final     == {"completed", "failed", "cancelled"}
Claimable == {"queued", "retrying"}

\* Program counters of an execution that has claimed its job.
Executing == {"working", "indexed", "finishing"}

Idle == [pc |-> "idle", job |-> NoJob, retries |-> 0, gen |-> 0]

\* Mutant: the fence forgets the claim generation.
FencedByStatus(j, g) == job[j].status = "running"

\* The fence of every repository write a worker makes.
Fenced(j, g) == job[j].status = "running" /\ job[j].gen = g

Owns(w) == worker[w].pc \in Executing /\ Fenced(worker[w].job, worker[w].gen)

Send(j, r) == inbox' = [inbox EXCEPT ![j][r] = @ + 1]

\* The execution ends and its message, taken with acks_late, is acknowledged.
Ack(w) == worker' = [worker EXCEPT ![w] = Idle]

Goto(w, pc) == worker' = [worker EXCEPT ![w].pc = pc]

Fault(kind) == kind \in Faults /\ faults < MaxFaults /\ faults' = faults + 1

-----------------------------------------------------------------------------
(* Transactions, as updates of the rows they touch.                        *)

SetJob(j, status, stage) ==
  job' = [job EXCEPT ![j].status = status, ![j].stage = stage]

SetExam(j, status) ==
  exam' = IF j \in Generation THEN [exam EXCEPT ![j].status = status] ELSE exam

SetDoc(j, status) ==
  doc' = IF j \in Ingestion THEN [doc EXCEPT ![j].status = status] ELSE doc

\* repositories.fail_job once its WHERE clause has matched.
FailRow(j) ==
  SetJob(j, "failed", "failed") /\ SetExam(j, "failed") /\ SetDoc(j, "failed")

\* repositories.retry_job: the document row stays "processing".
RetryRow(j) ==
  /\ job' = [job EXCEPT ![j].status = "retrying", ![j].stage = "retrying",
                        ![j].heartbeat = "recent"]
  /\ SetExam(j, "retrying")
  /\ UNCHANGED doc

\* Mutant: a claim of a retrying job reuses its generation.
ClaimSameGeneration(j) ==
  /\ job' = [job EXCEPT ![j] = [status |-> "running", stage |-> "starting",
                                attempt |-> @.attempt + 1, gen |-> @.gen,
                                heartbeat |-> "recent"]]
  /\ SetExam(j, "running")
  /\ doc' = IF j \in Ingestion
              THEN [doc EXCEPT ![j].status = "processing", ![j].active = "job"]
              ELSE doc

\* repositories.claim_job once its WHERE clause has matched.
ClaimRow(j) ==
  /\ job' = [job EXCEPT ![j] = [status |-> "running", stage |-> "starting",
                                attempt |-> @.attempt + 1, gen |-> @.gen + 1,
                                heartbeat |-> "recent"]]
  /\ SetExam(j, "running")
  /\ doc' = IF j \in Ingestion
              THEN [doc EXCEPT ![j].status = "processing", ![j].active = "job"]
              ELSE doc

\* repositories.complete_generation_job and complete_ingestion_job, when the
\* execution with claim generation g still owns the job.
PublishRow(j, g) ==
  /\ SetJob(j, "completed", "completed")
  /\ \/ /\ j \in Generation
        /\ \E outcome \in {"complete", "partial"} :
             exam' = [exam EXCEPT ![j] = [status |-> outcome, author |-> g]]
        /\ UNCHANGED doc
     \/ /\ j \in Ingestion /\ doc[j].active = "job"
        /\ doc' = [doc EXCEPT ![j].status = "ready", ![j].author = g]
        /\ UNCHANGED exam

rows == <<job, exam, doc>>

-----------------------------------------------------------------------------
(* The HTTP request that created the job, and its user.                    *)

\* create_document_with_job or create_generation_job has just committed.
Init ==
  /\ job = [j \in Jobs |-> [status |-> "queued", stage |-> "queued",
                            attempt |-> 0, gen |-> 0, heartbeat |-> "none"]]
  /\ exam = [j \in Generation |-> [status |-> "queued", author |-> 0]]
  /\ doc = [j \in Ingestion |->
              [status |-> "queued", active |-> "none", author |-> 0]]
  /\ chunks = [j \in Ingestion |-> 0]
  /\ inbox = [j \in Jobs |-> [r \in Retries |-> 0]]
  /\ worker = [w \in Workers |-> Idle]
  /\ api = [j \in Jobs |-> "enqueue"]
  /\ sweep = [j \in Jobs |-> "idle"]
  /\ requeue = [j \in Jobs |-> 0]
  /\ faults = 0

ApiEnqueue(j) ==
  /\ api[j] = "enqueue"
  /\ Send(j, 0)
  /\ api' = [api EXCEPT ![j] = "mark"]
  /\ UNCHANGED <<rows, chunks, worker, sweep, requeue, faults>>

\* Mutant: the mark does not look at the status of the job.
MarkAnyStatus(j) == job' = [job EXCEPT ![j].stage = "dispatched"]

\* mark_job_dispatched changes nothing once a worker has claimed the job.
MarkDispatched(j) ==
  job' = IF job[j].status = "queued" /\ job[j].stage = "queued"
           THEN [job EXCEPT ![j].stage = "dispatched"] ELSE job

ApiMark(j) ==
  /\ api[j] = "mark"
  /\ MarkDispatched(j)
  /\ api' = [api EXCEPT ![j] = "done"]
  /\ UNCHANGED <<exam, doc, chunks, inbox, worker, sweep, requeue, faults>>

\* The request fails before or after the message is sent.  The generation
\* route then calls fail_job without a generation, which only takes a queued
\* job; the upload route leaves the job to the sweep, as does a process crash.
ApiFails(j) ==
  /\ api[j] # "done"
  /\ Fault("enqueue")
  /\ api' = [api EXCEPT ![j] = "done"]
  /\ \/ j \in Generation /\ job[j].status = "queued" /\ FailRow(j)
     \/ UNCHANGED rows
  /\ UNCHANGED <<chunks, inbox, worker, sweep, requeue>>

\* Mutant: cancel_job does not look at the status of the job.
CancelAnyStatus(j) ==
  /\ SetJob(j, "cancelled", "cancelled")
  /\ SetExam(j, "cancelled")
  /\ doc' = IF j \in Ingestion THEN [doc EXCEPT ![j].status = "cancelled"] ELSE doc
  /\ UNCHANGED <<chunks, inbox, worker, api, sweep, requeue, faults>>

Cancel(j) ==
  /\ job[j].status \in Open
  /\ SetJob(j, "cancelled", "cancelled")
  /\ SetExam(j, "cancelled")
  /\ doc' = IF j \in Ingestion /\ doc[j].status \in {"queued", "processing"}
              THEN [doc EXCEPT ![j].status = "cancelled", ![j].active = "none"]
              ELSE doc
  /\ UNCHANGED <<chunks, inbox, worker, api, sweep, requeue, faults>>

\* terminate_job revokes the task: the process running it gets a SIGTERM.  A
\* message still in the broker is either discarded or claimed in vain (Claim).
Terminate(w) ==
  /\ worker[w].pc # "idle"
  /\ job[worker[w].job].status = "cancelled"
  /\ Ack(w)
  /\ UNCHANGED <<rows, chunks, inbox, api, sweep, requeue, faults>>

\* The cleanup_cancelled_document task terminate_job sends: not fenced.
CleanupCancelled(j) ==
  /\ j \in Ingestion /\ job[j].status = "cancelled"
  /\ chunks' = [chunks EXCEPT ![j] = 0]
  /\ UNCHANGED <<rows, inbox, worker, api, sweep, requeue, faults>>

-----------------------------------------------------------------------------
(* The beat tasks.                                                         *)

\* Mutant: the sweep only looks for ingestion jobs.
SweepIngestions(j) ==
  /\ sweep[j] = "idle" /\ j \in Ingestion
  /\ job[j].status = "queued" /\ job[j].stage = "queued"
  /\ sweep' = [sweep EXCEPT ![j] = "publish"]
  /\ UNCHANGED <<rows, chunks, inbox, worker, api, requeue, faults>>

\* dispatch_undispatched_jobs reads its list, then publishes and marks each.
SweepList(j) ==
  /\ sweep[j] = "idle"
  /\ job[j].status = "queued" /\ job[j].stage = "queued"
  /\ sweep' = [sweep EXCEPT ![j] = "publish"]
  /\ UNCHANGED <<rows, chunks, inbox, worker, api, requeue, faults>>

SweepPublish(j) ==
  /\ sweep[j] = "publish"
  /\ Send(j, 0)
  /\ sweep' = [sweep EXCEPT ![j] = "mark"]
  /\ UNCHANGED <<rows, chunks, worker, api, requeue, faults>>

SweepMark(j) ==
  /\ sweep[j] = "mark"
  /\ MarkDispatched(j)
  /\ sweep' = [sweep EXCEPT ![j] = "idle"]
  /\ UNCHANGED <<exam, doc, chunks, inbox, worker, api, requeue, faults>>

SweepFails(j) ==
  /\ sweep[j] # "idle"
  /\ Fault("sweep")
  /\ sweep' = [sweep EXCEPT ![j] = "idle"]
  /\ UNCHANGED <<rows, chunks, inbox, worker, api, requeue>>

\* Mutant: recovery leaves alone the jobs that have no attempt left.
RecoverOnlyRetryable(j) ==
  /\ job[j].status = "running" /\ job[j].heartbeat = "old"
  /\ job[j].attempt < MaxAttempts(j)
  /\ SetJob(j, "retrying", "retrying")
  /\ SetExam(j, "retrying")
  /\ requeue' = [requeue EXCEPT ![j] = @ + 1]
  /\ UNCHANGED <<doc, chunks, inbox, worker, api, sweep, faults>>

\* repositories.recover_stale_jobs: committed before anything is published.
RecoverStale(j) ==
  /\ job[j].status = "running" /\ job[j].heartbeat = "old"
  /\ IF job[j].attempt < MaxAttempts(j)
       THEN /\ SetJob(j, "retrying", "retrying")
            /\ SetExam(j, "retrying")
            /\ UNCHANGED doc
            /\ requeue' = [requeue EXCEPT ![j] = @ + 1]
       ELSE FailRow(j) /\ UNCHANGED requeue
  /\ UNCHANGED <<chunks, inbox, worker, api, sweep, faults>>

RequeuePublish(j) ==
  /\ requeue[j] > 0
  /\ Send(j, 0)
  /\ requeue' = [requeue EXCEPT ![j] = @ - 1]
  /\ UNCHANGED <<rows, chunks, worker, api, sweep, faults>>

\* apply_async raises or the beat task dies: the rest of its list is gone,
\* since a redelivered recover_stale_jobs only looks at running jobs.
RequeueFails ==
  /\ \E j \in Jobs : requeue[j] > 0
  /\ Fault("requeue_publish")
  /\ requeue' = [j \in Jobs |-> 0]
  /\ UNCHANGED <<rows, chunks, inbox, worker, api, sweep>>

\* JOB_STALE_AFTER_SECONDS pass without a heartbeat.  The worker may be dead,
\* or alive and cut off from the database.
HeartbeatExpires(j) ==
  /\ job[j].status = "running" /\ job[j].heartbeat = "recent"
  /\ job' = [job EXCEPT ![j].heartbeat = "old"]
  /\ UNCHANGED <<exam, doc, chunks, inbox, worker, api, sweep, requeue, faults>>

-----------------------------------------------------------------------------
(* The executions of ingest_document and generate_exam.                    *)

Receive(w, j, r) ==
  /\ worker[w].pc = "idle" /\ inbox[j][r] > 0
  /\ inbox' = [inbox EXCEPT ![j][r] = @ - 1]
  /\ worker' = [worker EXCEPT ![w] =
                  [pc |-> "claiming", job |-> j, retries |-> r, gen |-> 0]]
  /\ UNCHANGED <<rows, chunks, api, sweep, requeue, faults>>

\* claim_job returns the row, or None and the task returns at once.
Claim(w) ==
  LET j == worker[w].job IN
  /\ worker[w].pc = "claiming"
  /\ IF job[j].status \in Claimable
       THEN /\ ClaimRow(j)
            /\ worker' = [worker EXCEPT ![w].pc = "working",
                                        ![w].gen = job[j].gen + 1]
       ELSE Ack(w) /\ UNCHANGED rows
  /\ UNCHANGED <<chunks, inbox, api, sweep, requeue, faults>>

\* claim_job raises: it is called outside the task's try block, so the task
\* fails and its message is acknowledged with the job as it was.
ClaimUnavailable(w) ==
  /\ worker[w].pc = "claiming"
  /\ Fault("claim_unavailable")
  /\ Ack(w)
  /\ UNCHANGED <<rows, chunks, inbox, api, sweep, requeue>>

\* claim_job commits and its reply is lost: on_failure has no generation to
\* fail the job with, so the job runs with nobody working on it.
ClaimReplyLost(w) ==
  LET j == worker[w].job IN
  /\ worker[w].pc = "claiming" /\ job[j].status \in Claimable
  /\ Fault("claim_reply_lost")
  /\ ClaimRow(j)
  /\ Ack(w)
  /\ UNCHANGED <<chunks, inbox, api, sweep, requeue>>

\* update_job_progress, or StaleJobExecution and the execution is superseded.
Progress(w) ==
  LET j == worker[w].job IN
  /\ worker[w].pc \in {"working", "indexed"}
  /\ IF Owns(w)
       THEN /\ job' = [job EXCEPT ![j].stage = "working", ![j].heartbeat = "recent"]
            /\ exam' = IF j \in Generation
                         /\ exam[j].status \in {"queued", "running", "retrying"}
                         THEN [exam EXCEPT ![j].status = "running"] ELSE exam
            /\ UNCHANGED <<doc, worker>>
       ELSE Ack(w) /\ UNCHANGED rows
  /\ UNCHANGED <<chunks, inbox, api, sweep, requeue, faults>>

\* The heartbeat thread lives as long as the pipeline, not through the final
\* transaction.  When it finds itself stale it stops, the pipeline does not.
Heartbeat(w) ==
  LET j == worker[w].job IN
  /\ worker[w].pc \in {"working", "indexed"} /\ Owns(w)
  /\ job' = [job EXCEPT ![j].heartbeat = "recent"]
  /\ UNCHANGED <<exam, doc, chunks, inbox, worker, api, sweep, requeue, faults>>

\* ChunkStore.replace_document, under the row locks of job and document.
IndexChunks(w) ==
  LET j == worker[w].job IN
  /\ worker[w].pc = "working" /\ j \in Ingestion
  /\ IF Owns(w) /\ doc[j].active = "job"
       THEN /\ chunks' = [chunks EXCEPT ![j] = worker[w].gen]
            /\ Goto(w, "indexed")
       ELSE Ack(w) /\ UNCHANGED chunks
  /\ UNCHANGED <<rows, inbox, api, sweep, requeue, faults>>

\* The last job_is_cancelled before the final transaction.
CheckCancelled(w) ==
  /\ \/ worker[w].pc = "indexed"
     \/ worker[w].pc = "working" /\ worker[w].job \in Generation
  /\ IF Owns(w) THEN Goto(w, "finishing") ELSE Ack(w)
  /\ UNCHANGED <<rows, chunks, inbox, api, sweep, requeue, faults>>

\* complete_*_job publishes, or finds the claim superseded and returns False.
\* A lost reply changes nothing more: retry_job or fail_job is then refused,
\* and so is on_failure.
Complete(w) ==
  /\ worker[w].pc = "finishing"
  /\ IF Owns(w) THEN PublishRow(worker[w].job, worker[w].gen) ELSE UNCHANGED rows
  /\ Ack(w)
  /\ UNCHANGED <<chunks, inbox, api, sweep, requeue, faults>>

\* An exception the handlers do not retry, a time limit, or an exception that
\* escapes the task and is left to TrackedJobTask.on_failure.
Fail(w) ==
  /\ worker[w].pc \in Executing
  /\ IF Owns(w) THEN FailRow(worker[w].job) ELSE UNCHANGED rows
  /\ Ack(w)
  /\ UNCHANGED <<chunks, inbox, api, sweep, requeue, faults>>

\* An exception the handlers retry: retry_job commits, then Celery publishes.
Retry(w) ==
  /\ worker[w].pc \in Executing
  /\ worker[w].retries < MaxRetries(worker[w].job)
  /\ IF Owns(w) THEN RetryRow(worker[w].job) /\ Goto(w, "retrying")
                ELSE Ack(w) /\ UNCHANGED rows
  /\ UNCHANGED <<chunks, inbox, api, sweep, requeue, faults>>

\* Mutant: the retry is published with the count of its message.
RetryUncounted(w) ==
  /\ worker[w].pc = "retrying"
  /\ Send(worker[w].job, worker[w].retries)
  /\ Ack(w)
  /\ UNCHANGED <<rows, chunks, api, sweep, requeue, faults>>

\* Celery publishes the retry, with the count that max_retries bounds.
RetryPublish(w) ==
  /\ worker[w].pc = "retrying"
  /\ Send(worker[w].job, worker[w].retries + 1)
  /\ Ack(w)
  /\ UNCHANGED <<rows, chunks, api, sweep, requeue, faults>>

\* Celery turns a failed publication of the retry into Reject(requeue=False).
RetryPublishFails(w) ==
  /\ worker[w].pc = "retrying"
  /\ Fault("retry_publish")
  /\ Ack(w)
  /\ UNCHANGED <<rows, chunks, inbox, api, sweep, requeue>>

\* retry_job commits but raises: the exception escapes, and on_failure finds
\* a job that is not running.
RetryReplyLost(w) ==
  /\ worker[w].pc \in Executing /\ Owns(w)
  /\ worker[w].retries < MaxRetries(worker[w].job)
  /\ Fault("retry_reply_lost")
  /\ RetryRow(worker[w].job)
  /\ Ack(w)
  /\ UNCHANGED <<chunks, inbox, api, sweep, requeue>>

\* The handler's own transaction fails, and on_failure's after it.
HandlerUnavailable(w) ==
  /\ worker[w].pc \in Executing
  /\ Fault("handler_unavailable")
  /\ Ack(w)
  /\ UNCHANGED <<rows, chunks, inbox, api, sweep, requeue>>

\* Mutant: without task_reject_on_worker_lost the message dies with the worker.
WorkerLostAcknowledged(w) ==
  /\ worker[w].pc # "idle"
  /\ Fault("worker_lost")
  /\ Ack(w)
  /\ UNCHANGED <<rows, chunks, inbox, api, sweep, requeue>>

\* The process dies: task_reject_on_worker_lost puts the message back.
WorkerLost(w) ==
  /\ worker[w].pc # "idle"
  /\ Fault("worker_lost")
  /\ Send(worker[w].job, worker[w].retries)
  /\ Ack(w)
  /\ UNCHANGED <<rows, chunks, api, sweep, requeue>>

\* generate_exam alone has a hard time_limit: the message is acknowledged.
TimeLimit(w) ==
  /\ worker[w].pc \in Executing /\ worker[w].job \in Generation
  /\ Fault("time_limit")
  /\ Ack(w)
  /\ UNCHANGED <<rows, chunks, inbox, api, sweep, requeue>>

-----------------------------------------------------------------------------
JobStep(j) ==
  \/ ApiEnqueue(j) \/ ApiMark(j) \/ ApiFails(j) \/ Cancel(j)
  \/ CleanupCancelled(j)
  \/ SweepList(j) \/ SweepPublish(j) \/ SweepMark(j) \/ SweepFails(j)
  \/ RecoverStale(j) \/ RequeuePublish(j) \/ HeartbeatExpires(j)

WorkerStep(w) ==
  \/ \E j \in Jobs, r \in Retries : Receive(w, j, r)
  \/ Claim(w) \/ ClaimUnavailable(w) \/ ClaimReplyLost(w)
  \/ Progress(w) \/ Heartbeat(w) \/ IndexChunks(w) \/ CheckCancelled(w)
  \/ Complete(w) \/ Fail(w) \/ Retry(w) \/ RetryPublish(w)
  \/ RetryPublishFails(w) \/ RetryReplyLost(w) \/ HandlerUnavailable(w)
  \/ WorkerLost(w) \/ TimeLimit(w) \/ Terminate(w)

Next == (\E j \in Jobs : JobStep(j)) \/ (\E w \in Workers : WorkerStep(w))
          \/ RequeueFails

Spec == Init /\ [][Next]_vars

\* The scheduling the deployment gives: the request thread goes on, beat runs
\* its tasks every 30 and 60 seconds, an idle worker takes messages, a stage
\* ends (its calls carry timeouts), and time passes for a job nobody beats.
Abandoned(j) == \A w \in Workers : ~(worker[w].job = j /\ Owns(w))

Fairness ==
  /\ \A j \in Jobs :
       /\ WF_vars(ApiEnqueue(j)) /\ WF_vars(ApiMark(j))
       /\ WF_vars(SweepList(j)) /\ WF_vars(SweepPublish(j))
       /\ WF_vars(SweepMark(j))
       /\ WF_vars(RecoverStale(j)) /\ WF_vars(RequeuePublish(j))
       /\ WF_vars(HeartbeatExpires(j) /\ Abandoned(j))
  /\ \A j \in Jobs, r \in Retries :
       WF_vars(\E w \in Workers : Receive(w, j, r))
  /\ \A w \in Workers :
       /\ WF_vars(Claim(w)) /\ WF_vars(IndexChunks(w))
       /\ WF_vars(CheckCancelled(w)) /\ WF_vars(Complete(w))
       /\ WF_vars(RetryPublish(w))

FairSpec == Spec /\ Fairness

-----------------------------------------------------------------------------
(* Properties.                                                             *)

Row == [status : Open \cup Final,
        stage : Open \cup Final \cup {"dispatched", "starting", "working"},
        attempt : Nat, gen : Nat, heartbeat : {"none", "recent", "old"}]

ExamRow == [status : Open \cup {"complete", "partial", "failed", "cancelled"},
            author : Nat]

DocRow == [status : {"queued", "processing", "ready", "failed", "cancelled"},
           active : {"none", "job"}, author : Nat]

Execution == [pc : Executing \cup {"idle", "claiming", "retrying"},
              job : Jobs \cup {NoJob}, retries : Retries, gen : Nat]

WorkersOK ==
  /\ worker \in [Workers -> Execution]
  /\ \A w \in Workers :
       /\ worker[w].pc # "idle" => worker[w].job \in Jobs
       /\ worker[w].pc = "retrying" => worker[w].retries < 2

\* Every table, queue and execution holds values the schema and the code allow.
TypeOK ==
  /\ job \in [Jobs -> Row]
  /\ exam \in [Generation -> ExamRow]
  /\ doc \in [Ingestion -> DocRow]
  /\ chunks \in [Ingestion -> Nat]
  /\ inbox \in [Jobs -> [Retries -> Nat]]
  /\ WorkersOK
  /\ api \in [Jobs -> {"enqueue", "mark", "done"}]
  /\ sweep \in [Jobs -> {"idle", "publish", "mark"}]
  /\ requeue \in [Jobs -> Nat]
  /\ faults \in Nat

\* What a status of the jobs table means for the row it drives.
ExamStatuses(status) ==
  IF status = "completed" THEN {"complete", "partial"} ELSE {status}

DocStatus(status) ==
  CASE status = "queued"                 -> "queued"
    [] status \in {"running", "retrying"} -> "processing"
    [] status = "completed"              -> "ready"
    [] OTHER                             -> status

\* A poller that reads the exams or documents row never sees a state the job
\* contradicts: the two rows are driven by different statements of a dozen
\* transactions, some guarded by status, some not.
RowsAgree ==
  /\ \A j \in Generation : exam[j].status \in ExamStatuses(job[j].status)
  /\ \A j \in Ingestion : doc[j].status = DocStatus(job[j].status)

\* Whatever executions overlap, an exam or a document is published by the
\* last claim only, and the chunks retrieval will read are that claim's.
PublishedByLastClaim ==
  /\ \A j \in Generation :
       exam[j].author # 0 => /\ job[j].status = "completed"
                             /\ exam[j].author = job[j].gen
  /\ \A j \in Ingestion :
       doc[j].author # 0 => /\ job[j].status = "completed"
                            /\ doc[j].author = job[j].gen
                            /\ chunks[j] = job[j].gen

\* Two executions of a job never hold the same claim, so a fence that passes
\* names one execution.
ClaimsDistinct ==
  \A v, w \in Workers :
    /\ worker[v].pc \in Executing /\ worker[w].pc \in Executing
    /\ worker[v].job = worker[w].job /\ worker[v].gen = worker[w].gen
    => v = w

\* Something still carries a job that waits to be claimed: a message, an
\* execution that will claim it or publish its retry, the request, or a sweep.
Carried(j) ==
  \/ \E r \in Retries : inbox[j][r] > 0
  \/ \E w \in Workers : /\ worker[w].job = j
                        /\ worker[w].pc \in {"claiming", "retrying"}
  \/ api[j] = "enqueue" \/ sweep[j] = "publish" \/ requeue[j] > 0
  \/ job[j].stage = "queued"

\* Unless one of the lossy faults is possible, a job that is queued or
\* retrying is never forgotten: nothing sweeps a job that is retrying, or one
\* that is queued and marked dispatched.
NeverForgotten ==
  Faults \cap LossyFaults = {} =>
    \A j \in Jobs : job[j].status \in Claimable => Carried(j)

\* A finished job stays as it finished, and so does what it published.
FinalIsFinal ==
  [][\A j \in Jobs : job[j].status \in Final =>
       /\ job'[j] = job[j]
       /\ j \in Generation => exam'[j] = exam[j]
       /\ j \in Ingestion => doc'[j] = doc[j]]_vars

\* The claims that executions hold were issued, and once: what makes a fence
\* that passes name the execution that passed it.
ClaimsIssued ==
  \A w \in Workers : worker[w].pc \in Executing =>
    1 <= worker[w].gen /\ worker[w].gen <= job[worker[w].job].gen

\* An owner that has indexed its chunks finds them there when it publishes.
ChunksKept ==
  \A w \in Workers :
    /\ worker[w].pc \in {"indexed", "finishing"}
    /\ worker[w].job \in Ingestion /\ Owns(w)
    => chunks[worker[w].job] = worker[w].gen

\* The inductive invariant: what every reachable state satisfies and every
\* step keeps, whatever the faults.
Inv == /\ TypeOK /\ RowsAgree /\ PublishedByLastClaim /\ ClaimsDistinct
       /\ ClaimsIssued /\ ChunksKept

\* Whatever fault strikes, no job is shown as running for ever: it is finished,
\* retried, cancelled, or recovered once its heartbeat is old.
RunningEnds == \A j \in Jobs : job[j].status = "running" ~> job[j].status # "running"

\* Every job is settled in the end, whichever faults strike it, unless they leave
\* it with nothing that carries it (which NeverForgotten says only the lossy ones do).
Settles ==
  \A j \in Jobs :
    <>(job[j].status \in Final \/ (job[j].status \in Claimable /\ ~Carried(j)))

\* A job is never claimed without end, although the retries Celery counts in
\* the message and the attempts the jobs table counts know nothing of each
\* other: a recovered job starts with fresh retries, a duplicate message too.
ClaimsBounded ==
  \A j \in Jobs :
    job[j].gen <= MaxRetries(j) * (2 + faults) + MaxAttempts(j)

-----------------------------------------------------------------------------
(* The abstract job this module implements.                                *)

Phase(status) == IF status \in Claimable THEN "waiting" ELSE status

Promise == INSTANCE JobPromise WITH
  phase  <- [j \in Jobs |-> Phase(job[j].status)],
  runs   <- [j \in Jobs |-> job[j].gen],
  author <- [j \in Jobs |-> IF j \in Generation THEN exam[j].author
                                                ELSE doc[j].author]

\* Executions, duplicates, recoveries and cancellations add up to a job that
\* ends once and shows the work of its last run, or none.
KeepsPromise == Promise!Spec
=============================================================================
