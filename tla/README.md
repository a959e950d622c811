# DraftWork: a verification project

DraftWork ("GenExam") turns an uploaded PDF into exams. A FastAPI server keeps
sessions, documents, jobs and exams in PostgreSQL; a Celery worker behind Redis
ingests documents and generates exams with a graph of language-model stages; a
JavaScript frontend polls the jobs. This directory holds TLA+ models of the
parts of it whose correctness depends on interleavings, crashes, lost messages,
budgets and stale reads, the TLC configurations that check them, and TLAPS
proofs.

## 1. The system

| Part | Source | State | Operations | What is hard | Module |
|---|---|---|---|---|---|
| Job store | `api/repositories.py`, `migrations/002_*.sql` | rows of `jobs`, `documents`, `exams` | create, claim, progress, heartbeat, retry, complete, fail, cancel, recover | two executions of one job; three rows that must agree; a fence by `claim_generation` | `JobLifecycle` |
| Worker tasks | `jobs/tasks.py` | a program counter per execution | `ingest_document`, `generate_exam`, `on_failure`, beat tasks | transactions separated by long stages; exceptions inside handlers | `JobLifecycle`, `Checkpoints` |
| Dispatch | `jobs/service.py`, `celery_app.py` | Redis queue | enqueue, terminate | at-least-once delivery, redelivery of a lost worker's message, publication outside the transaction | `JobLifecycle` |
| Checkpoints | `tasks.py` `_CheckpointWriter`, `repositories.py`, `online/graph.py` | `exam_audit_events`, `checkpoint_revision` | append, load, replay, route a resumed graph | late writers, lost replies, a resume that pays again | `Checkpoints` |
| Documents and cleanup | `cleanup.py`, `file_storage/local.py`, `offline/chunk_store.py` | files, rows, chunks | upload, retention sweep, expiry, purge | files against rows that appear or go meanwhile | `Documents` |
| Sessions, admission, retrieval | `api/middleware.py`, `job_routes.py`, `repositories.py`, `online/retrieval.py` | sessions, cookies, idempotency records, the `session_id` of chunks | attach, admit, enqueue, read chunks, backfill | requests of one browser at once; a session claimed, revoked or deleted between two reads | `Intake` |
| Ingestion pipeline | `offline/pipeline.py`, `processed_cache.py`, `semantic_chunker.py`, `title_generator.py` | files by document key | clean, chunk, verify, title, cache, store | nothing of the text may be lost by a dozen passes over it; shared keys | `Chunking`, `Structure` |
| Catalog, planner, difficulty | `online/assessment_catalog.py`, `planner.py`, `difficulty_adjustment.py` | catalog, plans | allocate, review, adjust, repair, route | four reviewers of one plan that must agree; bounded attempts | `Allocation`, `Planning` |
| Generation of one exam | `online/exam_builder.py` | a thread per slot, shared plans | generate, replace, collect, ask again | pool threads change shared plans without a lock | `ExamPool` |
| Review and repair | `online/validator.py`, `multi_repair.py`, `duplicate_pipeline.py`, `lifecycle.py`, `graph.py` | verdicts, manifest, candidates, budgets | review, commit, balance, scan, repair, replace, route | budgets that must end the loops; verdicts that outlive their question | `ExamReview` |
| LLM layer | `llm/*`, `online/deepseek.py`, `openai_client.py`, `deadlines.py` | permits, cooldowns, blocked accounts | a call with its retries | permits over exceptions, pauses read too early | `Calls` |
| Catalog batches, role reviews | `assessment_catalog.py`, `multi_validator.py` | caches on disk and in the process | compile, merge, review, ask again | partial failure in a pool; a pass for the wrong text | `CatalogBuild`, `RoleReview` |
| Frontend | `FrontEnd/js/*.js` | page state, `sessionStorage` | upload, remove, restore, select, generate, stop, poll | every `await` lets the user and other handlers go on | `Page` |
| Exports, statistics, configuration | see `PROJECT.json` | | | reads and formatting | none |

How they interact: the page posts an upload or a generation under an idempotency
key; the middleware finds the session, the route writes rows in one transaction
and then publishes a message. The worker takes a message, claims the job by a
transaction that raises `claim_generation`, and every later transaction of that
execution is fenced by it. An ingestion runs the pipeline and stores chunks and
structure; a generation reads the chunks, compiles a catalog, plans, generates,
reviews and repairs, and appends a checkpoint after each stage. Every language
model call passes the job's gate. The beat tasks repair what a crash leaves
behind, and sweep what is old; cancellation writes rows from the server and
terminates the task. The rows are the only state processes share: nothing is
decided by the queue.

`PROJECT.json` lists every component with its status, and under `hazards` the
lines at which each difficulty bites with the property that covers it.

## 2. Plan

Order: what decides whether a user gets the right exam first.

1. `JobLifecycle`, implementing `JobPromise`: done, proved.
2. `Checkpoints`, implementing `JobPromise`: done, proved.
3. `Documents`: done, proved.
4. `Planning` on `Allocation`: the loops and budgets of planning: done, the gate, the
   repairs and the bound on the loops proved.
5. `ExamPool` on `ExamReview`: one exam from its plan to its assembly: done, its
   safety proved.
6. `RoleReview` on `CatalogBuild` on `Calls`: the gate, pauses, pools: done, its safety
   proved.
7. `Structure` on `Chunking`: ingestion from text to stored chunks: done, what is cut
   and what is kept proved.
8. `Intake`: sessions, admission and retrieval: done, proved.
9. `Page`: the browser: done, proved.

Left to prove: `NothingMissing` of `Structure`, that no pass loses or moves a sentence
(`PlanningProofs` has the lemmas on each pass it would rest on).
Refinements worth stating: `ExamPool` and `ExamReview` implement the step
`GenerateModel` and the loops of `Checkpoints`; the job row of `Documents`
and of `Intake` implements `JobPromise`.

## 3. The models and the code

### JobLifecycle (and JobPromise)

`JobLifecycle` is the job seen by everything that can touch it.

| Variable | Code |
|---|---|
| `job[j]` | the row of `jobs`: `status`, `stage`, `attempt_count`, `claim_generation`, `heartbeat_at` (none, recent, older than the stale limit) |
| `exam[j]`, `doc[j]`, `chunks[j]` | `exams.status`, `documents.status` and `active_job_id`, the rows of `document_chunks`; content is abstracted to its `author`, the claim that wrote it |
| `inbox[j][r]` | ready Celery messages of the job with `request.retries = r`, a bag without order |
| `worker[w]` | one execution: program counter, job, `request.retries`, `claim_generation` it got |
| `api[j]` | what the creating request has left to do: enqueue, mark dispatched |
| `sweep[j]`, `requeue[j]` | the same for the two beat tasks, whose commit and publication are separate |

A repository function is one transaction and so one action; a task is a
sequence of them. `Receive` takes a message without removing the job from
anyone else's reach: with `acks_late` the message is acknowledged when the
execution ends (`Ack`) and comes back when the worker process is lost
(`WorkerLost`). `Claim` is `claim_job`, `Progress` stands for
`update_job_progress` with its stop when the fence refuses, `IndexChunks` is
`chunk_store.replace_document`, `CheckCancelled` the read of `job_is_cancelled`
before the final transaction, `Complete`, `Fail` and `Retry` the three ways an
execution ends its job. `ClaimUnavailable`, `ClaimReplyLost`, `RetryPublishFails`,
`RetryReplyLost`, `HandlerUnavailable`, `WorkerLost`, `TimeLimit`, `ApiFails`,
`SweepFails`, `RequeueFails` are the error paths, each spending one fault.
`RecoverStale` is `recover_stale_jobs` for one job (the function's loop commits
them together, but they share no row).

`JobPromise` is what the user is promised: the job waits, runs some number of
times, ends once, and shows the work of its last run or none. `KeepsPromise` maps
`queued` and `retrying` to waiting, `claim_generation` to the number of runs and
the exam's or document's author to what is shown.

### Checkpoints

One generation job and its executions, from `claim_job` to the final
transaction.

| Variable | Code |
|---|---|
| `row` | `jobs.status`, `claim_generation`, `checkpoint_revision` |
| `log` | the `exam_audit_events` that have a `checkpoint_revision`, with the claim that wrote each |
| `exec[w]` | the task and its graph: node (`pc`), claim (`gen`), `_CheckpointWriter.revision` (`rev`), the graph state as a set of facts (`done`), the model being generated (`model`), events of the node not yet written (`pending`), the node that follows (`next`), passes through the loops (`rounds`) |
| `faults` | database outages so far |

The graph state is a dictionary of some sixty keys. The model keeps which of the
expensive things are in it: retrieved chunks, compiled catalog, plans, and for
each model its complete set of questions. Every node is an action (`Retrieve`,
`CompileCatalog`, `Plan`, ...) that reports its progress (which a superseded
execution is refused, `Superseded`), runs, and leaves its audit events to
`AppendEvent`, one transaction each. `Resume` is `_route_after_receive`. The
routing functions' budgets are abstracted to a choice within `MaxRounds`.
`GenerateModel` keeps one detail of `generate_exams_node`: the checkpoint of a
model is written before its shortfall is made good, so the checkpoint may lack
what the state has. How the job is given to executions is `JobLifecycle`'s
matter; here `Recover` and `GiveUp` may happen at any time, and both modules
implement the same `JobPromise`, which is how they are composed.

### Documents

An uploaded document against the four parties that write and delete it without
a common lock: the upload route, the ingestion task, cancellation with its
clean-up task, and the hourly retention sweep.

| Variable | Code |
|---|---|
| `session[s]` | the row of `sessions`: live, past `expires_at`, or deleted |
| `doc[d]` | the row of `documents`: `status`; whether `updated_at` is older than the abandonment limit (`aged`); whether `active_index_job_id` names the ingestion job (`indexed`) |
| `job[d]` | the row of `jobs` of its ingestion: `status`, `attempt_count` |
| `chunks`, `source`, `structure` | documents with rows in `document_chunks`, with `source.pdf`, with `structure.json` |
| `upload[d]`, `work[d]`, `purge[d]` | what `create_document`, `ingest_document` and `cleanup_cancelled_document` have done |
| `sweep` | `run_cleanup`: its place (`pc`), the documents picked and not yet deleted (`todo`), the one being deleted (`at`), the rows read (`scopes`) and the orphans listed (`orphans`) |
| `excused` | history: documents that one of three known races has touched |

A transaction or a storage call is one action, so every gap the code has between
two of them is a gap of the model: the file stored before its row
(`StoreFile`, `CreateRow`), chunks, structure and completion of an ingestion
(`IndexChunks`, `StoreStructure`, `Complete`), the pick of the sweep and its three
deletions (`Pick`, `SweepChunks`, `SweepFiles`, `Mark`), the rows read and the
files listed (`ReadScopes`, `ListOrphans`). Time is two facts that may become true
at any moment the code allows: `Age` and `Expire`.

`excused` guards nothing and is read only by properties. It is set at the three
places where the code lets a document in use lose what it needs, so that
`SourceKept` and `ReadyUsable` say that nothing else can: the orphan scan
overlapping an upload (finding 3), the sweep's pick of a document whose job is
still active (finding 4), and the route deleting the file of a committed row when
the database is lost after the commit (`WithdrawFile`, `job_routes.py:287-295`;
such a job fails for want of its source).

`ShortRetention` is a deployment in which `TERMINAL_JOB_RETENTION_DAYS` is less
than the session's life. The settings do not exclude it. Deleting the job row
then sets `documents.active_index_job_id` to null (`ON DELETE SET NULL`), and
generation, which selects chunks by `str(active_index_job_id)` (`tasks.py:509`),
would find none: `ReadyIndexed`, the second half of `ReadyUsable`, holds only
without it, and is stated so.

Left out: a second execution of the same job (`JobLifecycle` is about that),
exports, diagnostic files, and the generation of exams.

### Allocation and Planning

`Allocation` has the algorithms as operators: what a slot may be given, how a
candidate is scored, the bipartite matching of slots to the knowledge of the
document (augmenting paths, as in the code), the choices that follow it, reuse
with its contract, and the review of a plan. `Planning` is the graph around them.

| Variable | Code |
|---|---|
| `cat`, `request` | the compiled catalog, and what was asked; chosen at the start |
| `order` | the order in which Python visits a set of question types, another in each process |
| `plan` | `plans`: the task and variation of each slot, its difficulty, its reuse contract |
| `errors`, `attempts` | `plan_errors`, `plan_attempts` of the graph state |
| `tries`, `failed` | adjustment attempts per slot; candidates refused to a slot |
| `stage`, `resumes` | the node; executions that stopped between two nodes |

Nodes are actions: `PlanExams`, `Adjust`, `RepairPlan`, the gate in front of
generation (`Generate`), and a restart from the persisted plan (`Resume`). Where the code
loops over slots, candidates or question types the model folds over a sequence, and
the body of the loop is an operator of its own (`Materialize`, `Visit`, `TryVariation`,
`TryTask`, `Repaired`, `FallBack`), which is also what the proofs speak of. `MostFamilies` is a
reference definition of what the matching computes: the largest number of
families any assignment reaches.

### ExamReview and ExamPool

`ExamPool` generates one exam: a thread per slot of the pool, each with its
attempts, the replacement of an unsuitable multiple-choice task (`plan` is read,
searched and written in three steps, as the threads of the pool interleave), and
the sequential pass over what is missing. `ExamReview`, which it extends, takes the
exam through the rounds: review and commit of candidates, answer balancing,
whole-exam review, the scan for duplicates, the route, repairs, regenerations
and replacements.

| Variable | Code |
|---|---|
| `plan[s]`, `items[s]` | the shared plans, and `plan_items`, the second copy that recovery starts from |
| `question[s]`, `verdict[s]` | the active question; the report on it, with the text and task it is about |
| `target[s]` | the entry of `repair_manifest`: status, duplicate, action |
| `cand[s]`, `work[s]`, `seed[s]`, `memory` | `repair_candidates`, working candidates, retry seeds, `repair_replacement_memory` |
| `budget[s]` | failures, duplicate replacements, calls, completions, assignments spent on the slot |
| `record[s]` | what `slot_lifecycle` keeps from one node to the next: passed, failed, the last status in the manifest |
| `node`, `todo` | the node and the slots it has still to visit |
| `accepted` | the slots the assembled exam counts |
| `raced`, `trouble` | history; bound |

A question is the task it asks and one of a few texts: what the properties tell
apart is whether a verdict is about this question and this task.

Two simplifications. Findings of one `failure_code` ask for the same
fixes, so the input of a repair (`repair_input_fingerprint`) is the staged exam, the code, the
strategy and the two lists of candidates. Of `final_integrity_error` the model has what
compares a candidate with the question, the assignment and its own
fingerprint; a repair whose metadata does not list the fields it changed, which would
reject the candidate, is not. The retries of a candidate that waits for reviewers are
counted by role in the code, and here is the largest of these counts.

### Calls, CatalogBuild and RoleReview

`Calls` is one call of a language model, `request_structured` to answer: gate,
cooldown, socket, transport retries, structured retries, blocked accounts and the
deadline. `CatalogBuild` puts under it the pool that compiles a catalog in
batches, each kept on disk; `RoleReview` the reviews, a thread per role, with
what an answer leaves out asked again in halves and then singly. The process remembers a
PASS by the part of the question that `_dependency_payload` keeps for the role
(`Depends`): a repair of another part leaves it standing.

| Variable | Code |
|---|---|
| `call[t]` | the call of a thread: place, retries, sleep, outcome |
| `active`, `cooldown`, `blocked` | permits of the gate, `_provider_cooldowns`, `_quota_blocked_accounts` |
| `batch[b]`, `stored`, `whole`, `catalog` | threads of the compiler and its three caches |
| `compatible` | whether `_compatible_compiler_seed` finds a complete catalog of the same chunks under another key, which is finalized anew in place of a compilation |
| `first`, `cancelled`, `node`, `runs` | the error the coordinator met first; the job; its executions |
| `text` | the revision of each part of each question (what the student is shown, what is the key to it) |
| `passed`, `rows`, `todo`, `phase`, `verdict` | `_JOB_PASS_CACHE`, the rows each role gave, what is asked again |
| `window`, `ahead`, `earned` | history, read only by properties |

Time is a number of units left, of a cooldown and of a sleep, and passes only
while nobody is awake to act, or at any moment for the deadline.

Which roles a question needs (`_requires_quantitative`) is a constant of the
question. `Open` lets any question be looked at anew after its repair: by
`force_full_revalidation`, or because the kept PASS does not answer the issues the
repair was to resolve (`_required_issue_ids`). Left out: questions that the checks of
the code refuse before any role sees them, and files of the compiler's caches that
are damaged or of another contract, which are as good as no file.

### Chunking and Structure

`Chunking` has the functions of `semantic_chunker.py` as operators, over
documents whose items have a kind (heading, prose, exercise, table with bullets
and so on) and sentences with a length. What an embedding model decides is an
operator that gives the set of all results. `Structure` is `ingest_document` with its
`run_pipeline`: claim, parse, clean, cut, verify against the source with its recovery,
title, cache, store, file, complete, for two documents of the same content. Executions
overlap: those of different documents, and those of one job when the first has
stalled, was taken over by `recover_stale_jobs`, and goes on until it meets a fence.

| Variable | Code |
|---|---|
| `items`, `parents`, `families`, `sizes`, `title`, `lost` | the content and what is built from it; units the verification misses |
| `phase`, `at`, `builder`, `run` | where the building is, and whose it is |
| `work[d][n]` | the `n`-th execution of the job of a document: its place, and the structure it holds |
| `job[d]`, `claim[d]` | `jobs.status` and `claim_generation` |
| `cache`, `store[d]`, `file[d]` | the artifact of the content, the chunks, `structure.json` of the job |
| `author[d]` | history: the execution that wrote `structure.json` last |

`Owns` is the fence, as `job_is_cancelled`, `replace_document` and the transactions of the
job have it. Two writes are without it, as in the code: `SaveProcessed`, whose artifact
belongs to no job, and `PutStructure`, which comes just before the last check
(`tasks.py:363`). `structure.json` is a file of the job, so its executions share it. The
other file, `STRUCTURES_DIR/<document>.json` of `save_structure`, is a diagnostic
one, which only a legacy route (switched off, `routes.py:292`) reads, and is left out. The ids of a built structure are new
(`uuid4`), those of a restored one follow from artifact and document
(`uuid5`), as `MadeFor` says.

### Intake

From a request to an admitted job, and from the job to its material.

| Variable | Code |
|---|---|
| `session[s]`, `cookie[b]` | rows of `sessions` (state, owner); the token each browser sends |
| `req[r]`, `answer[r]` | a request: stage, what it asks, session and user it has read; its answer |
| `record`, `job[r]` | `idempotency_records`; rows of `jobs`, with the id of the inserting request |
| `doc`, `chunks`, `cached` | the document's status, the `session_id` its chunks carry, the processed artifact |
| `lapsed`, `crossed` | history |

The middleware takes three steps (find or make a session, attach it to the user,
go on), admission one transaction under the advisory lock, publication another,
and the worker's reading of chunks four (read, load artifact, rewrite, read
again). Between middleware and admission the route of a generation looks at the
document by itself (`Look`): a request for one that has gone is refused there, before
its key is looked up.

### Page

| Variable | Code |
|---|---|
| `page` | `state` of `state.js` and the module's own variables |
| `flow[k]`, `loads`, `removing` | calls of `uploadFile` and `loadDocumentSections`, a removal waiting for its answer: stage, and the version they began with |
| `gen`, `cancels` | the click on Generate being handled; the DELETE calls under way |
| `stored`, `genKey`, `restored` | `sessionStorage` |
| `ingest`, `exam` | the server, as the page can see it |
| `chosen`, `stopped`, `lost` | history |

Removals may overlap, as many as `Removals` has names: the button stays where it is
while a DELETE is under way. `Settled` is the `finally` of `uploadFile`, which runs when
the load of the sections it waits for is over; `LoadThrows` is that load throwing
while a removal waits, which `upload.js:181` takes for a cancellation.

A handler is a flow with a stage for each `await`. A version counted up by every
pick and removal, and idempotency keys, are what the page has against answers that
come late; `StopsOnAnswer` and `Wanted` are the operators that carry them.

## 4. The runs

| Run | What it asks | Distinct states |
|---|---|---|
| `ingestion` | two workers, one ingestion job, any one covered fault: who may publish, who carries the job, how often it is claimed | 809 000 |
| `generation` | two workers, one generation job, any two faults of any kind: the inductive invariant, `JobPromise`, no job runs for ever, every job ends or is known to be forgotten | 181 000 |
| `takeover` | two executions of a two-model exam with takeovers, crashes and one lost reply | 760 000 |
| `replay` | a replay of a partly generated source, taken over once, through every loop of the graph | 2 063 000 |
| `retention` | one document against everything that touches it, with any two faults | 75 000 |
| `planning` | every small catalog and request of `MCPlanning`, any answers, two resumes | 28 000 |
| `exam` | two slots from generation to assembly, two troubles, every budget reached | 1 906 000 |
| `exam_livelock` | violation, see the findings | |
| `calls` | catalog and review of one or two questions with one or two workers, both providers | 3 106 000 |
| `structure` | all documents of up to two items and chosen longer ones, two documents of the same content, two executions of each job, one crash, takeover or cancellation | 148 000 |
| `intake` | two requests out of seven kinds, two browsers, two users and a visitor, two faults | 1 005 000 |
| `page` | two files, two picks, two generations, two removals at once, one fault | 3 989 000 |

Properties that took several actors to state, and the mutant of the code each
run must catch, are in `PROJECT.json`: for example `PublishedByLastClaim` falls
when the fence compares only the status, `NeverForgotten` when a lost worker's
message is acknowledged, `LogSound` when an append does not compare the
revision, `NothingLost` when it does not compare the claim, `ReadyUsable` when
a job row is deleted without regard to its age, `ShownIsChosen` when an answer is
used without its version, `OwnMaterial` when a session is attached to a user
without comparing its owner again.

What they say of the newer modules:

- `planning`: allocation reaches as many families as any assignment could and
  fills every slot the catalog has something for (`AllocationSpreads`); a plan is
  refused behind the graph only for want of questions (`RefusedOnlyIfShort`);
  shared tasks are under contract (`TwinsAuthorized`); repairs never add errors
  (`RepairNeverWorsens`); the loops end (`EveryNodeCounts`).
- `exam`: an accepted question is to the letter the one that passed, for its
  present task, and every question that passed and is under no finding is
  accepted, whatever its slot went through, but for finding 19
  (`AcceptedWasReviewed`); duplicates of a task come only from two
  threads changing theirs at once (`TwinsOnlyByRace`); what passed is not taken
  back (`KeptStands`); the rounds end unless a slot is in one of two dead ends
  (`Settles`), which findings 1 and 2 are about.
- `calls`: a kept catalog is complete (`CatalogComplete`); a PASS is
  earned from every role the question needs, for a text that agrees with the present one
  in all that role's verdict is kept for (`PassIsEarned`); that this part is not
  always all the role looks at is finding 22; pauses are kept but by those who
  looked before (`PausesKept`); kept work is not paid again (`NotPaidAgain`); it
  all ends, so no permit is lost and nobody waits for ever (`CallsEnd`).
- `structure`: nothing of the text is lost or reordered, and what would be
  refuses the document (`NothingMissing`); sizes and exercises (`WellCut`);
  what is cached, stored and filed was verified, and a ready document has the chunks of
  the execution that completed its job, and its file too unless one that had been
  taken over wrote it last (`StoredSound`). The three name their exceptions, which
  the findings list.
- `intake`: limits and one job per key in any interleaving (`Admitted`); jobs and
  chunks stay with the owner of the upload (`OwnMaterial`); a job misses its
  chunks only where a job of another session crossed it (`ServedUnlessCrossed`).
- `page`: what is shown is what was chosen last, and no exam is made of another
  document's sections (`ShownIsChosen`); every job at work is waited for, or lost
  in a named way, and a Stop is carried out (`Accounted`).

`NeverForgotten`, `AllocationSpreads`, `WellCut`, `Accounted` and others name the
ways in which the code does not keep them. The exceptions are disjuncts of the
property or history variables set by the one step that makes them; each is a
finding or described at its definition.

Bounds. Jobs share no row, no message and no fence with each other, so one job
per run is enough; the two kinds of job are separate runs because they have
different stages. Every hazard of the job modules is between two executions, or an
execution and a beat task, the API or the user: two workers suffice, and a third
would only repeat a role. `MaxFaults` is 1 or 2: one outage is what each mechanism
is meant to cover, and the fault actions are separate so that each is taken at
every point; the proofs hold for any number. `MaxClaims = 2` gives a takeover;
`takeover` leaves out the loops of the graph (`MaxRounds = 0`) and `replay` the
second worker, because together they exceed what TLC can explore and the loops
append through the same `AppendEvent`. Two models are the least for which one is
checkpointed and the other is not. In `retention` one document is enough: two share
nothing but the sweep, which treats one at a time, and the session, and the proofs
show that no step of one disturbs the other. Two attempts give a retry and a last
attempt, and `Batch = 1` makes a sweep leave work to the next.

In `planning` the catalogs are chosen so that each rule decides somewhere: fewer
tasks than slots, a task of two types, equal levels, a shared scenario, an unsound
variation, nothing for a requested type. In `exam` two slots are the least that can be
duplicates of each other, and of three tasks a replacement takes the free one, one that
was freed before, or the other slot's under contract, and may refuse another for good; `MaxTrouble = 2` spends every budget of one slot (they are 1 or 2, in
the code 1 to 3). In `calls` every limit is 1 where 1 is a limit somebody
waits at; the two settings are two questions with one worker and one question with
two; pauses of 0 and 1 unit are all a thread can tell apart. One role's verdict depends on
what is shown, the other's on the key too, and a question has these two parts. In `structure` sizes are
a few words instead of hundreds, with the same order between them; all pairs of
kinds, and eight longer documents, each needed by one rule of the cut. `InTurn` lets
the executions of one document wait while another's structure is built: building reads
and writes only what is the execution's own, so that any step of another document can
be moved before or behind it. The proofs hold without it. Two executions give a
takeover, and one fault the stall that makes it. In
`intake` two requests meet at every step, and `MaxActive = PerMinute = 1` makes the
second one reach the limit; three sessions allow one to be made in place of a
deleted one. In `page` the second pick makes the first one's answers late, two
removals can wait for each other's uploads, and one
reload, failed call or failed job is taken at every point.

Symmetry is used only in runs without liveness properties. Deadlock is not checked
where a run may really stop: a job that has ended, a page with nothing to do.
The other runs check it: their final states stutter explicitly.

## 5. Fairness

`FairSpec` of `JobLifecycle` asks weak fairness of: the creating request's two
steps; the beat tasks, scheduled every 30 and 60 seconds (`celery_app.py`);
delivery of each message to some idle worker; and the steps of an execution that
has a job, because every call it makes carries a timeout. It asks nothing of
failures, cancellations, progress reports or retries. A heartbeat must become old
only for a job that no execution owns: one that is beaten every few seconds by
`_heartbeat` may become old (a stalled process) but need not. With it `RunningEnds`
(no job is running for ever, under any two faults) and `Settles` are checked:
every job ends, or is at last claimable with nothing left that would claim it.
The second case needs one of the `LossyFaults` (`claim_job` unavailable outside the
task's handler, a `retry_job` whose reply or whose publication is lost, recovery
that commits and cannot publish a retrying job), as `NeverForgotten` says: after
one of them a job that is `retrying`, or `queued` and already marked dispatched,
has no message and no sweep looks for it.

In `Documents` fairness is asked of the steps of a request, of an execution that
has claimed its job (`WorkStep`: it goes on, fails, or meets its fence), of the
clean-up message of a cancellation, and of the sweep, which beat schedules every
hour and `start_cleanup_run` lets start again after a lost run. Nothing is asked
of claims, of time, or of the recovery of lost executions. The sweep may fail
only `MaxFaults` times, so that some sweep runs to its end.

In `ExamPool` and `RoleReview` fairness is that something goes on as long as the
work is not done: threads of a pool run, every call has its timeout, the graph
visits one node after the other. It is weak fairness of the whole next-state
relation, written without `ENABLED` as `GoesOn` (`<>[]done \/ []<><<TRUE>>_vars`),
which says the same because TLC finds no deadlock before `done`, and is much cheaper
to check. `exam_livelock`, a violation, uses the weak fairness itself.

`Planning` needs none: `EveryNodeCounts` is a variant that every step lowers.

## 6. What is proved

All proofs are for any set of jobs, workers, documents, requests, slots and threads,
any catalog, and any number of models, claims, rounds, attempts and faults. They
rest only on the named assumptions on constants, which say that bounds are
numbers, that model values of different kinds differ, and that lists are sequences:
`JobsAssumption` and `FaultsAssumption` (`JobLifecycle`), `BoundsAssumption`,
`OrderAssumption` and `FactsAssumption` (`Checkpoints`), `DocsAssumption` and
`BoundsAssumption` (`Documents`), `NamesAssumption` and `LimitsAssumption` (`Intake`),
`BoundsAssumption` (`Page`), `CallsAssumption`, `CatalogAssumption` and `ReviewAssumption`
(`Calls`, `CatalogBuild`, `RoleReview`), `ExamAssumption` and `PoolAssumption`
(`ExamReview`, `ExamPool`), `PlanningAssumption` (`Planning`), `SizesAssumption`
(`Chunking`: the sizes are ordered as the settings are, and no item is without words) and
`IngestAssumption` (`Structure`). TLC evaluates each.

`JobLifecycleProofs`. `Inv` is inductive. Publication is safe because a passing
fence names one execution: `ClaimsDistinct` (no two executions hold one claim),
which in turn needs `ClaimsIssued` (no execution holds a claim from the future,
so the next one is new). For documents one more fact is needed: chunks are
written in a transaction before the one that publishes, and `ChunksKept` says an
owner past indexing still finds its own chunks, since whoever overwrote them
would have had to own the job. From `Invariance` follow `TypeCorrect`,
`RowsAlwaysAgree`, `Fencing`, `OneExecutionPerClaim`, the action property
`FinalStaysFinal`, and `Refinement`, that every step is a step of `JobPromise` or
a stutter.

Its second part is about messages. `NeverForgotten` is not inductive: "the stage is
queued" carries a job only while nobody who has already sent its message is about to
mark it dispatched. `Delivery` adds that (`Unsent`), and the proof asks of each
action only that it keeps what carries each job (`Keeps`). `ClaimsBounded`
counts: what can still lead to a claim is a message, a status that may be claimed, or a
retry the row still grants. Claims, waiting and granted retries together never
exceed the bound (`FewClaims`), because a retry's message grants one retry less than the
one it came from, and recovery gives a job back only while its attempts are below
the limit. Without a fault a job has at most two messages or executions, and each fault
brings one more (`FewMessages`); so no fault can start an endless exchange of
redeliveries and retries.

`CheckpointsProofs`. `NothingLost` speaks of the owner between two nodes;
`OwnerKnows` extends it to every point: while events are being written, the log
and the events still to write make up the state; during generation the state may
exceed the log by questions of models only. Together with `WhereItIs` (the
facts an execution has tell which nodes it can be at) and `ClaimsIssued` it is
inductive. A step touches one execution, so two lemmas carry the proof:
`QuietStep` for steps that leave the log alone, `CommitStep` for those that
append, which only the owner can. From `Invariance` follow `LogStaysSound`,
`ResumableAnywhere`, `NothingPaidTwice` (for a job that replays no other; what a
replay is given is its source, whatever it did before, and is only checked) and
`Refinement`.

`DocumentsProofs`. What a user sees (`SourceKept`, `ReadyUsable`) is not
inductive, because the danger is always in what somebody has read earlier. `Inv`
adds it, one document at a time. `RowsAgree` relates rows, request, execution and
purge of any document, whatever the sweep deletes: it carries
`CancelledStaysClean`, since an execution of a cancelled job never passes the fence
again. `Safe` is about a document of a live session that no race has touched: the
two rows agree on whether it is pending, what it needs is stored, and everyone
about to delete something has seen it failed: a document the sweep has picked is
`failed` or `deleted`, and neither status leads back to `ready` because its job is
final; an orphan it has listed is not waiting for its row. `Elsewhere` shows that
a step of one document leaves the others sound, `Here` that it leaves its own
sound, `SweepSound` does the same for the sweep. From `Invariance` follow
`SourceIsKept`, `ReadyIsUsable`, `CancellationIsFinal`
and `GoneIsFinal`.

`IntakeProofs`. A request reads a session in one transaction and acts on it in later
ones, so what it has read must still be worth something. `Belongs`: past the middleware the session of a signed-in user is the user's and stays
so, whatever becomes of it, and what a generation has found visible stays its own.
`JobsBelong` carries this to the jobs admitted, `Material` to the chunks, whose
`session_id` is rewritten by the reading of a job and so names a session of the same
owner. `Alone` is the advisory lock: between its reads and its inserts an admission
meets no other under the same lock, so the record (`RecordsHold`) and the counts
(`Limits`) are those it has read. `Served`: a job that has rewritten the chunks finds them at its second
reading, unless another one crossed it (`crossed`) or the document is no longer ready. `Follows` says what a step may do to a job, and each part needs of a
step only that. From `IInv` follow `AdmissionHolds`, `MaterialIsOwn`, `ServedOrCrossed`.

`PageProofs`. A handler continues after an `await` with what it knew before.
`Versions` makes the version a handler began with tell whether it still is the current
one: versions only grow and no two flows began with the same, so at most one flow
can be current, and `Shown`, `Followed` need only be kept by that one. `Loading`: while
sections are loaded for the current version nobody waits for another upload of it, so that
what the end of that handler clears is not missed. `Fitting` is the
selection against the document, `Pursued` that a job at work is polled, awaited by the
handler that posted it, or lost in a named way, `Stopping` that a Stop which was
clicked has a cancellation under way or reached its job. From `IInv` follow
`DocumentIsChosen` and `JobsAccounted`.

`ReviewProofs` goes through the three modules as they extend each other. `Counted`:
the permits in use are as many as the calls between gate and release
(`Cardinality(Inside)`), on every path out of a call, so `active` is never wrong;
`Pausing` relates cooldowns and sleeps to the provider's pause. `Pools`: no call outlives
the pool that waits for it, so what a later node finds is complete; `Kept`: a catalog
that is kept, in whole or by batches, has everything it was compiled from. `Covered`: a
role that has ended has a row for every question it was asked about, because what is
left after the halves is asked one by one. `Earned`: what the process remembers, and each
PASS among the rows, was given to a text that agrees with the present one in
what the role depends on, since revisions only grow and a memory of an older one of
such a part cannot be found again.
From `IInv` follow `CatalogIsComplete`, `PassEarned`, and the action properties
`NotCompiledTwice` and `ProviderLeftAlone`.

`ExamProofs`. The questions of an exam, the reports on them and the plan are three
structures written by different nodes. `Current` says that every verdict is about the present question and the present
task; `Awaited` where each candidate is between the node that makes it and the one that
judges it; `Lifecycle` that what the record of a slot keeps from one node to the next
agrees with verdict and manifest when the route reads it, and `Assembled` follows for
what is accepted. For the pool, `Turns` says what a thread that searches or is about to write
knows, and `Undisturbed` that, unless two threads raced, the task it chose is still
free or under contract. From `IInv` follow `AcceptedHolds`, `TwinsHold`,
`KeptHolds`.

`PlanningProofs`. The nodes of planning are algorithms over lists: what a fold
computes must be known before a node can be said to keep an invariant. Theorems
that take an operator as a parameter cannot be used by the provers, so the
induction is stated for sets of numbers (`SetInduction`, from the well-foundedness of
`Nat`), and `Step` names the bodies of all loops, so that `FoldAlong` is proved once: what
holds at first, and is kept by the body for each member of the list, holds at the end.
With it every stage of a round of repairs leaves a state that is `Sound`: its errors
are the review of its plan, and no more than at first. An adjustment leaves a plan that is
`Settled`, with nothing to adjust. `ReviewIs` shows that a clean review leaves no slot
missing for which the catalog has something, whatever order its types are
visited in. `IInv` then says that a plan on its way to the generator stands its
review (`Reviewed`), and `Budgets` that attempts stay below three and one for every
resumed execution, with one left wherever a repair starts. From it follow
`GateAgrees`, `RepairsNeverWorsen` and `PlanningIsBounded`.

The same module proves what the ingestion promises. `Chunking` is a dozen passes over
lists of lists, and the lemmas follow it pass by pass. A unit knows its place and the
exercise it belongs to, and `Follows` says how one unit may come behind another in a
document; a `Parts` is a list of units of which each follows the one before, and two
parts are `Free` of each other if no exercise goes on from one into the next, `Apart`
if none does or both together are larger than a parent. `SplitIs`, `MergedIs` and
`ParentsAre` show that cutting, merging and dividing keep a list of parts `Apart`. For the
children of one parent the invariant of every pass is that each child is within its size
or has an excuse (`Capped`), and that two sentences an exercise binds, once in one
child, stay in one (`Holds`): packing, the two floors, the headings and the overlap each
have their lemma, and `ChildrenAre` is what they come to. `RecoveredIs` adds the
recovery: it builds again only the children of a parent with a table with bullets, or of
questions, which is the exception `WellCut` makes, and sorts the others as wholes.
`Divided` carries this through the phases of the building, and `WellCutAlways`
follows for every content, whatever the embedding model finds similar.

`StoredIsSound` needs two more. `Titling`: the titles before `at` differ from each other and
from no title, since the emergency label is taken free (`EmergencyIs`, by counting), so that
the verification marks a structure as titled only if it is (`AllDiffer`). `Stocked`, document by
document and execution by execution (`Execution`): it has the structure its place
promises, whose ids name the document; and as long as it owns the job, and when it has
completed it, what it has stored is stored, because the fence keeps all others from the
chunks, and what it has filed is filed unless somebody else has written the file since,
who can only have claimed the job earlier. `AtWork` says whose the structure under way is.
Documents meet only in the cache, where whatever an execution leaves, owner or not,
has passed the verification.

Only model-checked:

- liveness: `ExpiredForgotten`, `RunningEnds`, `CallsEnd`, and both `Settles`. That planning
  ends is proved, because it is stated as a variant;
- `AllocationSpreads`, that augmenting paths reach a maximum matching;
- `TwinsAuthorized`. The review compares a slot with the last one of its task, so a plan
  without errors may, of three slots of one task, tie the first to the second and the
  second to the third only. That no such plan is reached rests on how allocation,
  repairs and fallbacks make contracts and on the few attempts there are; it is checked
  for the catalogs of the run and claimed for no others;
- `NothingMissing` of `Structure`, which compares the text of a document, sentence by
  sentence, before and behind a dozen passes of `Chunking`;
- `PaidOnce` for replays.

## 7. Findings

Each is a place where the code does something else than its documentation, or
its own other half, says. The first is what the run `exam_livelock` shows; the others
came up while the exceptions of a property were worked out, at the place named.

Planning and exams:

1. Livelock. A slot that is under a duplicate target and has spent its repair limit
   is closed by the repair, which charges nothing, and opened again by the route,
   which looks at the duplicate budget, for ever. The comment at `graph.py:439` says
   that unresolved slots are routed "through their own bounded budgets". Run
   `exam_livelock`; `Settles` of `exam` says that only this and finding 2 keep the
   rounds from ending.
2. A second dead end: a pending candidate becomes stale because balancing moved the
   answer of its active question, and is dropped; its target stays
   `validation_pending` and no node takes it up.
3. When the scan for duplicates is unavailable, every accepted question is
   replaced, although the finding itself asks to "Retry the Duplicate Validator; do not
   alter content." (`validator.py:3207-3230`).
4. A working candidate is neither cleared nor compared with the assignment when
   the slot gets another task: text written for the earlier task is committed under
   the new plan (`validator.py:4343`).
5. `failures or attempts` counts legacy attempts as failures when there are none
   (`validator.py:3337`, `4271`); the completion counter can pass
   `MAX_COMPLETION_ATTEMPTS_PER_SLOT` (`validator.py:4420`).
6. Replacements of one round that run at the same time may choose the same unused
   task without a contract; so may two threads of the generation pool
   (`raced`). `_repair_shortfalls` works on a plan from before a replacement and may
   undo it (`exam_builder.py:2108`). An exception in a slot, cancellation included,
   is an empty slot (`exam_builder.py:2257`).
7. The fallback of the difficulty adjustment puts a task that is in use into a slot
   without a reuse contract, and the whole exam is refused
   (`difficulty_adjustment.py:536`). Reuse across models that allocation authorizes may be
   rejected by the comparison of ideas. Reuse is declared as
   "no_unused_compatible_task" while an unused task exists
   (`assessment_catalog.py:2761`, `2775`, `3030`). `plan_errors` of the catalog are
   overwritten by planning; resumes consume plan attempts (`planner.py:2195`).

Language-model calls:

8. Catalogs of STEM documents use the OpenAI client, whose errors are not those
   `compile_batch` retries, although `assessment_catalog.py:2327` speaks of a
   "provider-neutral outer recovery budget"; nor does `_deepseek_transport_exhausted`
   know them. An account blocked for its quota stays so until the process restarts. The
   cooldown is read before waiting for the permit, and a retry does not look at it
   (`ahead` in `PausesKept`). A deadline that strikes the coordinator while it leaves
   the pool leaves threads running past the failed job.

Ingestion:

9. An exercise with bullets, in a parent of questions or in one rebuilt because of a
   table with bullets, keeps bullets that the verification looks for without: the
   document is refused, on every retry (`semantic_chunker.py:1716`, `1771`;
   `LossesAreBullets`).
10. After an integrity recovery all children of the document are sorted by the
   earliest unit they share: repeated sentences move children of other parents
   (`semantic_chunker.py:1630`, `1832`; `InOrder`). `CHILD_MAX_SIZE`, a "hard ceiling",
   is exceeded by the parts of one exercise and by prose joined for its similarity
   (`CapKept`). Packing may separate an exercise from its parts (`BoundTogether`).
11. `ingest_document` has no soft time limit: its handler (`tasks.py:391`) is not
   reached.

Sessions and admission:

12. Chunks carry one `session_id`: two sessions of one user rewrite them in turn, and
   a job that another one crosses between its backfill and its second read fails with
   "Re-index" (`retrieval.py:121`; `crossed`). Sign-out or expiry of the uploading
   session deletes the document while another session generates from it.
13. Limits are per session. After a 503 of a failed publication the record stays: a
   retry is answered with the failed job. Two first requests without a cookie make two
   sessions. `claim_session` of a deleted session is an uncaught error.
14. A document whose index job was deleted is looked up under the id `"None"`
   (`tasks.py:509`; `ShortRetention` in `Documents`).

The page:

15. A removal waiting for its DELETE clears an upload begun meanwhile
   (`upload.js:90`); an error answer of an upload that is out of date is shown without
   a version check (`upload.js:174`); its `finally` forgets the controller of the new
   one. A job accepted by a POST that was aborted is watched by nobody. One failed poll
   ends the watch. These are the ways `lost` names in `Accounted`.
16. The selection is not cleared by a new upload, so a generation may be sent with
   another document's sections, which the server refuses (`Fits` in `ShownIsChosen`).
   After a 5xx the key is kept: changed settings are answered with a conflict once.
   A late failing cancellation resets the flag of a later generation.

Jobs and documents:

17. `load_generation_replay_checkpoint` reads revisions up to 5
   (`repositories.py:598`) and accepts the source if any generation checkpoint is among
   them: a source with three models, or with a repaired plan, is replayed without part
   of its questions, although the docstring says the state "available immediately after
   generation" is loaded (`repositories.py:575`). A replay that is taken over reads its
   source again, and generates again what it had generated (`Given` in `Checkpoints`;
   `repositories.py:579`).
18. `run_cleanup` reads which documents have rows and lists the stored files
   afterwards; an upload that stores its file before the list and commits its row
   after the rows were read loses the file as an orphan (`cleanup.py:79-86`,
   `job_routes.py:257,261`). And nothing is compared again between the pick of a
   document and the deletion of its chunks: one picked as abandoned, because its
   ingestion was long in the queue or in work, may be ready by then (`cleanup.py:56`).
   Both set `excused` in `Documents`.

The end of an exam:

19. A candidate that waited for a reviewer leaves `validation_pending` in its slot's
   `repair_manifest_status` (`validator.py:3753`). When it passes later, its manifest
   entry becomes `resolved` and is dropped by `_merge_repair_manifest`
   (`validator.py:3136`), so `reconcile_slot_lifecycle`, which copies the status of the
   entries there are (`lifecycle.py:274`), never replaces it. At assembly the slot is
   `REVALIDATING` and its passed question is left out of the exam, although the
   comment at `lifecycle.py:345` says that historical failures "cannot override the
   current passing slot version"; and since `terminal_status` is `finalized`, the
   shortage is not reported either (`tasks.py:57`). It is the exception `StillWaiting`
   of `AcceptedWasReviewed`.
20. When the fill-in-the-blank section that remains after slots were left out has no
   word bank that can be rebuilt, the section is dropped from the exam
   (`exam_builder.py:2490`) while the lifecycle keeps its slots finalized, and the check
   that follows fails the whole exam (`exam_builder.py:2751`). The word bank is not
   modelled; this was read in the code.

Found while the executions of one document were let overlap, and the reviews kept by part:

21. An ingestion that stalled and was taken over writes `structure.json` without a
   fence (`tasks.py:363`), before the check in the next line stops it; the file belongs to the
   job and so to its successor too, which may have completed. The comment above it
   (`tasks.py:354`) guards only against the diagnostic file. The sections then name
   chunks that are not stored: retrieval finds none and restores them if the processed
   artifact is still that execution's (`retrieval.py:93`), and else asks to
   re-index. It is the exception of `StoredSound`.
22. `_dependency_payload` says "Inputs that affect the role verdict"
   (`multi_validator.py:386`), but for `task_alignment` it keeps of a question only its prompt
   fields, although the instructions of this role have it look at the options of a
   multiple-choice question too. A PASS stands when a repair changes only these.

## 8. What is not modelled

`PROJECT.json` gives the status and the reason for every component. Left out
everywhere: progress percentages and messages, error texts, logs, exports and
diagnostic files, and what a language model writes, which is a free choice among a
few texts. Also:

- the wording of tasks, scenarios and questions, and the deterministic checks of
  their content: one verdict, freely chosen;
- parsing of PDFs, heading scores, mathematical units, quotes, embeddings (their
  similarities are a free choice), title waves that run in parallel;
- similarity of questions in the duplicate scan, which is an input;
- the word bank of fill-in-the-blank sections;
- functions nothing calls: `_run_batches`, `generate_batch_titles`,
  `make_titles_unique`, `review_titles`, `split_sentence_stream` and the like;
- the views of finished exams, statistics, languages and signing in on the page,
  verification of tokens on the server, the synchronous legacy routes.

`TypeOK` of `Planning`, `ExamReview` and `RoleReview` is defined for readers and
proofs and is not in a run of its own. Hazards without a property are in `PROJECT.json`
with a note.
