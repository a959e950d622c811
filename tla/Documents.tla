----------------------------- MODULE Documents -----------------------------
(***************************************************************************)
(* An uploaded document: its row and the row of its ingestion job, its     *)
(* chunks in PostgreSQL, its two files in storage, and the four parties    *)
(* that write and delete them without a common lock: the upload route, the *)
(* ingestion task, cancellation with its clean-up task, and the hourly     *)
(* retention sweep.                                                        *)
(*                                                                         *)
(* A transaction or a storage call is one action.  Time is abstracted to   *)
(* two facts: documents.updated_at is older than the abandonment limit,    *)
(* and the session's expires_at has passed.                                *)
(*                                                                         *)
(* Left out: a second execution of the same job (JobLifecycle), exports,   *)
(* diagnostic files, and the generation of exams.                          *)
(***************************************************************************)
EXTENDS Integers, FiniteSets

CONSTANTS
  Docs,            \* document ids, one per upload
  NoDoc,           \* what the sweep works on between two documents
  Sessions,        \* browser sessions
  Owner,           \* the session of each document
  Batch,           \* CLEANUP_BATCH_SIZE
  MaxAttempts,     \* jobs.max_attempts (3 in the code)
  SlowIngestion,   \* a document may stay queued or in processing for longer
                   \* than ABANDONED_UPLOAD_AFTER_SECONDS
  ShortRetention,  \* TERMINAL_JOB_RETENTION_DAYS is less than the session TTL
  MaxFaults        \* how many faults may happen: the bound of the model

ASSUME DocsAssumption ==
  /\ NoDoc \notin Docs
  /\ Owner \in [Docs -> Sessions]
ASSUME BoundsAssumption ==
  /\ Batch \in Nat /\ MaxAttempts \in Nat /\ MaxFaults \in Nat
  /\ SlowIngestion \in BOOLEAN /\ ShortRetention \in BOOLEAN

VARIABLES
  session,    \* sessions: live, expired, or gone with everything that cascades
  doc,        \* the documents table
  job,        \* the ingestion jobs in the jobs table
  chunks,     \* documents that have rows in document_chunks
  source,     \* documents whose source.pdf is in storage
  structure,  \* documents whose structure.json is in storage
  upload,     \* what the upload request has done
  work,       \* what the ingestion task has done
  purge,      \* what cleanup_cancelled_document has left to do
  sweep,      \* run_cleanup
  excused,    \* history: documents hurt or endangered by a known race
  faults      \* number of faults so far

vars == <<session, doc, job, chunks, source, structure, upload, work, purge,
          sweep, excused, faults>>
rows == <<session, doc, job>>
files == <<source, structure>>

-----------------------------------------------------------------------------
Active == {"queued", "running", "retrying"}
Final == {"completed", "failed", "cancelled"}

DocStatus == {"none", "queued", "processing", "ready", "failed", "cancelled",
              "deleted", "gone"}
JobStatus == {"none", "gone"} \cup Active \cup Final

IdleSweep == [pc |-> "idle", todo |-> {}, at |-> NoDoc, scopes |-> {},
              orphans |-> {}]

SessionOf(d) == session[Owner[d]]

SetDoc(d, status) ==
  doc' = [doc EXCEPT ![d] = [status |-> status, aged |-> FALSE,
                             indexed |-> doc[d].indexed]]

SetJob(d, status) == job' = [job EXCEPT ![d].status = status]

\* storage.delete_tree of everything stored for the documents in D.
DropFiles(D) == source' = source \ D /\ structure' = structure \ D

Fault == faults < MaxFaults /\ faults' = faults + 1

\* The fence of every write of the ingestion task.
Authorized(d) == job[d].status = "running" /\ doc[d].indexed

-----------------------------------------------------------------------------
Init ==
  /\ session = [s \in Sessions |-> "live"]
  /\ doc = [d \in Docs |-> [status |-> "none", aged |-> FALSE, indexed |-> FALSE]]
  /\ job = [d \in Docs |-> [status |-> "none", attempts |-> 0]]
  /\ chunks = {} /\ source = {} /\ structure = {}
  /\ upload = [d \in Docs |-> "idle"]
  /\ work = [d \in Docs |-> "none"]
  /\ purge = [d \in Docs |-> "none"]
  /\ sweep = IdleSweep
  /\ excused = {}
  /\ faults = 0

-----------------------------------------------------------------------------
(* The upload request: create_document.                                    *)

\* The file is stored before any row says so.  A sweep that has read the
\* rows and not yet listed the files will take it for an orphan.
StoreFile(d) ==
  /\ upload[d] = "idle" /\ SessionOf(d) = "live"
  /\ upload' = [upload EXCEPT ![d] = "stored"]
  /\ source' = source \cup {d}
  /\ excused' = IF sweep.pc = "list" THEN excused \cup {d} ELSE excused
  /\ UNCHANGED <<rows, chunks, structure, work, purge, sweep, faults>>

\* Mutant: the rows do not refer to the session.
InsertAnySession(d) ==
  /\ upload[d] = "stored"
  /\ SetDoc(d, "queued")
  /\ SetJob(d, "queued")

\* create_document_with_job: the row refers to its session, so it fails when
\* that has gone.
InsertRows(d) ==
  /\ upload[d] = "stored" /\ SessionOf(d) # "gone"
  /\ SetDoc(d, "queued")
  /\ SetJob(d, "queued")

CreateRow(d) ==
  /\ InsertRows(d)
  /\ upload' = [upload EXCEPT ![d] = "created"]
  /\ UNCHANGED <<session, chunks, files, work, purge, sweep, excused, faults>>

\* No row: the session is gone, the idempotency key was used before, or the
\* database is unavailable.  The request takes its file back.
RefuseUpload(d) ==
  /\ upload[d] = "stored"
  /\ upload' = [upload EXCEPT ![d] = "done"]
  /\ source' = source \ {d}
  /\ UNCHANGED <<rows, chunks, structure, work, purge, sweep, excused, faults>>

\* The job is enqueued and marked, or the queue is unavailable and the
\* dispatch sweep will publish it: the file stays either way.
Accept(d) ==
  /\ upload[d] = "created"
  /\ upload' = [upload EXCEPT ![d] = "done"]
  /\ UNCHANGED <<rows, chunks, files, work, purge, sweep, excused, faults>>

\* DatabaseUnavailable after the commit, from the lost reply of the commit
\* or from mark_job_dispatched: the file of a job that will run is deleted.
WithdrawFile(d) ==
  /\ Fault
  /\ \/ InsertRows(d)
     \/ upload[d] = "created" /\ UNCHANGED <<doc, job>>
  /\ upload' = [upload EXCEPT ![d] = "done"]
  /\ source' = source \ {d}
  /\ excused' = excused \cup {d}
  /\ UNCHANGED <<session, chunks, structure, work, purge, sweep>>

\* The server process dies between storing the file and committing the row.
UploadLost(d) ==
  /\ Fault
  /\ upload[d] = "stored"
  /\ upload' = [upload EXCEPT ![d] = "done"]
  /\ UNCHANGED <<rows, chunks, files, work, purge, sweep, excused>>

UploadStep(d) == CreateRow(d) \/ RefuseUpload(d) \/ Accept(d)

-----------------------------------------------------------------------------
(* The ingestion task: claim_job, run_pipeline, complete_ingestion_job.    *)

Goto(d, pc) == work' = [work EXCEPT ![d] = pc]

\* claim_job looks at the job only: it revives a document marked deleted.
Claim(d) ==
  /\ work[d] = "none" /\ job[d].status \in {"queued", "retrying"}
  /\ job' = [job EXCEPT ![d] = [status |-> "running",
                                attempts |-> job[d].attempts + 1]]
  /\ doc' = [doc EXCEPT ![d] = [status |-> "processing", aged |-> FALSE,
                                indexed |-> TRUE]]
  /\ Goto(d, "claimed")
  /\ UNCHANGED <<session, chunks, files, upload, purge, sweep, excused, faults>>

\* storage.materialize, validation and parsing, or the processed cache.
ReadSource(d) ==
  /\ work[d] = "claimed" /\ d \in source
  /\ Goto(d, "read")
  /\ UNCHANGED <<rows, chunks, files, upload, purge, sweep, excused, faults>>

\* Mutant: the chunks are replaced without looking at the job.
IndexUnfenced(d) ==
  /\ work[d] = "read" /\ doc[d].status # "gone"
  /\ chunks' = chunks \cup {d}
  /\ Goto(d, "indexed")
  /\ UNCHANGED <<rows, files, upload, purge, sweep, excused, faults>>

\* ChunkStore.replace_document, in a transaction of its own.
IndexChunks(d) ==
  /\ work[d] = "read" /\ Authorized(d)
  /\ chunks' = chunks \cup {d}
  /\ Goto(d, "indexed")
  /\ UNCHANGED <<rows, files, upload, purge, sweep, excused, faults>>

\* storage.put_json: nothing is read from the database before.
StoreStructure(d) ==
  /\ work[d] = "indexed"
  /\ structure' = structure \cup {d}
  /\ Goto(d, "written")
  /\ UNCHANGED <<rows, chunks, source, upload, purge, sweep, excused, faults>>

\* complete_ingestion_job: the status of the document is not compared.
Complete(d) ==
  /\ work[d] = "written" /\ Authorized(d)
  /\ SetJob(d, "completed")
  /\ SetDoc(d, "ready")
  /\ Goto(d, "none")
  /\ UNCHANGED <<session, chunks, files, upload, purge, sweep, excused, faults>>

\* Any exception of the pipeline, a missing source among them, with another
\* attempt left: retry_job leaves the document alone.
Retry(d) ==
  /\ work[d] # "none" /\ Authorized(d) /\ job[d].attempts < MaxAttempts
  /\ SetJob(d, "retrying")
  /\ Goto(d, "none")
  /\ UNCHANGED <<session, doc, chunks, files, upload, purge, sweep, excused, faults>>

\* The writes of fail_job and of the failing branch of recover_stale_jobs.
FailRows(d) == SetJob(d, "failed") /\ SetDoc(d, "failed")

Fail(d) ==
  /\ work[d] # "none" /\ Authorized(d)
  /\ FailRows(d)
  /\ Goto(d, "none")
  /\ UNCHANGED <<session, chunks, files, upload, purge, sweep, excused, faults>>

\* The execution meets a fence or a cancellation check that refuses it.
Fenced(d) ==
  /\ work[d] # "none" /\ ~Authorized(d)
  /\ Goto(d, "none")
  /\ UNCHANGED <<rows, chunks, files, upload, purge, sweep, excused, faults>>

WorkerLost(d) ==
  /\ Fault
  /\ work[d] # "none"
  /\ Goto(d, "none")
  /\ UNCHANGED <<rows, chunks, files, upload, purge, sweep, excused>>

\* recover_stale_jobs, once the heartbeat of a lost execution is old.
Recover(d) ==
  /\ work[d] = "none" /\ job[d].status = "running"
  /\ IF job[d].attempts < MaxAttempts
       THEN SetJob(d, "retrying") /\ UNCHANGED doc
       ELSE FailRows(d)
  /\ UNCHANGED <<session, chunks, files, upload, work, purge, sweep, excused, faults>>

WorkStep(d) ==
  ReadSource(d) \/ IndexChunks(d) \/ StoreStructure(d) \/ Complete(d)
    \/ Retry(d) \/ Fail(d) \/ Fenced(d)

-----------------------------------------------------------------------------
(* Cancellation: cancel_job, then cleanup_cancelled_document.              *)

Cancelled(d) ==
  /\ job[d].status \in Active
  /\ SetJob(d, "cancelled")
  /\ doc' = IF doc[d].status \in {"queued", "processing"}
              THEN [doc EXCEPT ![d] = [status |-> "cancelled", aged |-> FALSE,
                                       indexed |-> FALSE]]
              ELSE doc

Cancel(d) ==
  /\ Cancelled(d)
  /\ purge' = [purge EXCEPT ![d] = "chunks"]
  /\ UNCHANGED <<session, chunks, files, upload, work, sweep, excused, faults>>

\* The broker is down: the row is cancelled and the clean-up is never sent.
CancelUnsent(d) ==
  /\ Fault
  /\ Cancelled(d)
  /\ UNCHANGED <<session, chunks, files, upload, work, purge, sweep, excused>>

PurgeChunks(d) ==
  /\ purge[d] = "chunks"
  /\ chunks' = chunks \ {d}
  /\ purge' = [purge EXCEPT ![d] = "files"]
  /\ UNCHANGED <<rows, files, upload, work, sweep, excused, faults>>

PurgeFiles(d) ==
  /\ purge[d] = "files"
  /\ DropFiles({d})
  /\ purge' = [purge EXCEPT ![d] = "done"]
  /\ UNCHANGED <<rows, chunks, upload, work, sweep, excused, faults>>

PurgeStep(d) == PurgeChunks(d) \/ PurgeFiles(d)

-----------------------------------------------------------------------------
(* Time.                                                                   *)

\* updated_at passes ABANDONED_UPLOAD_AFTER_SECONDS.  The heartbeat writes
\* the job and not the document, so a long ingestion ages it too.
Age(d) ==
  /\ doc[d].status \in {"queued", "processing", "failed"} /\ ~doc[d].aged
  /\ SlowIngestion \/ doc[d].status = "failed"
  /\ doc' = [doc EXCEPT ![d].aged = TRUE]
  /\ UNCHANGED <<session, job, chunks, files, upload, work, purge, sweep,
                 excused, faults>>

Expire(s) ==
  /\ session[s] = "live"
  /\ session' = [session EXCEPT ![s] = "expired"]
  /\ UNCHANGED <<doc, job, chunks, files, upload, work, purge, sweep, excused,
                 faults>>

-----------------------------------------------------------------------------
(* The retention sweep: run_cleanup, one run at a time.                    *)

At(pc) == sweep' = [sweep EXCEPT !.pc = pc]

StartSweep ==
  /\ sweep.pc = "idle"
  /\ At("pick")
  /\ UNCHANGED <<rows, chunks, files, upload, work, purge, excused, faults>>

\* Documents of expired sessions, and documents abandoned before they were
\* ready.
Candidates ==
  {d \in Docs : /\ doc[d].status \notin {"none", "deleted", "gone"}
                /\ SessionOf(d) = "expired" \/ doc[d].aged}

\* cleanup_document_candidates: SKIP LOCKED passes over rows in use, and the
\* locks taken are released by the commit, before anything is deleted.
Pick ==
  /\ sweep.pc = "pick"
  /\ \E todo \in SUBSET Candidates :
       /\ Cardinality(todo) <= Batch
       /\ sweep' = [sweep EXCEPT !.todo = todo,
                                 !.pc = IF todo = {} THEN "expired" ELSE "chunks"]
       /\ excused' = excused \cup {d \in todo : job[d].status \in Active}
  /\ UNCHANGED <<rows, chunks, files, upload, work, purge, faults>>

SweepChunks(d) ==
  /\ sweep.pc = "chunks" /\ d \in sweep.todo
  /\ chunks' = chunks \ {d}
  /\ sweep' = [sweep EXCEPT !.pc = "files", !.at = d, !.todo = @ \ {d}]
  /\ UNCHANGED <<rows, files, upload, work, purge, excused, faults>>

SweepFiles ==
  /\ sweep.pc = "files"
  /\ DropFiles({sweep.at})
  /\ At("mark")
  /\ UNCHANGED <<rows, chunks, upload, work, purge, excused, faults>>

\* mark_document_assets_deleted: whatever the document has become meanwhile.
Mark ==
  /\ sweep.pc = "mark"
  /\ doc' = [d \in Docs |->
               IF d = sweep.at /\ doc[d].status # "gone"
                 THEN [status |-> "deleted", aged |-> FALSE, indexed |-> doc[d].indexed]
                 ELSE doc[d]]
  /\ sweep' = [sweep EXCEPT !.pc = IF sweep.todo = {} THEN "expired" ELSE "chunks",
                            !.at = NoDoc]
  /\ UNCHANGED <<session, job, chunks, files, upload, work, purge, excused, faults>>

\* The stored trees of up to Batch expired sessions.
SweepSessions ==
  /\ sweep.pc = "expired"
  /\ \E S \in SUBSET {s \in Sessions : session[s] = "expired"} :
       /\ Cardinality(S) <= Batch
       /\ DropFiles({d \in Docs : Owner[d] \in S})
  /\ At("scopes")
  /\ UNCHANGED <<rows, chunks, upload, work, purge, excused, faults>>

\* Mutant: only ready documents count as active.
ReadyScopes == {d \in Docs : doc[d].status = "ready"}

\* active_document_scopes.
ActiveScopes == {d \in Docs : doc[d].status \notin {"none", "deleted", "gone"}}

ReadScopes ==
  /\ sweep.pc = "scopes"
  /\ sweep' = [sweep EXCEPT !.pc = "list", !.scopes = ActiveScopes]
  /\ excused' = excused \cup {d \in Docs : upload[d] = "stored"}
  /\ UNCHANGED <<rows, chunks, files, upload, work, purge, faults>>

\* Mutant: files are looked for only where a row is left.
OrphansWithRows ==
  {d \in (source \cup structure) \ sweep.scopes : doc[d].status # "gone"}

\* storage.list_prefixes, less the scopes read before.
Orphans == (source \cup structure) \ sweep.scopes

ListOrphans ==
  /\ sweep.pc = "list"
  /\ sweep' = [sweep EXCEPT !.orphans = Orphans,
                            !.pc = IF Orphans = {} THEN "records" ELSE "orphans"]
  /\ UNCHANGED <<rows, chunks, files, upload, work, purge, excused, faults>>

SweepOrphan(d) ==
  /\ sweep.pc = "orphans" /\ d \in sweep.orphans
  /\ DropFiles({d})
  /\ sweep' = [sweep EXCEPT !.orphans = @ \ {d},
                            !.pc = IF sweep.orphans = {d} THEN "records" ELSE "orphans"]
  /\ UNCHANGED <<rows, chunks, upload, work, purge, excused, faults>>

\* Mutant: the age of a terminal job is not compared.
Ended == {d \in Docs : job[d].status \in Final}

\* Terminal jobs that may be past their retention while their document lives.
Outlived == {d \in Docs : ShortRetention /\ job[d].status \in Final}

\* cleanup_database_records: terminal jobs past their retention go, and take
\* the link of their document with them; every expired session goes, and
\* takes its documents, jobs and chunks with it.
DeleteRecords ==
  /\ sweep.pc = "records"
  /\ \E old \in SUBSET Outlived :
       LET Expired == {d \in Docs : SessionOf(d) = "expired"}
       IN  /\ doc' = [d \in Docs |->
                        IF doc[d].status = "none" THEN doc[d]
                        ELSE IF d \in Expired
                          THEN [status |-> "gone", aged |-> FALSE, indexed |-> FALSE]
                        ELSE IF d \in old
                          THEN [status |-> doc[d].status, aged |-> doc[d].aged,
                                indexed |-> FALSE]
                        ELSE doc[d]]
           /\ job' = [d \in Docs |->
                        IF d \in Expired \cup old /\ job[d].status # "none"
                          THEN [job[d] EXCEPT !.status = "gone"]
                          ELSE job[d]]
           /\ chunks' = chunks \ Expired
  /\ session' = [s \in Sessions |-> IF session[s] = "live" THEN "live" ELSE "gone"]
  /\ sweep' = IdleSweep
  /\ UNCHANGED <<files, upload, work, purge, excused, faults>>

\* An exception or the loss of the process.  The next run may start later:
\* at once, or when start_cleanup_run has given the lost one up.
SweepFails ==
  /\ Fault
  /\ sweep.pc # "idle"
  /\ sweep' = IdleSweep
  /\ UNCHANGED <<rows, chunks, files, upload, work, purge, excused>>

SweepStep ==
  \/ StartSweep \/ Pick \/ SweepFiles \/ Mark \/ SweepSessions
  \/ ReadScopes \/ ListOrphans \/ DeleteRecords
  \/ \E d \in Docs : SweepChunks(d) \/ SweepOrphan(d)

-----------------------------------------------------------------------------
DocStep(d) ==
  \/ StoreFile(d) \/ UploadStep(d) \/ WithdrawFile(d) \/ UploadLost(d)
  \/ Claim(d) \/ WorkStep(d) \/ WorkerLost(d) \/ Recover(d)
  \/ Cancel(d) \/ CancelUnsent(d) \/ PurgeStep(d) \/ Age(d)

Next ==
  \/ \E d \in Docs : DocStep(d)
  \/ \E s \in Sessions : Expire(s)
  \/ SweepStep \/ SweepFails

Spec == Init /\ [][Next]_vars

\* A request and an execution go on, the purge message is delivered, and the
\* sweep is scheduled every hour.  Nothing is asked of claims or of time.
FairSpec ==
  /\ Spec
  /\ \A d \in Docs : /\ WF_vars(UploadStep(d))
                     /\ WF_vars(WorkStep(d))
                     /\ WF_vars(PurgeStep(d))
  /\ WF_vars(SweepStep)

-----------------------------------------------------------------------------
(* Properties.                                                             *)

TypeOK ==
  /\ session \in [Sessions -> {"live", "expired", "gone"}]
  /\ doc \in [Docs -> [status : DocStatus, aged : BOOLEAN, indexed : BOOLEAN]]
  /\ job \in [Docs -> [status : JobStatus, attempts : Nat]]
  /\ chunks \in SUBSET Docs /\ source \in SUBSET Docs /\ structure \in SUBSET Docs
  /\ upload \in [Docs -> {"idle", "stored", "created", "done"}]
  /\ work \in [Docs -> {"none", "claimed", "read", "indexed", "written"}]
  /\ purge \in [Docs -> {"none", "chunks", "files", "done"}]
  /\ sweep \in [pc : {"idle", "pick", "chunks", "files", "mark", "expired",
                      "scopes", "list", "orphans", "records"},
                todo : SUBSET Docs, at : Docs \cup {NoDoc},
                scopes : SUBSET Docs, orphans : SUBSET Docs]
  /\ excused \in SUBSET Docs
  /\ faults \in Nat

InUse(d) ==
  doc[d].status \in {"queued", "processing", "ready"} /\ SessionOf(d) = "live"

\* A document in use has lost its source only through one of three races:
\* its upload overlapped the orphan scan of run_cleanup, the route took the
\* file back after the commit, or the sweep picked it as abandoned while its
\* job was still active.
SourceKept == \A d \in Docs : InUse(d) /\ d \notin excused => d \in source

Serves(d) == d \in chunks /\ d \in structure

\* A ready document of a live session has its chunks and its structure unless
\* one of the three races touched it, although chunks, structure and status
\* are written by separate transactions and deleted by a sweep and a purge
\* that read no status.
ReadyServes ==
  \A d \in Docs :
    InUse(d) /\ doc[d].status = "ready" /\ d \notin excused => Serves(d)

\* A ready document of a live session still names the job that indexed it,
\* by which generation selects its chunks, if jobs are kept as long as
\* sessions: deleting a job row clears the name.
ReadyIndexed ==
  ~ShortRetention =>
    \A d \in Docs : InUse(d) /\ doc[d].status = "ready" => doc[d].indexed

\* What create_generation_job and retrieve_selected take for granted of a ready
\* document, written and deleted by different transactions: both of the above.
ReadyUsable == ReadyServes /\ ReadyIndexed

\* Once the clean-up of a cancelled ingestion has deleted the chunks, no late
\* execution brings them back.
CancelledStaysClean ==
  \A d \in Docs : purge[d] \in {"files", "done"} => d \notin chunks

\* A document never is ready again after its session has gone, and no chunks
\* outlive it.
GoneStaysGone ==
  \A d \in Docs : SessionOf(d) = "gone"
                    => doc[d].status \in {"none", "gone"} /\ d \notin chunks

\* What the rows, the request, the execution and the purge of one document
\* say of each other, whatever the sweep deletes.
RowsAgree(d) ==
  /\ doc[d].status = "none" <=> job[d].status = "none"
  /\ upload[d] \in {"idle", "stored"} => doc[d].status = "none"
  /\ upload[d] = "idle" => d \notin source
  /\ doc[d].status = "none" => /\ work[d] = "none" /\ purge[d] = "none"
                               /\ d \notin chunks /\ d \notin structure
  /\ doc[d].status = "gone" => job[d].status = "gone" /\ d \notin chunks
  /\ SessionOf(d) = "gone" => doc[d].status \in {"none", "gone"}
  /\ work[d] # "none" => job[d].status \in {"running", "cancelled", "gone"}
  /\ purge[d] # "none" => job[d].status \in {"cancelled", "gone"}
  /\ purge[d] \in {"files", "done"} => d \notin chunks
  /\ doc[d].aged => doc[d].status \in {"queued", "processing", "failed"}
  /\ doc[d].status = "ready" => doc[d].indexed \/ ShortRetention
  /\ d \in sweep.todo \cup {sweep.at} => doc[d].status # "none"

Pending == {"queued", "processing"}

\* A document of a live session that no race has touched: the rows agree on
\* whether it is pending, what it needs is stored, and whoever is about to
\* delete something has looked at it after it had failed.
Safe(d) ==
  /\ doc[d].status \in Pending <=> job[d].status \in Active
  /\ doc[d].status = "ready" => d \in chunks /\ d \in structure
  /\ doc[d].status \in Pending \cup {"ready"} => d \in source /\ purge[d] = "none"
  /\ upload[d] = "stored" => d \in source
  /\ job[d].status = "running" =>
       /\ work[d] \in {"indexed", "written"} => d \in chunks
       /\ work[d] = "written" => d \in structure
  /\ d \in sweep.todo \cup {sweep.at} => doc[d].status \in {"failed", "deleted"}
  /\ sweep.pc = "list" =>
       /\ upload[d] # "stored"
       /\ d \in ActiveScopes => d \in sweep.scopes
  /\ d \in sweep.orphans =>
       /\ upload[d] \notin {"idle", "stored"}
       /\ doc[d].status \notin Pending \cup {"ready"}

Sound(d) ==
  RowsAgree(d) /\ (SessionOf(d) = "live" /\ d \notin excused => Safe(d))

\* Every document is sound.  Inductive: it implies SourceKept, ReadyServes,
\* ReadyIndexed, CancelledStaysClean and GoneStaysGone.
Inv == TypeOK /\ \A d \in Docs : Sound(d)

Forgotten(d) ==
  /\ doc[d].status \in {"none", "gone"} /\ d \notin chunks
  /\ d \notin source /\ d \notin structure

\* The sweep in the end removes everything of an expired session: rows,
\* chunks and files, those stored by requests and executions that were still
\* under way among them.
ExpiredForgotten ==
  \A s \in Sessions :
    session[s] = "expired" ~> [](\A d \in Docs : Owner[d] = s => Forgotten(d))
=============================================================================
