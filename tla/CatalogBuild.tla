---------------------------- MODULE CatalogBuild ----------------------------
(***************************************************************************)
(* prepare_assessment_catalog: the batches of a catalog are compiled by a  *)
(* pool of threads, each batch in a few attempts and each result kept on   *)
(* disk; when all are there they are merged, and the catalog is kept too.  *)
(* A failure of one batch leaves the pool to finish the others before the  *)
(* job is failed or retried.  The job may be cancelled and the worker may  *)
(* die at any moment.                                                      *)
(*                                                                         *)
(* Left out: what a task of the catalog says.  A batch that was answered   *)
(* completely may still be unfit: evidence of another batch, no claim of   *)
(* completeness.  Left out too: files of the caches that are damaged or of *)
(* another contract, which are as good as no file.                         *)
(***************************************************************************)
EXTENDS Calls

CONSTANTS
  CatalogWorkers,   \* MAX_PARALLEL_CATALOG_CALLS, of the pool and of the gate
  MaxAttempts,      \* CATALOG_BATCH_MAX_ATTEMPTS
  MaxRuns,          \* bound on the executions of the job
  Providers         \* some of {"deepseek", "openai"}: by the domain of the document

ASSUME CatalogAssumption ==
  /\ CatalogWorkers \in Nat /\ MaxAttempts \in Nat \ {0} /\ MaxRuns \in Nat \ {0}

VARIABLES
  provider,   \* of the batches; "any" when they are compiled
  batch,      \* where the thread of each batch is
  stored,     \* the batches in the compiler cache
  whole,      \* the merged result is in the compiler cache
  compatible, \* a catalog of the same chunks is kept under another key (the same all along)
  catalog,    \* the finalized catalog is in the cache
  first,      \* the error the coordinator met first
  cancelled,
  node, runs

catalogVars == <<provider, batch, stored, whole, compatible, catalog, first, cancelled, node, runs>>

Batches == Threads

Idle == [pc |-> "waiting", attempt |-> 0, result |-> "none"]

\* No thread is at work for this batch.
Retired == [Idle EXCEPT !.pc = "done"]

Running == {b \in Batches : batch[b].pc \in {"checking", "calling"}}
Queued == {b \in Batches : batch[b].pc = "waiting"}

-----------------------------------------------------------------------------
(* The coordinator, before the pool.                                       *)

\* The cache of catalogs, then that of compilations; then a compatible catalog that another
\* job has kept, or an earlier version; then the pool.
Prepare ==
  /\ node = "prepare"
  /\ node' = IF catalog THEN "review" ELSE IF whole \/ compatible THEN "finalize" ELSE "compile"
  /\ batch' = [b \in Batches |-> IF catalog \/ whole \/ compatible THEN Retired ELSE Idle]
  /\ first' = "none"
  /\ UNCHANGED <<callVars, provider, stored, whole, compatible, catalog, cancelled, runs>>

-----------------------------------------------------------------------------
(* compile_batch.                                                          *)

Ends(b, result) == batch' = [batch EXCEPT ![b] = [@ EXCEPT !.pc = "done", !.result = result]]

\* Mutant: only the merged result is looked for.
CachedWhole(b) == b \in stored /\ whole

Cached(b) == b \in stored

Begin(b) ==
  /\ b \in Queued /\ \A c \in Queued : b <= c
  /\ node # "prepare"
  /\ Cardinality(Running) < CatalogWorkers
  /\ IF Cached(b) THEN Ends(b, "valid")
     ELSE batch' = [batch EXCEPT ![b].pc = "checking", ![b].attempt = 1]
  /\ UNCHANGED <<callVars, provider, stored, whole, compatible, catalog, first, cancelled, node, runs>>

Attempt(b) ==
  /\ batch[b].pc = "checking"
  /\ IF cancelled THEN Ends(b, "cancelled") /\ UNCHANGED callVars
     ELSE batch' = [batch EXCEPT ![b].pc = "calling"] /\ Request(b, 1)
  /\ UNCHANGED <<provider, stored, whole, compatible, catalog, first, cancelled, node, runs>>

\* Mutant: an attempt that was incomplete does not count.
SameAgain(b) == batch[b].attempt

NextAttempt(b) == batch[b].attempt + 1

\* Only the errors of DeepSeek's client are known here as an incomplete batch.
AskedAgain(b, unfit) == unfit \/ (call[b].answer = "defective" /\ provider = "deepseek")

Received(b) ==
  /\ batch[b].pc = "calling" /\ call[b].pc = "done"
  /\ call' = [call EXCEPT ![b] = NoCall] /\ UNCHANGED sharedVars
  /\ \E unfit \in BOOLEAN :
       /\ unfit => call[b].answer = "complete"
       /\ CASE call[b].answer = "complete" /\ ~unfit -> Ends(b, "valid") /\ stored' = stored \cup {b}
            [] AskedAgain(b, unfit) /\ cancelled -> Ends(b, "cancelled") /\ UNCHANGED stored
            [] AskedAgain(b, unfit) /\ ~cancelled ->
                 /\ UNCHANGED stored
                 /\ IF batch[b].attempt = MaxAttempts THEN Ends(b, "incomplete")
                    ELSE batch' = [batch EXCEPT ![b].pc = "checking", ![b].attempt = NextAttempt(b)]
            [] OTHER -> Ends(b, call[b].answer) /\ UNCHANGED stored
  /\ UNCHANGED <<provider, whole, compatible, catalog, first, cancelled, node, runs>>

-----------------------------------------------------------------------------
(* The coordinator, with the pool.                                         *)

\* The first future that failed: the pool is then left, which waits for all of it, the
\* batches that were not begun included.
Raise(b) ==
  /\ node = "compile" /\ batch[b].pc = "done" /\ batch[b].result # "valid"
  /\ node' = "leaving" /\ first' = batch[b].result
  /\ UNCHANGED <<callVars, provider, batch, stored, whole, compatible, catalog, cancelled, runs>>

\* The deadline of the task strikes the coordinator, once: a coordinator that was already
\* leaving the pool does not wait any longer, and the threads go on without it.
Expire ==
  /\ \/ node = "compile" /\ node' = "leaving"
     \/ node = "leaving" /\ first # "deadline" /\ node' = "failed"
  /\ first' = "deadline"
  /\ UNCHANGED <<callVars, provider, batch, stored, whole, compatible, catalog, cancelled, runs>>

Retryable == first = "outage" /\ ~cancelled /\ runs < MaxRuns

\* The job is retried when the service failed, and failed otherwise.
Leave ==
  /\ node = "leaving" /\ \A b \in Batches : batch[b].pc = "done"
  /\ IF Retryable THEN node' = "prepare" /\ runs' = runs + 1
     ELSE node' = "failed" /\ UNCHANGED runs
  /\ UNCHANGED <<callVars, provider, batch, stored, whole, compatible, catalog, first, cancelled>>

\* Mutant: a batch that came to nothing has no tasks to merge.
AllEnded == \A b \in Batches : batch[b].pc = "done" /\ batch[b].result \in {"valid", "incomplete"}

AllValid == \A b \in Batches : batch[b].pc = "done" /\ batch[b].result = "valid"

Merge ==
  /\ node = "compile" /\ AllValid
  /\ whole' = TRUE /\ node' = "finalize"
  /\ UNCHANGED <<callVars, provider, batch, stored, compatible, catalog, first, cancelled, runs>>

\* Tasks without evidence, with numbers that do not agree or without a type are dropped;
\* nothing may be left, and then nothing is kept.  The reviews ask the provider of the
\* domain too, but what it does to a call is the same with either: it is forgotten here.
Finalize ==
  /\ node = "finalize"
  /\ \/ catalog' = TRUE /\ node' = IF cancelled THEN "failed" ELSE "review"
     \/ catalog' = catalog /\ node' = "failed"
  /\ provider' = "any" /\ batch' = [b \in Batches |-> Retired]
  /\ UNCHANGED <<callVars, stored, whole, compatible, first, cancelled, runs>>

-----------------------------------------------------------------------------
Cancel ==
  /\ node \in {"prepare", "compile", "leaving"} /\ ~cancelled /\ cancelled' = TRUE
  /\ UNCHANGED <<callVars, provider, batch, stored, whole, compatible, catalog, first, node, runs>>

\* The worker dies; the job is recovered by another one.
Crash ==
  /\ node \notin {"prepare", "failed"} /\ runs < MaxRuns /\ ~cancelled
  /\ Started(FreshProcess)
  /\ node' = "prepare" /\ runs' = runs + 1
  /\ batch' = [b \in Batches |-> Idle] /\ first' = "none"
  /\ UNCHANGED <<provider, stored, whole, compatible, catalog, cancelled>>

CatalogInit ==
  /\ CallsInit
  /\ provider \in Providers
  /\ batch = [b \in Batches |-> Idle]
  /\ stored = {} /\ whole = FALSE /\ compatible \in BOOLEAN /\ catalog = FALSE
  /\ first = "none" /\ cancelled = FALSE /\ node = "prepare" /\ runs = 1

Building ==
  \/ Prepare \/ Expire \/ Leave \/ Merge \/ Finalize \/ Cancel
  \/ \E b \in Batches : Begin(b) \/ Attempt(b) \/ Received(b) \/ Raise(b)

-----------------------------------------------------------------------------
\* A catalog that is kept, merged or finalized, holds the compilation of every batch,
\* whichever failed, was cancelled or died with its worker before; or it is that of another
\* job over the same chunks.
CatalogComplete == whole \/ (catalog /\ ~compatible) => stored = Batches

\* A batch whose compilation was kept is not compiled again, by no later execution.
NotPaidAgain ==
  [][\A b \in Batches : batch[b].pc = "checking" /\ batch'[b].pc = "calling"
       => b \notin stored]_<<callVars, catalogVars>>
=============================================================================
