------------------------------- MODULE Intake -------------------------------
(***************************************************************************)
(* How a request becomes a job, and how the job reads its document.        *)
(*                                                                         *)
(* A browser's requests run at the same time.  The middleware of each      *)
(* finds or makes a session, attaches it to the signed-in user, and only   *)
(* the response writes the cookie.  Then one transaction under an advisory *)
(* lock checks the document and replays an idempotency record,             *)
(* applies the limits or inserts the job.  The worker reads the document's *)
(* chunks under the session of the job, though document_chunks holds one   *)
(* session per document: a miss rewrites all of them from the processed    *)
(* cache.  Meanwhile sessions expire and the sweep deletes what they own.  *)
(*                                                                         *)
(* There is one document, uploaded in session Home.  A job has the id of   *)
(* the request that inserts it.  Time is abstracted to the moments when a  *)
(* job leaves the last minute, a key lapses and a session expires.         *)
(*                                                                         *)
(* Left out: the validation of the body and of the selected sections, the  *)
(* route's own look at the document, which the transaction repeats, the    *)
(* uploaded file and the steps of the sweep (Documents), claims, retries   *)
(* and cancellation of jobs (JobLifecycle).                                *)
(***************************************************************************)
EXTENDS Integers, FiniteSets

CONSTANTS
  Requests,   \* HTTP requests, and the jobs they may insert
  NoJob,      \* no job
  Asks,       \* what a request may be: [kind, browser, user, key, payload]
  Browsers,   \* cookie jars
  Uploader,   \* the browser that uploaded the document
  Users,      \* signed-in identities
  Nobody,     \* no identity, or no owner
  NoKey,      \* a request without an Idempotency-Key
  MaxSessions,  \* how many sessions are ever made: a bound of the model
  MaxActive,  \* MAX_ACTIVE_GENERATION_JOBS_PER_SESSION
  PerMinute,  \* GENERATION_REQUESTS_PER_MINUTE
  MaxFaults   \* how often a key lapses, a session expires, the cache is lost or the
              \* broker is down: a bound of the model

ASSUME NamesAssumption ==
  /\ {NoJob, "refused", "error"} \cap Requests = {}
  /\ Nobody \notin Users /\ Uploader \in Browsers
  /\ \A a \in Asks : /\ a.kind \in {"generate", "upload", "logout"}
                     /\ a.browser \in Browsers
                     /\ a.user \in Users \cup {Nobody}
                     /\ a.kind = "logout" => a.user # Nobody
ASSUME LimitsAssumption ==
  {MaxSessions, MaxActive, PerMinute} \subseteq Nat \ {0} /\ MaxFaults \in Nat

Sessions == 1..MaxSessions
NoSession == 0
Home == 1
Keys == {a.key : a \in Asks} \ {NoKey}
Scopes == Sessions \X {"generate", "upload"} \X Keys  \* keys of idempotency_records

VARIABLES
  session,  \* the sessions table: [state, owner]
  cookie,   \* the session each browser holds the token of
  req,      \* each request: its stage, what it asks, what it has read
  answer,   \* the job a request was answered with, or how it ended
  record,   \* idempotency_records: the job of a scope
  job,      \* the jobs table
  doc,      \* documents.status of the document, "gone" without a row
  chunks,   \* the session_id its document_chunks carry, NoSession without rows
  cached,   \* its processed artefact is there and current
  faults,   \* number of faults so far
  lapsed,   \* history: scopes whose record was deleted
  crossed   \* history: jobs whose chunks another session's job took over
            \* between their own backfill and their second read

people == <<session, cookie>>
admission == <<record, lapsed>>
reading == <<chunks, crossed>>
vars == <<session, cookie, req, answer, record, job, doc, chunks, cached,
          faults, lapsed, crossed>>

Fault == faults < MaxFaults /\ faults' = faults + 1

Asked(r) == req[r].ask
Scope(r) == <<req[r].session, Asked(r).kind, Asked(r).key>>
Keyed(r) == Asked(r).key # NoKey
Owner(s) == session[s].owner
Active == {"queued", "running", "missed", "reread"}
JobsOf(s) == {j \in Requests : /\ job[j].session = s /\ job[j].state # "gone"
                               /\ Asked(j).kind = "generate"}
ActiveJobs(s) == {j \in JobsOf(s) : job[j].state \in Active}
RecentJobs(s) == {j \in JobsOf(s) : job[j].recent}

Unused == {s \in Sessions : session[s].state = "unused"}
Fresh == CHOOSE s \in Unused : TRUE

NoAsk == [kind |-> "none", browser |-> Nobody, user |-> Nobody, key |-> NoKey,
          payload |-> 0]
Idle == [stage |-> "idle", ask |-> NoAsk, session |-> NoSession,
         owner |-> Nobody, new |-> FALSE]
NotAJob(state) == [state |-> state, session |-> NoSession, user |-> Nobody,
                   recent |-> FALSE]

Init ==
  /\ \E u \in Users \cup {Nobody} :
       session = [s \in Sessions |-> IF s = Home THEN [state |-> "live", owner |-> u]
                                     ELSE [state |-> "unused", owner |-> Nobody]]
  /\ cookie = [b \in Browsers |-> IF b = Uploader THEN Home ELSE NoSession]
  /\ req = [r \in Requests |-> Idle]
  /\ answer = [r \in Requests |-> NoJob]
  /\ record = [x \in Scopes |-> NoJob]
  /\ job = [j \in Requests |-> NotAJob("none")]
  /\ doc = "ready" /\ chunks = Home /\ cached = TRUE
  /\ faults = 0 /\ lapsed = {} /\ crossed = {}

-----------------------------------------------------------------------------
(* The session middleware.                                                 *)

\* resolve_session, or create_session for no valid cookie.  What it returns of the
\* owner is kept while the identity is being verified.
Arrive(r, a) ==
  LET held == cookie[a.browser]
      valid == held # NoSession /\ session[held].state = "live"
      s == IF valid THEN held ELSE Fresh
  IN /\ req[r].stage = "idle"
     /\ valid \/ Unused # {}
     /\ req' = [req EXCEPT ![r] = [stage |-> "identify", ask |-> a, session |-> s,
                                   owner |-> Owner(s), new |-> ~valid]]
     /\ session' = [session EXCEPT ![s].state = "live"]
     /\ UNCHANGED <<cookie, answer, job, doc, cached, admission, reading, faults>>

\* What was read is forgotten once it is of no more use.
GoesIn(r, stage, s, new) ==
  req' = [req EXCEPT ![r] = [stage |-> stage, ask |-> Asked(r), session |-> s,
                             owner |-> Nobody, new |-> new]]

Goes(r, stage) == GoesIn(r, stage, req[r].session, req[r].new /\ stage # "done")

Route(r) == CASE Asked(r).kind = "logout" -> "respond"
              [] Asked(r).kind = "generate" -> "look"
              [] OTHER -> "admit"

\* claim_session: the session and the exams of its jobs become the user's.
Attached(s, u) == [session EXCEPT ![s].owner = u]
ExamsAttached(s, u) ==
  [j \in Requests |-> IF job[j].session = s /\ job[j].user = Nobody
                      THEN [job[j] EXCEPT !.user = u] ELSE job[j]]

\* Mutant of Claimable: what the middleware resolved is trusted.
ClaimableUnlocked(s, u) == TRUE

\* claim_session refuses a session that belongs to another user.
Claimable(s, u) == Owner(s) \in {Nobody, u}

\* The owner the session had when it was resolved.
Familiar(r) == req[r].owner \in {Nobody, Asked(r).user}

\* The request keeps its session, attached to its user if it has one.
Stay(r) ==
  LET s == req[r].session u == Asked(r).user
  IN /\ req[r].stage = "identify" /\ Familiar(r)
     /\ IF u = Nobody THEN UNCHANGED <<session, job>>
        ELSE /\ session[s].state # "gone" /\ Claimable(s, u)
             /\ session' = Attached(s, u) /\ job' = ExamsAttached(s, u)
     /\ Goes(r, Route(r))
     /\ UNCHANGED <<cookie, answer, doc, cached, admission, reading, faults>>

Revoked(s) == IF session[s].state = "live" THEN [session EXCEPT ![s].state = "expired"]
              ELSE session

\* Signed out, another user, or a session claimed meanwhile: a new session, and the
\* old one is revoked if its resolved owner already was another.
Move(r) ==
  LET s == req[r].session u == Asked(r).user
      left == IF Familiar(r) THEN session ELSE Revoked(s)
  IN /\ req[r].stage = "identify" /\ Unused # {}
     /\ ~Familiar(r) \/ (u # Nobody /\ session[s].state # "gone" /\ ~Claimable(s, u))
     /\ session' = [left EXCEPT ![Fresh] = [state |-> "live", owner |-> u]]
     /\ GoesIn(r, Route(r), Fresh, TRUE)
     /\ UNCHANGED <<cookie, answer, job, doc, cached, admission, reading, faults>>

\* claim_session finds no row: the middleware does not catch ResourceNotFound.
Broken(r) ==
  /\ req[r].stage = "identify" /\ Familiar(r) /\ Asked(r).user # Nobody
  /\ session[req[r].session].state = "gone"
  /\ Goes(r, "done") /\ answer' = [answer EXCEPT ![r] = "error"]
  /\ UNCHANGED <<people, job, doc, cached, admission, reading, faults>>

\* The response writes the cookie of a new session; after a logout, of another one.
Respond(r) ==
  LET s == req[r].session
      out == Asked(r).kind = "logout"
  IN /\ req[r].stage = "respond"
     /\ out => Unused # {}
     /\ session' = IF out THEN [Revoked(s) EXCEPT ![Fresh].state = "live"] ELSE session
     /\ cookie' = IF out THEN [cookie EXCEPT ![Asked(r).browser] = Fresh]
                  ELSE IF req[r].new THEN [cookie EXCEPT ![Asked(r).browser] = s]
                  ELSE cookie
     /\ Goes(r, "done")
     /\ UNCHANGED <<answer, job, doc, cached, admission, reading, faults>>

-----------------------------------------------------------------------------
(* Admission.                                                              *)

\* The document is in the session, or in another session of the user.
Visible(r) ==
  /\ doc \notin {"deleted", "gone"}
  /\ req[r].session = Home \/ (Asked(r).user # Nobody /\ Owner(Home) = Asked(r).user)

Answer(r, what) == answer' = [answer EXCEPT ![r] = what] /\ Goes(r, "respond")

\* The route of a generation looks at the document before the transaction does.
Look(r) ==
  /\ req[r].stage = "look"
  /\ IF Visible(r) /\ doc = "ready" THEN Goes(r, "admit") /\ UNCHANGED answer
     ELSE Answer(r, "refused")
  /\ UNCHANGED <<people, job, doc, cached, admission, reading, faults>>

\* pg_advisory_xact_lock, held from the reads of the transaction to its insert: on the
\* session for a generation, on the session and the key for an upload that has one.
Locks(r, t) ==
  /\ req[t].stage = "insert" /\ req[t].session = req[r].session
  /\ Asked(t).kind = Asked(r).kind
  /\ Asked(r).kind = "upload" => Keyed(r) /\ Asked(t).key = Asked(r).key

\* Mutant of Unlocked: the lock is on the session and the key for both.
UnlockedByKey(r) ==
  \A t \in Requests : ~(Locks(r, t) /\ Keyed(r) /\ Asked(t).key = Asked(r).key)

Unlocked(r) == \A t \in Requests : ~Locks(r, t)

Known(r) == Keyed(r) /\ record[Scope(r)] # NoJob

\* The transaction finds the key: it answers with the job, or 409 for other data.
Replay(r) ==
  /\ req[r].stage = "admit" /\ Unlocked(r) /\ Known(r)
  /\ LET j == record[Scope(r)]
     IN Answer(r, IF Asked(j).payload = Asked(r).payload THEN j ELSE "refused")
  /\ UNCHANGED <<people, job, doc, cached, admission, reading, faults>>

\* What else the transaction of a generation reads.
Admissible(r) ==
  /\ Visible(r) /\ doc = "ready"
  /\ Cardinality(ActiveJobs(req[r].session)) < MaxActive
  /\ Cardinality(RecentJobs(req[r].session)) < PerMinute

Decide(r) ==
  /\ req[r].stage = "admit" /\ Unlocked(r) /\ ~Known(r)
  /\ IF Asked(r).kind = "generate" /\ ~Admissible(r) THEN Answer(r, "refused")
     ELSE Goes(r, "insert") /\ UNCHANGED answer
  /\ UNCHANGED <<people, job, doc, cached, admission, reading, faults>>

\* What the inserted rows refer to.
Referred(r) ==
  /\ session[req[r].session].state # "gone"
  /\ Asked(r).kind = "generate" => doc # "gone"

\* The inserts and the commit; an exam takes the owner of its session.
Insert(r) ==
  LET s == req[r].session
  IN /\ req[r].stage = "insert" /\ Referred(r)
     /\ job' = [job EXCEPT ![r] = [state |-> "queued", session |-> s,
                                   user |-> IF Asked(r).kind = "generate"
                                            THEN Owner(s) ELSE Nobody,
                                   recent |-> Asked(r).kind = "generate"]]
     /\ record' = IF Keyed(r) THEN [record EXCEPT ![Scope(r)] = r] ELSE record
     /\ Goes(r, "publish")
     /\ UNCHANGED <<people, answer, doc, chunks, cached, lapsed, crossed, faults>>

\* The session or the document was deleted between the reads and the inserts.
InsertFails(r) ==
  /\ req[r].stage = "insert" /\ ~Referred(r) /\ Answer(r, "error")
  /\ UNCHANGED <<people, job, doc, cached, admission, reading, faults>>

Publish(r) ==
  /\ req[r].stage = "publish" /\ Answer(r, r)
  /\ UNCHANGED <<people, job, doc, cached, admission, reading, faults>>

\* The broker is down: 503.  A generation is failed, an upload waits for the sweep of
\* undispatched jobs; either keeps its idempotency record.
QueueDown(r) ==
  /\ req[r].stage = "publish" /\ Fault /\ Answer(r, "error")
  /\ job' = IF Asked(r).kind = "generate" /\ job[r].state \in Active
            THEN [job EXCEPT ![r].state = "ended"] ELSE job
  /\ UNCHANGED <<people, doc, cached, admission, reading>>

-----------------------------------------------------------------------------
(* The worker: retrieve_selected for a generation.  Its document has a row *)
(* as long as it has one itself.                                           *)

JobGoes(j, state) == job' = [job EXCEPT ![j].state = state]

\* get_by_child_ids: the rows of the document under the session of the job.
Found(j) == chunks = job[j].session

\* The first read of the chunks.
Read(j) ==
  /\ job[j].state = "queued" /\ Asked(j).kind = "generate"
  /\ JobGoes(j, IF Found(j) THEN "running" ELSE IF cached THEN "missed" ELSE "unserved")
  /\ UNCHANGED <<people, req, answer, doc, cached, admission, reading, faults>>

\* Mutant of Publisher: the rows go back to the session of the upload.
PublisherHome(j) == Home

\* The session replace_document writes into the rows of all the chunks.
Publisher(j) == job[j].session

\* replace_document, authorised by the completed ingestion job, one transaction under
\* the lock of the document.
Backfill(j) ==
  /\ job[j].state = "missed"
  /\ chunks' = Publisher(j) /\ JobGoes(j, "reread")
  /\ crossed' = crossed \cup {k \in Requests : job[k].state = "reread"
                                               /\ job[k].session # Publisher(j)}
  /\ UNCHANGED <<people, req, answer, doc, cached, admission, faults>>

\* The second read; what is still missing ends the job.
Reread(j) ==
  /\ job[j].state = "reread"
  /\ JobGoes(j, IF Found(j) THEN "running" ELSE "unserved")
  /\ UNCHANGED <<people, req, answer, doc, cached, admission, reading, faults>>

\* The generation ends; the ingestion of an upload does at any time.
EndJob(j) ==
  /\ job[j].state = (IF Asked(j).kind = "upload" THEN "queued" ELSE "running")
  /\ JobGoes(j, "ended")
  /\ UNCHANGED <<people, req, answer, doc, cached, admission, reading, faults>>

-----------------------------------------------------------------------------
(* Time and the sweep.                                                     *)

Minute(j) ==
  /\ job[j].recent /\ job' = [job EXCEPT ![j].recent = FALSE]
  /\ UNCHANGED <<people, req, answer, doc, cached, admission, reading, faults>>

\* expires_at of a record has passed: a later request deletes it before it looks.
Lapse(x) ==
  /\ record[x] # NoJob /\ Fault
  /\ record' = [record EXCEPT ![x] = NoJob] /\ lapsed' = lapsed \cup {x}
  /\ UNCHANGED <<people, req, answer, job, doc, cached, reading>>

Expire(s) ==
  /\ session[s].state = "live" /\ Fault /\ session' = Revoked(s)
  /\ UNCHANGED <<cookie, req, answer, job, doc, cached, admission, reading>>

\* The artefact is deleted, or was written by another version of the pipeline.
CacheLost ==
  /\ cached /\ Fault /\ cached' = FALSE
  /\ UNCHANGED <<people, req, answer, job, doc, admission, reading>>

\* The sweep deletes the chunks and files of a document of an expired session.
SweepDocument ==
  /\ session[Home].state = "expired" /\ doc = "ready"
  /\ doc' = "deleted" /\ chunks' = NoSession
  /\ UNCHANGED <<people, req, answer, job, cached, admission, crossed, faults>>

\* DELETE FROM sessions, with everything that refers to them.
DeleteSessions ==
  LET Gone == {s \in Sessions : session[s].state = "expired"}
      Jobs == {j \in Requests : /\ job[j].state # "none"
                                /\ \/ job[j].session \in Gone
                                   \/ Home \in Gone /\ Asked(j).kind = "generate"}
      Records == {x \in Scopes : record[x] \in Jobs}
  IN /\ Gone # {}
     /\ session' = [s \in Sessions |-> IF s \in Gone THEN [session[s] EXCEPT !.state = "gone"]
                                       ELSE session[s]]
     /\ job' = [j \in Requests |-> IF j \in Jobs THEN NotAJob("gone")
                                   ELSE job[j]]
     /\ record' = [x \in Scopes |-> IF x \in Records THEN NoJob ELSE record[x]]
     /\ lapsed' = lapsed \cup Records
     /\ doc' = IF Home \in Gone THEN "gone" ELSE doc
     /\ chunks' = IF {chunks, Home} \cap Gone # {} THEN NoSession ELSE chunks
     /\ UNCHANGED <<cookie, req, answer, cached, crossed, faults>>

-----------------------------------------------------------------------------
Handle(r) ==
  \/ \E a \in Asks : Arrive(r, a)
  \/ Stay(r) \/ Move(r) \/ Broken(r) \/ Respond(r)
  \/ Look(r) \/ Replay(r) \/ Decide(r) \/ Insert(r) \/ InsertFails(r)
  \/ Publish(r) \/ QueueDown(r)

Work(j) == Read(j) \/ Backfill(j) \/ Reread(j) \/ EndJob(j) \/ Minute(j)

Next ==
  \/ \E r \in Requests : Handle(r) \/ Work(r)
  \/ \E x \in Scopes : Lapse(x)
  \/ \E s \in Sessions : Expire(s)
  \/ CacheLost \/ SweepDocument \/ DeleteSessions

Spec == Init /\ [][Next]_vars

-----------------------------------------------------------------------------
(* Properties.                                                             *)

\* Every variable is of its type.
TypeOK ==
  /\ session \in [Sessions -> [state : {"unused", "live", "expired", "gone"},
                              owner : Users \cup {Nobody}]]
  /\ cookie \in [Browsers -> Sessions \cup {NoSession}]
  /\ req \in [Requests -> [stage : {"idle", "identify", "look", "admit", "insert", "publish",
                                   "respond", "done"},
                          ask : Asks \cup {NoAsk}, session : Sessions \cup {NoSession},
                          owner : Users \cup {Nobody}, new : BOOLEAN]]
  /\ answer \in [Requests -> Requests \cup {NoJob, "refused", "error"}]
  /\ record \in [Scopes -> Requests \cup {NoJob}]
  /\ job \in [Requests -> [state : Active \cup {"none", "unserved", "ended", "gone"},
                          session : Sessions \cup {NoSession},
                          user : Users \cup {Nobody}, recent : BOOLEAN]]
  /\ doc \in {"ready", "deleted", "gone"} /\ chunks \in Sessions \cup {NoSession}
  /\ cached \in BOOLEAN /\ faults \in Nat
  /\ lapsed \subseteq Scopes /\ crossed \subseteq Requests

\* However many requests of a session are admitted at the same time, it never has
\* more active generation jobs, nor more made in a minute, than the limits allow.
LimitsHold ==
  \A s \in Sessions : /\ Cardinality(ActiveJobs(s)) <= MaxActive
                      /\ Cardinality(RecentJobs(s)) <= PerMinute

\* Two requests of a session that were accepted under one key, as long as its record
\* lives, asked for the same thing and were answered with the same job.
OneJobPerKey ==
  \A r, t \in Requests :
    /\ {answer[r], answer[t]} \subseteq Requests
    /\ Keyed(r) /\ Scope(r) = Scope(t) /\ Scope(r) \notin lapsed
    => answer[r] = answer[t] /\ Asked(r).payload = Asked(t).payload

\* create_generation_job, create_document_with_job_idempotent: what admission
\* promises to requests in any interleaving.
Admitted == LimitsHold /\ OneJobPerKey

\* A job on the document, and the chunks it rewrote, are in the session of the upload
\* or in one of the user who owns that session; and an exam belongs to whom its session
\* belongs, though sign-in and admission run at the same time and ownership is
\* decided on what was read before.
OwnMaterial ==
  LET own(s) == s = Home \/ (Owner(s) = Owner(Home) /\ Owner(Home) # Nobody)
  IN /\ chunks # NoSession => own(chunks)
     /\ \A j \in Requests : /\ Asked(j).kind = "generate"
                            /\ job[j].state \notin {"none", "gone"}
                            => own(job[j].session) /\ job[j].user = Owner(job[j].session)

\* A job fails for missing chunks, "Re-index the document", only when the cache or the
\* document is gone, or when a job of another session took the chunks over between its
\* own backfill and its second read.
ServedUnlessCrossed ==
  \A j \in Requests : job[j].state = "unserved" =>
    j \in crossed \/ ~cached \/ doc # "ready"
=============================================================================
