-------------------------------- MODULE Page --------------------------------
(***************************************************************************)
(* The browser page: the upload of a file, its removal, the choice of      *)
(* sections and the generation of an exam, and the server as the page sees *)
(* it.  Every await of a handler is a point where the user and the other   *)
(* handlers go on: a handler is a flow with a stage, and what it read      *)
(* before the await may be out of date after it.                           *)
(*                                                                         *)
(* What the page does about it: a version counted up by every pick and     *)
(* removal, and a key in sessionStorage for each operation not answered    *)
(* yet, which makes the server repeat its answer.                          *)
(*                                                                         *)
(* A job, its document and the key it was accepted under have one number.  *)
(* Left out: the wording of messages, saved exams, exports, signing in,    *)
(* the checks of file names and of logos.                                  *)
(***************************************************************************)
EXTENDS Integers, FiniteSets

CONSTANTS
  Files,      \* the user's files
  Settings,   \* the settings of an exam
  MaxPicks,   \* how many files are picked: a bound of the model
  MaxGens,    \* how often Generate is clicked: a bound of the model
  Removals,   \* the removals that may wait for their DELETE at once: a bound of the model
  MaxFaults   \* how many calls fail, pages are reloaded or jobs fail: a bound

ASSUME BoundsAssumption == {MaxPicks, MaxGens, MaxFaults} \subseteq Nat

Picks == 1..MaxPicks
Gens == 1..MaxGens

VARIABLES
  page,      \* the state of the page: see Blank
  flow,      \* the uploadFile calls: [stage, version, key]
  loads,     \* loadDocumentSections calls: [doc, version, why]
  removing,  \* the removals waiting for their DELETE: [stage, job]
  gen,       \* the click on Generate being handled
  cancels,   \* the DELETE calls under way for generations
  stored,    \* sessionStorage: the upload key of each file, or 0
  genKey,    \* sessionStorage: the generation key of each document, or 0
  restored,  \* sessionStorage: the document to restore, or 0
  clicks,    \* how many picks and clicks there were
  ingest,    \* the server's ingestion jobs
  file,      \* the file of each key
  exam,      \* the server's generation jobs: [status, payload]
  chosen,    \* history: the document the user last chose and did not remove
  stopped,   \* history: generations whose Stop was clicked, at the last click on Generate
  lost,      \* history: jobs the page has lost sight of, in a way named below
  faults

vars == <<page, flow, loads, removing, gen, cancels, stored, genKey, restored, clicks,
          ingest, file, exam, chosen, stopped, lost, faults>>
storage == <<stored, genKey, restored>>
server == <<ingest, file, exam>>
history == <<chosen, stopped>>
uploads == <<flow, loads, removing>>
generating == <<gen, cancels>>

Fault == faults < MaxFaults /\ faults' = faults + 1

Blank == [version |-> 0, done |-> FALSE, doc |-> 0, job |-> 0, tree |-> 0,
          selected |-> 0, pill |-> FALSE, cancelling |-> FALSE, operation |-> 0,
          controller |-> 0]
Idle == [stage |-> "idle", version |-> 0, key |-> 0]
NoRemoval == [stage |-> "none", job |-> 0]
NoGen == [stage |-> "idle", key |-> 0, payload |-> <<0, 0, 0>>, stop |-> FALSE]
NoExam == [status |-> "none", payload |-> <<0, 0, 0>>]

Init ==
  /\ page = Blank
  /\ flow = [n \in Picks |-> Idle] /\ loads = {}
  /\ removing = [r \in Removals |-> NoRemoval]
  /\ gen = NoGen /\ cancels = {}
  /\ stored = [f \in Files |-> 0] /\ genKey = [d \in Picks |-> 0] /\ restored = 0
  /\ clicks = [picks |-> 0, gens |-> 0]
  /\ ingest = [k \in Picks |-> "none"]
  /\ file \in [Picks -> Files]
  /\ exam = [k \in Gens |-> NoExam]
  /\ chosen = 0 /\ stopped = {} /\ lost = {} /\ faults = 0

UploadLost(k) == [kind |-> "upload", key |-> k]
ExamLost(k) == [kind |-> "exam", key |-> k]
InFlight(n) == flow[n].stage \in {"posting", "accepted", "refused", "failed", "watching"}
Current(n) == flow[n].version = page.version
End(n) == flow' = [flow EXCEPT ![n] = Idle]

\* completeIdempotentOperation: the key of an upload is forgotten.
Forgotten(k) == [f \in Files |-> IF stored[f] = k THEN 0 ELSE stored[f]]

\* clearUploadUi.
Cleared == [Blank EXCEPT !.version = page.version + 1, !.cancelling = page.cancelling,
                         !.controller = page.controller]
Clear ==
  /\ page' = Cleared
  /\ restored' = 0 /\ chosen' = 0
  /\ stored' = Forgotten(page.operation)

-----------------------------------------------------------------------------
(* Upload.                                                                 *)

\* uploadFile up to its fetch.  The key of an unanswered upload of this file is used
\* again.  An earlier upload is not aborted, and nobody waits for it any more.
Pick ==
  LET n == clicks.picks + 1
      k == IF stored[file[n]] # 0 THEN stored[file[n]] ELSE n
  IN /\ n \in Picks
     /\ clicks' = [clicks EXCEPT !.picks = n]
     /\ page' = [page EXCEPT !.version = @ + 1, !.done = FALSE, !.doc = 0, !.tree = 0, !.pill = TRUE,
                             !.cancelling = FALSE, !.operation = k, !.controller = n]
     /\ flow' = [flow EXCEPT ![n] = [stage |-> "posting", version |-> page.version + 1,
                                     key |-> k]]
     /\ stored' = [stored EXCEPT ![file[n]] = k]
     /\ chosen' = k
     /\ lost' = lost \cup {UploadLost(flow[m].key) : m \in {o \in Picks : InFlight(o)}}
     /\ UNCHANGED <<loads, removing, generating, genKey, restored, server, stopped, faults>>

\* The server accepts the upload, or finds its key and answers with the job.
Accept(n) ==
  /\ flow[n].stage = "posting"
  /\ flow' = [flow EXCEPT ![n].stage = "accepted"]
  /\ ingest' = [ingest EXCEPT ![flow[n].key] = IF @ = "none" THEN "active" ELSE @]
  /\ UNCHANGED <<page, loads, removing, generating, storage, clicks, file, exam, history, lost,
                 faults>>

\* 4xx for the file; 503, with the job inserted or not; or no answer.
Refuse(n) ==
  /\ flow[n].stage = "posting" /\ Fault
  /\ \/ /\ ingest[flow[n].key] = "none"
        /\ flow' = [flow EXCEPT ![n].stage = "refused"] /\ UNCHANGED <<ingest, lost>>
     \/ /\ flow' = [flow EXCEPT ![n].stage = "failed"]
        /\ \/ UNCHANGED <<ingest, lost>>
           \/ /\ ingest[flow[n].key] = "none"
              /\ ingest' = [ingest EXCEPT ![flow[n].key] = "active"]
              /\ lost' = lost \cup {UploadLost(flow[n].key)}
  /\ UNCHANGED <<page, loads, removing, generating, storage, clicks, file, exam, history>>

NoController == [page EXCEPT !.controller = 0]

\* The answer: out of date, it is dropped, and the key is kept for another pick.
Accepted(n) ==
  /\ flow[n].stage = "accepted"
  /\ IF Current(n)
     THEN /\ flow' = [flow EXCEPT ![n].stage = "watching"]
          /\ page' = [NoController EXCEPT !.operation = 0, !.job = flow[n].key]
          /\ stored' = Forgotten(flow[n].key)
     ELSE End(n) /\ page' = NoController /\ UNCHANGED stored
  /\ UNCHANGED <<loads, removing, generating, genKey, restored, clicks, server, history, lost,
                 faults>>

\* An error answer is shown whatever the version.
Refused(n) ==
  /\ flow[n].stage \in {"refused", "failed"} /\ End(n)
  /\ page' = NoController
  /\ stored' = IF flow[n].stage = "refused" THEN Forgotten(flow[n].key) ELSE stored
  /\ UNCHANGED <<loads, removing, generating, genKey, restored, clicks, server, history, lost,
                 faults>>

\* The catch of uploadFile: a cancelled upload clears the page, another error is shown.
Abandon(n, cancelled) ==
  /\ End(n)
  /\ IF Current(n) /\ (cancelled \/ page.cancelling)
     THEN /\ page' = [Cleared EXCEPT !.controller = 0]
          /\ stored' = Forgotten(flow[n].key) /\ restored' = 0 /\ chosen' = 0
     ELSE page' = NoController /\ UNCHANGED <<stored, restored, chosen>>

Aborted(n) ==
  /\ flow[n].stage = "aborted" /\ Abandon(n, TRUE)
  /\ UNCHANGED <<loads, removing, generating, genKey, clicks, server, stopped, lost, faults>>

\* Mutant of Wanted: the version is not looked at after the wait.
WantedAnyway(n) == TRUE

\* After waitForJob: an upload that nobody waits for any more changes nothing.
Wanted(n) == Current(n)

\* waitForJob sees the end of the job.
JobSeen(n) ==
  LET k == flow[n].key
  IN /\ flow[n].stage = "watching" /\ ingest[k] \in {"ready", "failed", "cancelled"}
     /\ IF ingest[k] = "ready" /\ Wanted(n)
        THEN /\ End(n)
             /\ page' = [NoController EXCEPT !.done = TRUE, !.doc = k]
             /\ restored' = k
             /\ loads' = loads \cup {[doc |-> k, version |-> flow[n].version,
                                      why |-> "upload"]}
             /\ UNCHANGED <<stored, chosen>>
        ELSE /\ IF ingest[k] = "ready"
                THEN End(n) /\ page' = NoController /\ UNCHANGED <<stored, restored, chosen>>
                ELSE Abandon(n, ingest[k] = "cancelled")
             /\ UNCHANGED loads
     /\ UNCHANGED <<removing, generating, genKey, clicks, server, stopped, lost, faults>>

\* One poll that fails ends the watch.
PollFails(n) ==
  /\ flow[n].stage = "watching" /\ Fault /\ Abandon(n, FALSE)
  /\ lost' = lost \cup {UploadLost(flow[n].key)}
  /\ UNCHANGED <<loads, removing, generating, genKey, clicks, server, stopped>>

\* The finally of uploadFile is run after its load, whose upload the controller may be by then.
Settled(l) == IF l.why = "upload" THEN NoController ELSE page

\* loadDocumentSections: the answer for another version or document is dropped.
Loaded(l) ==
  /\ l \in loads /\ loads' = loads \ {l}
  /\ page' = IF l.version = page.version /\ l.doc = page.doc
             THEN [Settled(l) EXCEPT !.tree = l.doc, !.done = TRUE,
                                     !.selected = IF l.why = "retry" /\ @ = l.doc THEN @ ELSE 0]
             ELSE Settled(l)
  /\ UNCHANGED <<flow, removing, generating, storage, clicks, server, history, lost, faults>>

\* The load fails: an upload stays done, with no sections to choose from.
LoadFails(l) ==
  /\ l \in loads /\ Fault /\ loads' = loads \ {l}
  /\ page' = Settled(l)
  /\ UNCHANGED <<flow, removing, generating, storage, clicks, server, history, lost>>

\* It throws while a removal waits: what was ready a moment ago is taken for cancelled.
LoadThrows(l) ==
  /\ l \in loads /\ Fault /\ loads' = loads \ {l}
  /\ l.why = "upload" /\ l.version = page.version /\ page.cancelling
  /\ page' = [Cleared EXCEPT !.controller = 0]
  /\ stored' = Forgotten(l.doc) /\ restored' = 0 /\ chosen' = 0
  /\ UNCHANGED <<flow, removing, generating, genKey, clicks, server, stopped, lost>>

\* The button below a failed load.
RetrySections ==
  /\ page.doc # 0 /\ page.tree = 0 /\ loads = {}
  /\ loads' = {[doc |-> page.doc, version |-> page.version, why |-> "retry"]}
  /\ UNCHANGED <<page, flow, removing, generating, storage, clicks, server, history, lost, faults>>

-----------------------------------------------------------------------------
(* Removal.                                                                *)

\* A finished upload is only cleared.
RemoveDone ==
  /\ page.pill /\ page.done /\ Clear
  /\ UNCHANGED <<flow, loads, removing, generating, genKey, clicks, server, stopped, lost, faults>>

\* uploadController.abort(): the request may have reached the server.
AbortedFlow ==
  LET n == page.controller
  IN IF n # 0 /\ flow[n].stage \in {"posting", "accepted", "refused", "failed"}
     THEN [flow EXCEPT ![n].stage = "aborted"] ELSE flow

\* An upload under way: abort the request, cancel the job if one is known.  What the
\* page knows no job of may go on.  A second click is another removal.
RemoveRunning ==
  /\ page.pill /\ ~page.done
  /\ flow' = AbortedFlow
  /\ lost' = lost \cup {UploadLost(flow[n].key) :
                          n \in {m \in Picks : InFlight(m) /\ flow[m].stage # "watching"}}
  /\ IF page.job # 0
     THEN /\ \E r \in Removals :
               /\ removing[r] = NoRemoval
               /\ removing' = [removing EXCEPT ![r] = [stage |-> "sent", job |-> page.job]]
          /\ page' = [page EXCEPT !.cancelling = TRUE]
          /\ UNCHANGED <<stored, restored, chosen>>
     ELSE /\ page' = [Cleared EXCEPT !.cancelling = TRUE]
          /\ restored' = 0 /\ chosen' = 0 /\ stored' = Forgotten(page.operation)
          /\ UNCHANGED removing
  /\ UNCHANGED <<loads, generating, genKey, clicks, server, stopped, faults>>

\* DELETE /jobs on the server: an active job is cancelled, any other is left alone.
Delete(r) ==
  /\ removing[r].stage = "sent"
  /\ removing' = [removing EXCEPT ![r].stage = "answered"]
  /\ ingest' = [ingest EXCEPT ![removing[r].job] = IF @ = "active" THEN "cancelled" ELSE @]
  /\ UNCHANGED <<page, flow, loads, generating, storage, clicks, file, exam, history, lost, faults>>

\* The answer clears whatever the page is doing by then, an upload begun meanwhile too.
Deleted(r) ==
  /\ removing[r].stage = "answered" /\ removing' = [removing EXCEPT ![r] = NoRemoval] /\ Clear
  /\ lost' = lost \cup {UploadLost(flow[n].key) : n \in {m \in Picks : InFlight(m)}}
  /\ UNCHANGED <<flow, loads, generating, genKey, clicks, server, stopped, faults>>

DeleteFails(r) ==
  /\ removing[r].stage \in {"sent", "answered"} /\ Fault
  /\ removing' = [removing EXCEPT ![r] = NoRemoval]
  /\ page' = [page EXCEPT !.cancelling = FALSE]
  /\ UNCHANGED <<flow, loads, generating, storage, clicks, server, history, lost>>

-----------------------------------------------------------------------------
(* The choice of sections, and the generation.                             *)

Select ==
  /\ page.tree # 0 /\ page' = [page EXCEPT !.selected = page.tree]
  /\ UNCHANGED <<uploads, generating, storage, clicks, server, history, lost, faults>>

\* Generate: checked before the logos are read.
Generate ==
  /\ gen.stage = "idle" /\ page.done /\ page.selected # 0 /\ clicks.gens < MaxGens
  /\ clicks' = [clicks EXCEPT !.gens = @ + 1]
  /\ gen' = [NoGen EXCEPT !.stage = "preparing"]
  /\ UNCHANGED <<page, uploads, cancels, storage, server, history, lost, faults>>

\* After the logos: the body, and the key of an unanswered generation of the document.
\* Without a document the server answers 422.
Post(setting) ==
  LET d == page.doc
      k == IF genKey[d] # 0 THEN genKey[d] ELSE clicks.gens
  IN /\ gen.stage = "preparing"
     /\ IF d = 0 THEN gen' = NoGen /\ UNCHANGED genKey
        ELSE /\ gen' = [gen EXCEPT !.stage = "posting", !.key = k,
                                   !.payload = <<d, page.selected, setting>>]
             /\ genKey' = [genKey EXCEPT ![d] = k]
     /\ stopped' = IF d = 0 THEN stopped
                   ELSE IF gen.stop THEN stopped \cup {k} ELSE stopped \ {k}
     /\ UNCHANGED <<page, uploads, cancels, stored, restored, clicks, server, chosen,
                    lost, faults>>

\* _validate_child_selection: the sections belong to the document.
Fits(payload) == payload[1] = payload[2]

GenArrives ==
  LET k == gen.key
      known == exam[k].status # "none"
      good == IF known THEN exam[k].payload = gen.payload
              ELSE Fits(gen.payload) /\ ingest[gen.payload[1]] = "ready"
  IN /\ gen.stage = "posting"
     /\ gen' = [gen EXCEPT !.stage = IF good THEN "accepted" ELSE "refused"]
     /\ exam' = IF good /\ ~known
                THEN [exam EXCEPT ![k] = [status |-> "active", payload |-> gen.payload]]
                ELSE exam
     /\ UNCHANGED <<page, uploads, cancels, storage, clicks, ingest, file, history, lost,
                    faults>>

\* No answer, or 503 after the job was made and failed: the key is kept.
GenFails ==
  LET k == gen.key
  IN /\ gen.stage \in {"posting", "accepted"} /\ Fault /\ gen' = NoGen
     /\ \/ /\ gen.stage = "posting" /\ exam[k].status = "none" /\ Fits(gen.payload)
           /\ exam' = [exam EXCEPT ![k] = [status |-> "failed", payload |-> gen.payload]]
        \/ UNCHANGED exam
     /\ lost' = lost \cup {ExamLost(k)}
     /\ UNCHANGED <<page, uploads, cancels, storage, clicks, ingest, file, history>>

GenForgotten == [genKey EXCEPT ![gen.payload[1]] = 0]

GenRefused ==
  /\ gen.stage = "refused" /\ gen' = NoGen /\ genKey' = GenForgotten
  /\ UNCHANGED <<page, uploads, cancels, stored, restored, clicks, server, history, lost,
                 faults>>

\* Mutant of StopsOnAnswer: Stop only counts once the job is known.
StopForgotten == FALSE

\* What Stop asked for while the answer was awaited.
StopsOnAnswer == gen.stop

\* The answer: Stop is carried out now if it was clicked before.
GenAccepted ==
  /\ gen.stage = "accepted" /\ genKey' = GenForgotten
  /\ gen' = [gen EXCEPT !.stage = IF StopsOnAnswer THEN "held" ELSE "watching"]
  /\ cancels' = IF StopsOnAnswer THEN cancels \cup {gen.key} ELSE cancels
  /\ UNCHANGED <<page, uploads, stored, restored, clicks, server, history, lost, faults>>

Stop ==
  /\ gen.stage # "idle" /\ ~gen.stop
  /\ gen' = [gen EXCEPT !.stop = TRUE]
  /\ cancels' = IF gen.stage = "watching" THEN cancels \cup {gen.key} ELSE cancels
  /\ stopped' = IF gen.stage = "preparing" THEN stopped ELSE stopped \cup {gen.key}
  /\ UNCHANGED <<page, uploads, storage, clicks, server, chosen, lost, faults>>

\* The handler that waits for the answer to its DELETE goes on to watch.
Released(k) == IF gen.stage = "held" /\ gen.key = k THEN "watching" ELSE gen.stage

Cancelled(k) ==
  /\ k \in cancels /\ cancels' = cancels \ {k}
  /\ exam' = [exam EXCEPT ![k].status = IF @ = "active" THEN "cancelled" ELSE @]
  /\ gen' = [gen EXCEPT !.stage = Released(k)]
  /\ UNCHANGED <<page, uploads, storage, clicks, ingest, file, history, lost, faults>>

\* The user is told, and a later generation's Stop is forgotten too.
CancelFails(k) ==
  /\ k \in cancels /\ Fault /\ cancels' = cancels \ {k}
  /\ gen' = [gen EXCEPT !.stage = Released(k), !.stop = FALSE]
  /\ stopped' = stopped \ {k, gen.key}
  /\ UNCHANGED <<page, uploads, storage, clicks, server, chosen, lost>>

GenSeen ==
  /\ gen.stage = "watching" /\ exam[gen.key].status # "active" /\ gen' = NoGen
  /\ UNCHANGED <<page, uploads, cancels, storage, clicks, server, history, lost, faults>>

GenPollFails ==
  /\ gen.stage = "watching" /\ Fault /\ gen' = NoGen
  /\ lost' = lost \cup {ExamLost(gen.key)}
  /\ UNCHANGED <<page, uploads, cancels, storage, clicks, server, history>>

-----------------------------------------------------------------------------
(* The server's workers, and a reload.                                     *)

IngestEnds(k) ==
  /\ ingest[k] = "active"
  /\ \/ ingest' = [ingest EXCEPT ![k] = "ready"] /\ UNCHANGED faults
     \/ ingest' = [ingest EXCEPT ![k] = "failed"] /\ Fault
  /\ UNCHANGED <<page, uploads, generating, storage, clicks, file, exam, history, lost>>

ExamEnds(k) ==
  /\ exam[k].status = "active" /\ exam' = [exam EXCEPT ![k].status = "completed"]
  /\ UNCHANGED <<page, uploads, generating, storage, clicks, ingest, file, history, lost,
                 faults>>

\* Only sessionStorage is left, and the last document is loaded again.
Reload ==
  /\ Fault
  /\ page' = [Blank EXCEPT !.version = 1, !.doc = restored]
  /\ flow' = [n \in Picks |-> Idle] /\ removing' = [r \in Removals |-> NoRemoval]
  /\ gen' = NoGen /\ cancels' = {}
  /\ loads' = IF restored = 0 THEN {}
              ELSE {[doc |-> restored, version |-> 1, why |-> "restore"]}
  /\ chosen' = restored
  /\ lost' = lost \cup {UploadLost(flow[n].key) : n \in {m \in Picks : InFlight(m)}}
                  \cup IF gen.stage \in {"idle", "preparing"} THEN {}
                       ELSE {ExamLost(gen.key)}
  /\ UNCHANGED <<storage, clicks, server, stopped>>

-----------------------------------------------------------------------------
UploadStep(n) ==
  Accept(n) \/ Refuse(n) \/ Accepted(n) \/ Refused(n) \/ Aborted(n) \/ JobSeen(n)
  \/ PollFails(n)

Next ==
  \/ Pick \/ \E n \in Picks : UploadStep(n) \/ IngestEnds(n)
  \/ \E l \in loads : Loaded(l) \/ LoadFails(l) \/ LoadThrows(l)
  \/ RetrySections \/ RemoveDone \/ RemoveRunning
  \/ \E r \in Removals : Delete(r) \/ Deleted(r) \/ DeleteFails(r)
  \/ Select \/ Generate \/ (\E setting \in Settings : Post(setting))
  \/ GenArrives \/ GenFails \/ GenRefused \/ GenAccepted \/ Stop \/ GenSeen \/ GenPollFails
  \/ \E k \in Gens : Cancelled(k) \/ CancelFails(k) \/ ExamEnds(k)
  \/ Reload

Spec == Init /\ [][Next]_vars

-----------------------------------------------------------------------------
(* Properties.                                                             *)

\* upload.js, topics.js, _validate_child_selection: however the answers of several
\* uploads, loads and removals are mixed up, the document ready for an exam and the
\* sections shown are those of the last file chosen; and though the selection on the
\* page may be another document's for a while, no exam is made from it.
ShownIsChosen ==
  /\ page.done => page.doc = chosen /\ page.tree \in {0, chosen}
  /\ \A k \in Gens : exam[k].status # "none" => Fits(exam[k].payload)

\* Every job at work is waited for by the page that asked for it, unless the page lost
\* sight of it in one of the ways the history names: another file picked, a request
\* aborted under way, an answer or a poll that failed, a reload.
Watched ==
  /\ \A k \in Picks : ingest[k] = "active" =>
       \/ UploadLost(k) \in lost
       \/ \E n \in Picks : InFlight(n) /\ Current(n) /\ flow[n].key = k
  /\ \A k \in Gens : exam[k].status = "active" =>
       ExamLost(k) \in lost \/ (gen.stage # "idle" /\ gen.key = k)

\* initGenerate: a Stop clicked before the job is known is carried out once it is,
\* unless a failed cancellation was reported.
StopHonoured ==
  gen.stage \in {"held", "watching"} /\ gen.key \in stopped
  /\ exam[gen.key].status = "active" => gen.key \in cancels

Accounted == Watched /\ StopHonoured
=============================================================================
