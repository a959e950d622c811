----------------------------- MODULE PageProofs -----------------------------
(***************************************************************************)
(* Proofs about Page: for any number of files, picks, generations and      *)
(* faults, the page offers only the document chosen last, and every job at *)
(* work is waited for or lost in a way the history names.                  *)
(*                                                                         *)
(* What the proofs turn on is that the version is counted up by each pick  *)
(* and each removal: two handlers under way never have one version, so at  *)
(* most one is current, and all that it reads after an await is its own.   *)
(***************************************************************************)
EXTENDS Page, TLAPS

(* A page that is a function of its fields; only those the proofs read have a type. *)
PageFields == {"version", "done", "doc", "job", "tree", "selected", "pill", "cancelling",
               "operation", "controller"}
PageTyped ==
  /\ DOMAIN page = PageFields
  /\ page.version \in Nat
  /\ page.doc \in Picks \cup {0} /\ page.job \in Picks \cup {0}
  /\ page.tree \in Picks \cup {0} /\ page.selected \in Picks \cup {0}
  /\ page.controller \in Picks \cup {0}

Flows == [stage : {"idle", "posting", "accepted", "refused", "failed", "watching", "aborted"},
          version : Nat, key : Picks \cup {0}]
Removal == [stage : {"none", "sent", "answered"}, job : Picks \cup {0}]
UploadsTyped ==
  /\ flow \in [Picks -> Flows]
  /\ \A l \in loads : l.doc \in Picks
  /\ removing \in [Removals -> Removal]
  /\ stored \in [Files -> Picks \cup {0}]
  /\ restored \in Picks \cup {0} /\ chosen \in Picks \cup {0}
  /\ ingest \in [Picks -> {"none", "active", "ready", "failed", "cancelled"}]
  /\ file \in [Picks -> Files]

Counted == clicks \in [picks : 0..MaxPicks, gens : 0..MaxGens]

Payloads == (Picks \cup {0}) \X (Picks \cup {0}) \X (Settings \cup {0})
Waiting == {"posting", "accepted", "refused"}
GenTyped ==
  /\ DOMAIN gen = {"stage", "key", "payload", "stop"}
  /\ gen.stage \in {"idle", "preparing", "held", "watching"} \cup Waiting
  /\ gen.payload \in Payloads
  /\ gen.stage \in {"idle", "preparing"} => gen.key = 0
  /\ gen.stage \notin {"idle", "preparing"} => gen.key \in Gens
  /\ gen.stage = "preparing" => clicks.gens \in Gens
  /\ genKey \in [Picks -> Gens \cup {0}]
  /\ exam \in [Gens -> [status : {"none", "active", "completed", "failed", "cancelled"},
                        payload : Payloads]]

\* The handlers under way: each has a version of its own and a key.
Versions ==
  /\ \A n \in Picks : flow[n].stage # "idle" =>
       flow[n].version <= page.version /\ flow[n].key \in Picks
  /\ \A n, m \in Picks :
       /\ flow[n].stage # "idle" /\ flow[m].stage # "idle"
       /\ flow[n].version = flow[m].version
       => n = m

\* The sections of an upload are loaded when it has ended: with the page's version, nobody
\* waits for another upload.
Loading ==
  \A l \in loads :
    /\ l.version \in Nat /\ l.version <= page.version
    /\ l.version = page.version => \A n \in Picks : InFlight(n) => ~Current(n)

\* What the page shows, and what the one handler that is current works for.
Shown ==
  /\ page.doc \in {0, chosen} /\ page.tree \in {0, page.doc}
  /\ page.done => page.doc # 0
  /\ \A n \in Picks : InFlight(n) /\ Current(n) => page.doc = 0 /\ flow[n].key = chosen

\* An upload nobody waits for is lost; the answer of one that is current is the page's job;
\* and one that ended with no job leaves none at work.
Followed ==
  /\ \A n \in Picks : InFlight(n) => Current(n) \/ UploadLost(flow[n].key) \in lost
  /\ \A n \in Picks : flow[n].stage = "watching" /\ Current(n) => page.job = flow[n].key
  /\ \A n \in Picks : flow[n].stage \in {"posting", "refused", "failed"} =>
       ingest[flow[n].key] # "active" \/ UploadLost(flow[n].key) \in lost
  /\ \A k \in Picks : ingest[k] = "active" =>
       \/ UploadLost(k) \in lost
       \/ \E n \in Picks : InFlight(n) /\ Current(n) /\ flow[n].key = k

Fitting == \A k \in Gens : exam[k].status # "none" => Fits(exam[k].payload)

\* The same for the generation: a request not answered well leaves no job at work.
Pursued ==
  /\ gen.stage \in {"posting", "refused"} =>
       exam[gen.key].status # "active" \/ ExamLost(gen.key) \in lost
  /\ \A k \in Gens : exam[k].status = "active" =>
       ExamLost(k) \in lost \/ (gen.stage # "idle" /\ gen.key = k)

\* Stop is remembered until the job is known; a handler is held by its own DELETE only.
Stopping ==
  /\ gen.stage \in Waiting /\ gen.key \in stopped => gen.stop
  /\ gen.stage = "held" => gen.key \in cancels
  /\ StopHonoured

Types == PageTyped /\ UploadsTyped /\ Counted /\ GenTyped
IInv == /\ Types
        /\ Versions /\ Loading /\ Shown /\ Followed /\ Fitting /\ Pursued /\ Stopping

-----------------------------------------------------------------------------
(* Next in three parts: the uploads, the generation and the reload.        *)

UploadSide ==
  \/ Pick \/ \E n \in Picks : UploadStep(n) \/ IngestEnds(n)
  \/ \E l \in loads : Loaded(l) \/ LoadFails(l) \/ LoadThrows(l)
  \/ RetrySections \/ RemoveDone \/ RemoveRunning
  \/ \E r \in Removals : Delete(r) \/ Deleted(r) \/ DeleteFails(r)
  \/ Select

GenSide ==
  \/ Generate \/ \E setting \in Settings : Post(setting)
  \/ GenArrives \/ GenFails \/ GenRefused \/ GenAccepted \/ Stop \/ GenSeen \/ GenPollFails
  \/ \E k \in Gens : Cancelled(k) \/ CancelFails(k) \/ ExamEnds(k)

\* Neither side writes what the other's invariants read, but for what is lost, which grows.
GenUntouched == /\ UNCHANGED <<gen, cancels, genKey, exam, stopped>> /\ lost \subseteq lost'
                /\ clicks'.gens = clicks.gens
UploadsUntouched == /\ UNCHANGED <<page, uploads, stored, restored, ingest, file, chosen>>
                    /\ lost \subseteq lost' /\ clicks'.picks = clicks.picks

LEMMA Sides == ASSUME Next PROVE UploadSide \/ GenSide \/ Reload
  BY DEF Next, UploadSide, GenSide

LEMMA NoZero == 0 \notin Picks /\ 0 \notin Gens /\ Picks \subseteq Nat /\ Gens \subseteq Nat
  BY DEF Picks, Gens

LEMMA UploadsTouchNoGen == ASSUME Counted, UploadSide PROVE GenUntouched
  <1> USE DEF GenUntouched, generating, storage, server, history, uploads
  <1>1. CASE Pick
    BY <1>1 DEF Pick, Counted
  <1>2. ASSUME NEW n \in Picks, UploadStep(n) PROVE GenUntouched
    BY <1>2 DEF UploadStep, Accept, Refuse, Accepted, Refused, Aborted, JobSeen, PollFails,
                Abandon, End, Fault
  <1>3. ASSUME NEW n \in Picks, IngestEnds(n) PROVE GenUntouched
    BY <1>3 DEF IngestEnds, Fault
  <1>4. ASSUME NEW l \in loads, Loaded(l) \/ LoadFails(l) \/ LoadThrows(l) PROVE GenUntouched
    BY <1>4 DEF Loaded, LoadFails, LoadThrows, Fault
  <1>5. CASE RetrySections \/ RemoveDone \/ RemoveRunning
    BY <1>5 DEF RetrySections, RemoveDone, RemoveRunning, Clear
  <1>6. ASSUME NEW r \in Removals, Delete(r) \/ Deleted(r) \/ DeleteFails(r) PROVE GenUntouched
    BY <1>6 DEF Delete, Deleted, DeleteFails, Clear, Fault
  <1>7. CASE Select
    BY <1>7 DEF Select
  <1> QED BY <1>1, <1>2, <1>3, <1>4, <1>5, <1>6, <1>7 DEF UploadSide

LEMMA GenTouchesNoUpload == ASSUME Counted, GenSide PROVE UploadsUntouched
  <1> USE DEF UploadsUntouched, generating, storage, server, history, uploads
  <1>1. CASE Generate
    BY <1>1 DEF Generate, Counted
  <1>2. ASSUME NEW setting \in Settings, Post(setting) PROVE UploadsUntouched
    BY <1>2 DEF Post
  <1>3. CASE GenArrives \/ GenFails \/ GenRefused \/ GenAccepted
    BY <1>3 DEF GenArrives, GenFails, GenRefused, GenAccepted, Fault
  <1>4. CASE Stop \/ GenSeen \/ GenPollFails
    BY <1>4 DEF Stop, GenSeen, GenPollFails, Fault
  <1>5. ASSUME NEW k \in Gens, Cancelled(k) \/ CancelFails(k) \/ ExamEnds(k)
        PROVE UploadsUntouched
    BY <1>5 DEF Cancelled, CancelFails, ExamEnds, Fault
  <1> QED BY <1>1, <1>2, <1>3, <1>4, <1>5 DEF GenSide

-----------------------------------------------------------------------------
(* Types.                                                                  *)

LEMMA StartTyped == ASSUME Init PROVE Types
  <1> USE BoundsAssumption
  <1>1. PageTyped
    BY DEF Init, Blank, PageTyped, PageFields
  <1>2. UploadsTyped
    BY DEF Init, UploadsTyped, Flows, Idle, Removal, NoRemoval
  <1>3. Counted
    BY DEF Init, Counted
  <1>4. GenTyped
    BY DEF Init, GenTyped, NoGen, NoExam, Payloads
  <1> QED BY <1>1, <1>2, <1>3, <1>4 DEF Types

\* The pages the handlers make.
LEMMA ClearedFields ==
  /\ DOMAIN Cleared = PageFields
  /\ Cleared.version = page.version + 1 /\ Cleared.controller = page.controller
  /\ Cleared.doc = 0 /\ Cleared.tree = 0 /\ Cleared.job = 0 /\ Cleared.selected = 0
  /\ ~Cleared.done
  BY DEF Cleared, Blank, PageFields

LEMMA NoControllerFields == ASSUME PageTyped PROVE
  /\ DOMAIN NoController = PageFields
  /\ NoController.version = page.version /\ NoController.controller = 0
  /\ NoController.doc = page.doc /\ NoController.tree = page.tree
  /\ NoController.job = page.job /\ NoController.selected = page.selected
  /\ NoController.done = page.done
  BY DEF NoController, PageTyped, PageFields

LEMMA SettledFields == ASSUME PageTyped, NEW l PROVE
  /\ DOMAIN Settled(l) = PageFields /\ Settled(l).controller \in Picks \cup {0}
  /\ Settled(l).version = page.version /\ Settled(l).doc = page.doc
  /\ Settled(l).tree = page.tree /\ Settled(l).job = page.job
  /\ Settled(l).selected = page.selected /\ Settled(l).done = page.done
  BY NoControllerFields DEF Settled, PageTyped

LEMMA LoadedFields ==
  ASSUME PageTyped, NEW l, Loaded(l) \/ LoadFails(l)
  PROVE  page'.version = page.version /\ page'.job = page.job
  <1>1. CASE page' = Settled(l)
    BY <1>1, SettledFields
  <1>2. CASE Loaded(l) /\ page' # Settled(l)
    <2> DEFINE y == IF l.why = "retry" /\ Settled(l).selected = l.doc THEN Settled(l).selected ELSE 0
               x == Settled(l)
    <2>1. page' = [x EXCEPT !.tree = l.doc, !.done = TRUE, !.selected = y]
      BY <1>2 DEF Loaded
    <2>2. DOMAIN x = PageFields /\ x.version = page.version /\ x.job = page.job
      BY SettledFields
    <2> HIDE DEF x, y
    <2> QED BY <2>1, <2>2 DEF PageFields
  <1> QED BY <1>1, <1>2 DEF LoadFails

LEMMA AbandonTyped ==
  ASSUME PageTyped, UploadsTyped, NEW n \in Picks, NEW cancelled, Abandon(n, cancelled)
  PROVE  PageTyped'
  <1>1. CASE page' = [Cleared EXCEPT !.controller = 0]
    BY <1>1, ClearedFields DEF PageTyped, PageFields
  <1>2. CASE page' = NoController
    BY <1>2, NoControllerFields DEF PageTyped
  <1> QED BY <1>1, <1>2 DEF Abandon

LEMMA PageStays == ASSUME Types, UploadSide PROVE PageTyped'
  <1> USE DEF Types
  <1>1. CASE Pick
    <2>1. file[clicks.picks + 1] \in Files
      BY <1>1 DEF Pick, UploadsTyped
    <2> QED BY <1>1 DEF Pick, PageTyped, PageFields, Picks
  <1>2. ASSUME NEW n \in Picks, UploadStep(n) PROVE PageTyped'
    <2>1. CASE Accept(n) \/ Refuse(n)
      BY <2>1 DEF Accept, Refuse, PageTyped
    <2>2. CASE Accepted(n)
      <3>1. flow[n].key \in Picks \cup {0}
        BY DEF UploadsTyped, Flows
      <3> QED BY <2>2, <3>1, NoControllerFields DEF Accepted, PageTyped, PageFields
    <2>3. CASE Refused(n)
      BY <2>3, NoControllerFields DEF Refused, PageTyped
    <2>4. CASE Aborted(n) \/ PollFails(n)
      BY <2>4, AbandonTyped DEF Aborted, PollFails
    <2>5. CASE JobSeen(n)
      <3>1. CASE ingest[flow[n].key] = "ready" /\ Wanted(n)
        <4>1. flow[n].key \in Picks \cup {0}
          BY DEF UploadsTyped, Flows
        <4>2. page' = [NoController EXCEPT !.done = TRUE, !.doc = flow[n].key]
          BY <2>5, <3>1 DEF JobSeen
        <4> QED BY <4>1, <4>2, NoControllerFields DEF PageTyped, PageFields
      <3>2. CASE ingest[flow[n].key] = "ready" /\ ~Wanted(n)
        BY <2>5, <3>2, NoControllerFields DEF JobSeen, PageTyped
      <3>3. CASE ingest[flow[n].key] # "ready"
        BY <2>5, <3>3, AbandonTyped DEF JobSeen
      <3> QED BY <3>1, <3>2, <3>3
    <2> QED BY <1>2, <2>1, <2>2, <2>3, <2>4, <2>5 DEF UploadStep
  <1>3. ASSUME NEW n \in Picks, IngestEnds(n) PROVE PageTyped'
    BY <1>3 DEF IngestEnds, PageTyped
  <1>4. ASSUME NEW l \in loads, Loaded(l) \/ LoadFails(l) \/ LoadThrows(l) PROVE PageTyped'
    <2>1. CASE page' = Settled(l)
      BY <2>1, SettledFields DEF PageTyped
    <2>2. CASE Loaded(l) /\ page' # Settled(l)
      <3>1. l.doc \in Picks
        BY DEF UploadsTyped
      <3> QED BY <2>2, <3>1, SettledFields DEF Loaded, PageTyped, PageFields
    <2>3. CASE LoadThrows(l)
      BY <2>3, ClearedFields DEF LoadThrows, PageTyped, PageFields
    <2> QED BY <1>4, <2>1, <2>2, <2>3 DEF LoadFails
  <1>5. ASSUME NEW r \in Removals, Delete(r) \/ Deleted(r) \/ DeleteFails(r) PROVE PageTyped'
    BY <1>5, ClearedFields DEF Delete, Deleted, DeleteFails, Clear, PageTyped, PageFields
  <1>6. CASE RetrySections \/ RemoveDone
    BY <1>6, ClearedFields DEF RetrySections, RemoveDone, Clear, PageTyped
  <1>7. CASE RemoveRunning
    <2>1. CASE page' = [page EXCEPT !.cancelling = TRUE]
      BY <2>1 DEF PageTyped, PageFields
    <2>2. CASE page' = [Cleared EXCEPT !.cancelling = TRUE]
      BY <2>2, ClearedFields DEF PageTyped, PageFields
    <2> QED BY <1>7, <2>1, <2>2 DEF RemoveRunning
  <1>8. CASE Select
    BY <1>8 DEF Select, PageTyped, PageFields
  <1> QED BY <1>1, <1>2, <1>3, <1>4, <1>5, <1>6, <1>7, <1>8 DEF UploadSide

LEMMA ForgottenTyped == ASSUME UploadsTyped, NEW k
                        PROVE Forgotten(k) \in [Files -> Picks \cup {0}]
  BY DEF Forgotten, UploadsTyped

\* What a handler's End and a change of its stage leave of the flows.
LEMMA FlowTyped ==
  ASSUME UploadsTyped, NEW n \in Picks,
         NEW s \in {"accepted", "refused", "failed", "watching", "aborted"}
  PROVE  /\ [flow EXCEPT ![n] = Idle] \in [Picks -> Flows]
         /\ [flow EXCEPT ![n].stage = s] \in [Picks -> Flows]
  BY DEF UploadsTyped, Flows, Idle

LEMMA IngestTyped ==
  ASSUME UploadsTyped, NEW k, NEW s \in {"active", "ready", "failed", "cancelled"}
  PROVE  [ingest EXCEPT ![k] = s]
           \in [Picks -> {"none", "active", "ready", "failed", "cancelled"}]
  BY DEF UploadsTyped

LEMMA AbandonUploads ==
  ASSUME UploadsTyped, NEW n \in Picks, NEW cancelled, Abandon(n, cancelled),
         UNCHANGED <<loads, removing, ingest, file>>
  PROVE  UploadsTyped'
  <1>1. flow' \in [Picks -> Flows]
    BY FlowTyped DEF Abandon, End
  <1>2. stored' \in [Files -> Picks \cup {0}]
    BY ForgottenTyped DEF Abandon, UploadsTyped
  <1>3. restored' \in Picks \cup {0} /\ chosen' \in Picks \cup {0}
    BY DEF Abandon, UploadsTyped
  <1> QED BY <1>1, <1>2, <1>3 DEF UploadsTyped

LEMMA UploadsStay == ASSUME Types, Versions, UploadSide PROVE UploadsTyped'
  <1> USE DEF Types
  <1>1. CASE Pick
    <2> DEFINE n == clicks.picks + 1
               k == IF stored[file[n]] # 0 THEN stored[file[n]] ELSE n
    <2>1. n \in Picks /\ file[n] \in Files /\ k \in Picks
      BY <1>1 DEF Pick, UploadsTyped
    <2>2. flow' = [flow EXCEPT ![n] = [stage |-> "posting", version |-> page.version + 1,
                                       key |-> k]]
      BY <1>1 DEF Pick
    <2>3. stored' = [stored EXCEPT ![file[n]] = k] /\ chosen' = k
      BY <1>1 DEF Pick
    <2>4. UNCHANGED <<loads, removing, restored, ingest, file>>
      BY <1>1 DEF Pick, server
    <2> HIDE DEF n, k
    <2>5. flow' \in [Picks -> Flows]
      BY <2>1, <2>2 DEF UploadsTyped, Flows, PageTyped
    <2> QED BY <2>1, <2>3, <2>4, <2>5 DEF UploadsTyped
  <1>2. ASSUME NEW n \in Picks, UploadStep(n) PROVE UploadsTyped'
    <2> USE DEF storage, server, history
    <2>1. CASE Accept(n)
      <3>1. ingest' = ingest \/ ingest' = [ingest EXCEPT ![flow[n].key] = "active"]
        <4>1. CASE ingest[flow[n].key] = "none"
          BY <2>1, <4>1 DEF Accept
        <4>2. CASE ingest[flow[n].key] # "none"
          BY <2>1, <4>2 DEF Accept, UploadsTyped
        <4> QED BY <4>1, <4>2
      <3>2. ingest' \in [Picks -> {"none", "active", "ready", "failed", "cancelled"}]
        BY <3>1, IngestTyped DEF UploadsTyped
      <3> QED BY <2>1, <3>2, FlowTyped DEF Accept, UploadsTyped
    <2>2. CASE Refuse(n)
      <3>1. ingest' = ingest \/ ingest' = [ingest EXCEPT ![flow[n].key] = "active"]
        BY <2>2 DEF Refuse
      <3>2. ingest' \in [Picks -> {"none", "active", "ready", "failed", "cancelled"}]
        BY <3>1, IngestTyped DEF UploadsTyped
      <3>3. flow' \in [Picks -> Flows]
        <4>1. \/ flow' = [flow EXCEPT ![n].stage = "refused"]
              \/ flow' = [flow EXCEPT ![n].stage = "failed"]
          BY <2>2 DEF Refuse
        <4> QED BY <4>1, FlowTyped
      <3> QED BY <2>2, <3>2, <3>3 DEF Refuse, UploadsTyped
    <2>3. CASE Accepted(n)
      <3>1. flow' \in [Picks -> Flows]
        BY <2>3, FlowTyped DEF Accepted, End
      <3>2. stored' \in [Files -> Picks \cup {0}]
        BY <2>3, ForgottenTyped DEF Accepted, UploadsTyped
      <3> QED BY <2>3, <3>1, <3>2 DEF Accepted, UploadsTyped
    <2>4. CASE Refused(n)
      <3>1. flow' \in [Picks -> Flows]
        BY <2>4, FlowTyped DEF Refused, End
      <3>2. stored' \in [Files -> Picks \cup {0}]
        BY <2>4, ForgottenTyped DEF Refused, UploadsTyped
      <3> QED BY <2>4, <3>1, <3>2 DEF Refused, UploadsTyped
    <2>5. CASE Aborted(n) \/ PollFails(n)
      BY <2>5, AbandonUploads DEF Aborted, PollFails
    <2>6. CASE JobSeen(n)
      <3>1. CASE ingest[flow[n].key] = "ready"
        <4>1. flow[n].key \in Picks
          BY <2>6 DEF JobSeen, Versions
        <4>2. flow' = [flow EXCEPT ![n] = Idle]
          BY <2>6, <3>1 DEF JobSeen, End
        <4>3. flow' \in [Picks -> Flows]
          BY <4>2, FlowTyped
        <4>4. restored' \in Picks \cup {0} /\ UNCHANGED <<stored, chosen>>
          BY <2>6, <3>1, <4>1 DEF JobSeen, UploadsTyped
        <4>5. \A l \in loads' : l.doc \in Picks
          BY <2>6, <3>1, <4>1 DEF JobSeen, UploadsTyped
        <4> QED BY <2>6, <4>3, <4>4, <4>5 DEF JobSeen, UploadsTyped
      <3>2. CASE ingest[flow[n].key] # "ready"
        BY <2>6, <3>2, AbandonUploads DEF JobSeen
      <3> QED BY <3>1, <3>2
    <2> QED BY <1>2, <2>1, <2>2, <2>3, <2>4, <2>5, <2>6 DEF UploadStep
  <1>3. ASSUME NEW n \in Picks, IngestEnds(n) PROVE UploadsTyped'
    BY <1>3, IngestTyped DEF IngestEnds, UploadsTyped, uploads, storage, history
  <1>4. ASSUME NEW l \in loads, Loaded(l) \/ LoadFails(l) \/ LoadThrows(l) PROVE UploadsTyped'
    <2>1. CASE Loaded(l) \/ LoadFails(l)
      BY <2>1 DEF Loaded, LoadFails, UploadsTyped, storage, server, history
    <2>2. CASE LoadThrows(l)
      BY <2>2, ForgottenTyped DEF LoadThrows, UploadsTyped, server
    <2> QED BY <1>4, <2>1, <2>2
  <1>5. CASE RetrySections
    BY <1>5 DEF RetrySections, UploadsTyped, PageTyped, storage, server, history
  <1>6. CASE RemoveDone
    BY <1>6, ForgottenTyped DEF RemoveDone, Clear, UploadsTyped, server
  <1>7. CASE RemoveRunning
    <2>1. flow' \in [Picks -> Flows]
      BY <1>7, FlowTyped DEF RemoveRunning, AbortedFlow, UploadsTyped, PageTyped
    <2>2. removing' \in [Removals -> Removal]
      BY <1>7 DEF RemoveRunning, UploadsTyped, PageTyped, Removal
    <2> QED BY <1>7, <2>1, <2>2, ForgottenTyped DEF RemoveRunning, UploadsTyped, server
  <1>8. ASSUME NEW r \in Removals, Delete(r) PROVE UploadsTyped'
    <2>1. ingest' = ingest \/ ingest' = [ingest EXCEPT ![removing[r].job] = "cancelled"]
      <3>1. CASE ingest[removing[r].job] = "active"
        BY <1>8, <3>1 DEF Delete
      <3>2. CASE ingest[removing[r].job] # "active"
        BY <1>8, <3>2 DEF Delete, UploadsTyped
      <3> QED BY <3>1, <3>2
    <2>2. ingest' \in [Picks -> {"none", "active", "ready", "failed", "cancelled"}]
      BY <2>1, IngestTyped DEF UploadsTyped
    <2>3. removing' \in [Removals -> Removal]
      BY <1>8 DEF Delete, UploadsTyped, Removal
    <2> QED BY <1>8, <2>2, <2>3 DEF Delete, UploadsTyped, storage, history
  <1>9. ASSUME NEW r \in Removals, Deleted(r) \/ DeleteFails(r) PROVE UploadsTyped'
    <2>1. removing' \in [Removals -> Removal]
      BY <1>9 DEF Deleted, DeleteFails, UploadsTyped, Removal, NoRemoval
    <2>2. CASE Deleted(r)
      BY <2>1, <2>2, ForgottenTyped DEF Deleted, Clear, UploadsTyped, server
    <2>3. CASE DeleteFails(r)
      BY <2>1, <2>3 DEF DeleteFails, UploadsTyped, storage, server, history
    <2> QED BY <1>9, <2>2, <2>3
  <1>10. CASE Select
    BY <1>10 DEF Select, UploadsTyped, uploads, storage, server, history
  <1> QED BY <1>1, <1>2, <1>3, <1>4, <1>5, <1>6, <1>7, <1>8, <1>9, <1>10
          DEF UploadSide

LEMMA CountStays == ASSUME Types, Next PROVE Counted'
  <1> USE DEF Types, Counted
  <1>1. CASE Pick
    BY <1>1 DEF Pick, Picks
  <1>2. CASE Generate
    BY <1>2, BoundsAssumption DEF Generate
  <1>3. CASE UNCHANGED clicks
    BY <1>3
  <1>4. Pick \/ Generate \/ UNCHANGED clicks
    <2>1. ASSUME NEW n \in Picks, UploadStep(n) \/ IngestEnds(n) PROVE UNCHANGED clicks
      BY <2>1 DEF UploadStep, Accept, Refuse, Accepted, Refused, Aborted, JobSeen, PollFails,
                  IngestEnds
    <2>2. ASSUME NEW l \in loads, Loaded(l) \/ LoadFails(l) \/ LoadThrows(l)
          PROVE UNCHANGED clicks
      BY <2>2 DEF Loaded, LoadFails, LoadThrows
    <2>3. CASE RetrySections \/ RemoveDone \/ RemoveRunning \/ Select \/ Reload
      BY <2>3 DEF RetrySections, RemoveDone, RemoveRunning, Select, Reload
    <2>4. ASSUME NEW r \in Removals, Delete(r) \/ Deleted(r) \/ DeleteFails(r)
          PROVE UNCHANGED clicks
      BY <2>4 DEF Delete, Deleted, DeleteFails
    <2>5. ASSUME NEW setting \in Settings, Post(setting) PROVE UNCHANGED clicks
      BY <2>5 DEF Post
    <2>6. CASE GenArrives \/ GenFails \/ GenRefused \/ GenAccepted \/ Stop \/ GenSeen
               \/ GenPollFails
      BY <2>6 DEF GenArrives, GenFails, GenRefused, GenAccepted, Stop, GenSeen, GenPollFails
    <2>7. ASSUME NEW k \in Gens, Cancelled(k) \/ CancelFails(k) \/ ExamEnds(k)
          PROVE UNCHANGED clicks
      BY <2>7 DEF Cancelled, CancelFails, ExamEnds
    <2> QED BY <2>1, <2>2, <2>3, <2>4, <2>5, <2>6, <2>7 DEF Next
  <1> QED BY <1>1, <1>2, <1>3, <1>4

\* A new state of a generation's job leaves the others and its payload alone.
Exams == [status : {"none", "active", "completed", "failed", "cancelled"}, payload : Payloads]
LEMMA ExamTyped ==
  ASSUME GenTyped, NEW k \in Gens, NEW s \in {"active", "completed", "failed", "cancelled"}
  PROVE  /\ [exam EXCEPT ![k].status = s] \in [Gens -> Exams]
         /\ [exam EXCEPT ![k] = [status |-> s, payload |-> gen.payload]] \in [Gens -> Exams]
  BY DEF GenTyped, Exams

LEMMA NoGenFields == /\ DOMAIN NoGen = {"stage", "key", "payload", "stop"}
                     /\ NoGen.stage = "idle" /\ NoGen.key = 0 /\ ~NoGen.stop
                     /\ NoGen.payload \in Payloads
  BY DEF NoGen, Payloads

\* What is left of GenTyped once the click is handled.
LEMMA NoGenTyped ==
  ASSUME gen' = NoGen, genKey' \in [Picks -> Gens \cup {0}], exam' \in [Gens -> Exams]
  PROVE  GenTyped'
  BY NoGenFields DEF GenTyped, Waiting, Exams

\* A step that only changes the stage, or whether Stop was clicked.
LEMMA StageTyped ==
  ASSUME GenTyped, NEW s \in {"held", "watching"} \cup Waiting,
         gen.stage \notin {"idle", "preparing"},
         DOMAIN gen' = DOMAIN gen, gen'.stage = s, gen'.key = gen.key,
         gen'.payload = gen.payload,
         genKey' \in [Picks -> Gens \cup {0}], exam' \in [Gens -> Exams]
  PROVE  GenTyped'
  BY DEF GenTyped, Waiting, Exams

LEMMA GenForgottenTyped == ASSUME GenTyped PROVE GenForgotten \in [Picks -> Gens \cup {0}]
  BY DEF GenForgotten, GenTyped

LEMMA GenUntouchedTyped == ASSUME Types, GenUntouched PROVE GenTyped'
  BY DEF Types, GenUntouched, GenTyped

LEMMA GenStays == ASSUME Types, GenSide PROVE GenTyped'
  <1> USE DEF Types
  <1>e. exam \in [Gens -> Exams] /\ genKey \in [Picks -> Gens \cup {0}]
    BY DEF GenTyped, Exams
  <1>1. CASE Generate
    <2>1. /\ DOMAIN gen' = {"stage", "key", "payload", "stop"}
          /\ gen'.stage = "preparing" /\ gen'.key = 0 /\ gen'.payload \in Payloads
      BY <1>1, NoGenFields DEF Generate
    <2>2. clicks'.gens \in Gens
      BY <1>1, BoundsAssumption DEF Generate, Counted, Gens
    <2>3. UNCHANGED <<genKey, exam>>
      BY <1>1 DEF Generate, storage, server
    <2> QED BY <2>1, <2>2, <2>3 DEF GenTyped, Waiting
  <1>2. ASSUME NEW setting \in Settings, Post(setting) PROVE GenTyped'
    <2>0. UNCHANGED exam
      BY <1>2 DEF Post, server
    <2>1. CASE page.doc = 0
      BY <1>e, <1>2, <2>0, <2>1, NoGenTyped DEF Post
    <2>2. CASE page.doc # 0
      <3> DEFINE d == page.doc
                 k == IF genKey[d] # 0 THEN genKey[d] ELSE clicks.gens
      <3>1. gen.stage = "preparing" /\ clicks.gens \in Gens
        BY <1>2 DEF Post, GenTyped
      <3>2. d \in Picks /\ k \in Gens
        BY <2>2, <3>1 DEF PageTyped, GenTyped
      <3>3. /\ gen' = [gen EXCEPT !.stage = "posting", !.key = k,
                                  !.payload = <<d, page.selected, setting>>]
            /\ genKey' = [genKey EXCEPT ![d] = k]
        BY <1>2, <2>2 DEF Post
      <3>4. page.selected \in Picks \cup {0}
        BY DEF PageTyped
      <3> HIDE DEF d, k
      <3>5. /\ DOMAIN gen' = {"stage", "key", "payload", "stop"}
            /\ gen'.stage = "posting" /\ gen'.key = k
            /\ gen'.payload = <<d, page.selected, setting>>
        BY <3>3 DEF GenTyped
      <3>6. gen'.payload \in Payloads
        BY <3>2, <3>4, <3>5 DEF Payloads
      <3>7. genKey' \in [Picks -> Gens \cup {0}]
        BY <1>e, <3>2, <3>3
      <3> QED BY <2>0, <3>2, <3>5, <3>6, <3>7 DEF GenTyped, Waiting
    <2> QED BY <2>1, <2>2
  <1>3. CASE GenArrives
    <2>1. gen.stage = "posting" /\ gen.key \in Gens
      BY <1>3 DEF GenArrives, GenTyped
    <2>2. PICK s \in {"accepted", "refused"} : gen' = [gen EXCEPT !.stage = s]
      BY <1>3 DEF GenArrives
    <2>3. exam' \in [Gens -> Exams]
      BY <1>3, <1>e, <2>1, ExamTyped DEF GenArrives
    <2>4. /\ DOMAIN gen' = DOMAIN gen /\ gen'.stage = s /\ gen'.key = gen.key
          /\ gen'.payload = gen.payload
      BY <2>2 DEF GenTyped
    <2>5. s \in {"held", "watching"} \cup Waiting
      BY DEF Waiting
    <2>6. genKey' = genKey
      BY <1>3 DEF GenArrives, storage
    <2> QED BY <1>e, <2>1, <2>3, <2>4, <2>5, <2>6, StageTyped
  <1>4. CASE GenFails
    <2>1. gen.key \in Gens
      BY <1>4 DEF GenFails, GenTyped
    <2>2. exam' = exam \/ exam' = [exam EXCEPT ![gen.key] = [status |-> "failed",
                                                             payload |-> gen.payload]]
      BY <1>4 DEF GenFails
    <2>3. exam' \in [Gens -> Exams]
      <3>1. [exam EXCEPT ![gen.key] = [status |-> "failed", payload |-> gen.payload]]
              \in [Gens -> Exams]
        BY <2>1, ExamTyped
      <3> QED BY <1>e, <2>2, <3>1
    <2> QED BY <1>4, <1>e, <2>3, NoGenTyped DEF GenFails, storage
  <1>5. CASE GenRefused \/ GenSeen \/ GenPollFails
    <2>1. genKey' \in [Picks -> Gens \cup {0}]
      BY <1>5, <1>e, GenForgottenTyped DEF GenRefused, GenSeen, GenPollFails, storage
    <2> QED BY <1>5, <1>e, <2>1, NoGenTyped DEF GenRefused, GenSeen, GenPollFails, server
  <1>6. CASE GenAccepted
    <2>1. PICK s \in {"held", "watching"} : gen' = [gen EXCEPT !.stage = s]
      BY <1>6 DEF GenAccepted
    <2>2. /\ DOMAIN gen' = DOMAIN gen /\ gen'.stage = s /\ gen'.key = gen.key
          /\ gen'.payload = gen.payload
      BY <2>1 DEF GenTyped
    <2>3. genKey' \in [Picks -> Gens \cup {0}] /\ exam' = exam
      BY <1>6, GenForgottenTyped DEF GenAccepted, server
    <2>4. gen.stage \notin {"idle", "preparing"}
      BY <1>6 DEF GenAccepted
    <2> QED BY <1>e, <2>2, <2>3, <2>4, StageTyped
  <1>7. CASE Stop
    BY <1>7 DEF Stop, GenTyped, storage, server
  <1>8. ASSUME NEW k \in Gens, Cancelled(k) \/ CancelFails(k) PROVE GenTyped'
    <2>1. exam' \in [Gens -> Exams]
      <3>1. exam' = exam \/ exam' = [exam EXCEPT ![k].status = "cancelled"]
        BY <1>8, <1>e DEF Cancelled, CancelFails, server, Exams
      <3> QED BY <1>e, <3>1, ExamTyped
    <2>2. /\ DOMAIN gen' = DOMAIN gen /\ gen'.stage = Released(k) /\ gen'.key = gen.key
          /\ gen'.payload = gen.payload
      BY <1>8 DEF Cancelled, CancelFails, GenTyped
    <2>3. UNCHANGED <<genKey, clicks>>
      BY <1>8 DEF Cancelled, CancelFails, storage
    <2> QED BY <2>1, <2>2, <2>3 DEF GenTyped, Released, Waiting, Exams
  <1>9. ASSUME NEW k \in Gens, ExamEnds(k) PROVE GenTyped'
    BY <1>9, ExamTyped DEF ExamEnds, GenTyped, generating, storage, Exams
  <1> QED BY <1>1, <1>2, <1>3, <1>4, <1>5, <1>6, <1>7, <1>8, <1>9 DEF GenSide

LEMMA ReloadTyped == ASSUME Types, Reload PROVE PageTyped' /\ UploadsTyped' /\ GenTyped'
  <1> USE DEF Types, Reload
  <1>1. PageTyped'
    BY DEF UploadsTyped, Blank, PageTyped, PageFields
  <1>2. UploadsTyped'
    <2>1. flow' \in [Picks -> Flows]
      BY DEF Flows, Idle
    <2>2. \A l \in loads' : l.doc \in Picks
      BY DEF UploadsTyped
    <2>3. removing' \in [Removals -> Removal]
      BY DEF Removal, NoRemoval
    <2> QED BY <2>1, <2>2, <2>3 DEF UploadsTyped, storage, server
  <1>3. GenTyped'
    BY NoGenTyped DEF GenTyped, storage, server, Exams
  <1> QED BY <1>1, <1>2, <1>3

LEMMA UploadsUntouchedTyped ==
  ASSUME Types, UploadsUntouched PROVE PageTyped' /\ UploadsTyped'
  <1>1. PageTyped'
    BY DEF Types, UploadsUntouched, PageTyped
  <1>2. UploadsTyped'
    BY DEF Types, UploadsUntouched, UploadsTyped, uploads
  <1> QED BY <1>1, <1>2

LEMMA TypesStay == ASSUME Types, Versions, Next PROVE Types'
  <1>1. Counted'
    BY CountStays
  <1>2. CASE UploadSide
    BY <1>1, <1>2, PageStays, UploadsStay, UploadsTouchNoGen, GenUntouchedTyped DEF Types
  <1>3. CASE GenSide
    BY <1>1, <1>3, GenStays, GenTouchesNoUpload, UploadsUntouchedTyped DEF Types
  <1>4. CASE Reload
    BY <1>1, <1>4, ReloadTyped DEF Types
  <1> QED BY <1>2, <1>3, <1>4, Sides

-----------------------------------------------------------------------------
(* The generation.                                                         *)

LEMMA FittingStays == ASSUME Types, Fitting, Next PROVE Fitting'
  <1> USE DEF Types
  <1>k. exam \in [Gens -> Exams]
    BY DEF GenTyped, Exams
  <1>1. CASE GenUntouched \/ UNCHANGED exam
    BY <1>1 DEF GenUntouched, Fitting
  <1>2. CASE GenArrives
    <2>1. CASE UNCHANGED exam
      BY <2>1 DEF Fitting
    <2>2. CASE exam' # exam
      <3>1. /\ Fits(gen.payload) /\ gen.key \in Gens
            /\ exam' = [exam EXCEPT ![gen.key] = [status |-> "active",
                                                  payload |-> gen.payload]]
        BY <1>2, <2>2 DEF GenArrives, GenTyped
      <3> QED BY <1>k, <3>1 DEF Fitting, Fits
    <2> QED BY <2>1, <2>2
  <1>3. CASE GenFails
    <2>1. CASE UNCHANGED exam
      BY <2>1 DEF Fitting
    <2>2. CASE exam' # exam
      <3>1. /\ Fits(gen.payload)
            /\ exam' = [exam EXCEPT ![gen.key] = [status |-> "failed",
                                                  payload |-> gen.payload]]
        BY <1>3, <2>2 DEF GenFails
      <3> QED BY <1>k, <3>1 DEF Fitting, Fits
    <2> QED BY <2>1, <2>2
  <1>4. ASSUME NEW k \in Gens, Cancelled(k) \/ CancelFails(k) \/ ExamEnds(k) PROVE Fitting'
    <2>1. exam' = exam \/ \E s \in {"cancelled", "completed"} :
                            /\ exam' = [exam EXCEPT ![k].status = s]
                            /\ exam[k].status = "active"
      BY <1>4, <1>k DEF Cancelled, CancelFails, ExamEnds, server, Exams
    <2> QED BY <1>k, <2>1 DEF Fitting, Fits, Exams
  <1>5. ASSUME NEW setting \in Settings, Post(setting) PROVE UNCHANGED exam
    BY <1>5 DEF Post, server
  <1>6. CASE Generate \/ GenRefused \/ GenAccepted \/ Stop \/ GenSeen \/ GenPollFails \/ Reload
    BY <1>1, <1>6 DEF Generate, GenRefused, GenAccepted, Stop, GenSeen, GenPollFails, Reload,
                      server
  <1>7. CASE UploadSide
    BY <1>1, <1>7, UploadsTouchNoGen
  <1> QED BY <1>1, <1>2, <1>3, <1>4, <1>5, <1>6, <1>7, Sides DEF GenSide

\* Nothing said of the generations' jobs changes when no job becomes active, what is lost
\* grows and the click is handled as before.
LEMMA SamePursuit ==
  ASSUME Pursued, lost \subseteq lost', gen'.key = gen.key,
         gen'.stage \in {"posting", "refused"} => gen.stage \in {"posting", "refused"},
         gen.stage # "idle" => gen'.stage # "idle",
         \A k \in Gens : exam'[k].status = "active" => exam[k].status = "active",
         exam'[gen.key].status = "active" => exam[gen.key].status = "active"
  PROVE  Pursued'
  BY DEF Pursued

\* The click is handled, and the job it waited for is lost or no longer active.
LEMMA EndOfPursuit ==
  ASSUME Types, Pursued, lost \subseteq lost', gen' = NoGen,
         \A k \in Gens : exam'[k].status = "active" => exam[k].status = "active",
         gen.stage # "idle" =>
           \A k \in Gens : k = gen.key /\ exam'[k].status = "active" => ExamLost(k) \in lost'
  PROVE  Pursued'
  BY NoGenFields DEF Pursued

LEMMA PursuedStays == ASSUME Types, Pursued, Next PROVE Pursued'
  <1> USE DEF Types
  <1>k. exam \in [Gens -> Exams]
    BY DEF GenTyped, Exams
  <1>1. CASE UploadSide
    BY <1>1, UploadsTouchNoGen DEF GenUntouched, Pursued
  <1>2. CASE Generate
    <2>1. gen'.stage = "preparing" /\ UNCHANGED <<exam, lost>>
      BY <1>2, NoGenFields DEF Generate, server
    <2>2. gen.stage = "idle"
      BY <1>2 DEF Generate
    <2> QED BY <2>1, <2>2 DEF Pursued
  <1>3. ASSUME NEW setting \in Settings, Post(setting) PROVE Pursued'
    <2>0. gen.stage = "preparing" /\ gen.key = 0 /\ UNCHANGED <<exam, lost>>
      BY <1>3 DEF Post, server, GenTyped
    <2>1. \A k \in Gens : exam[k].status = "active" => ExamLost(k) \in lost
      BY <2>0, NoZero DEF Pursued
    <2>2. CASE page.doc = 0
      <3>1. gen' = NoGen
        BY <1>3, <2>2 DEF Post
      <3> QED BY <2>0, <2>1, <3>1, NoGenFields DEF Pursued
    <2>3. CASE page.doc # 0
      <3>1. gen'.stage = "posting"
        BY <1>3, <2>3 DEF Post, GenTyped
      <3>2. gen'.key \in Gens
        BY <1>3, <3>1, GenStays DEF GenSide, GenTyped
      <3> QED BY <2>0, <2>1, <3>1, <3>2 DEF Pursued
    <2> QED BY <2>2, <2>3
  <1>4. CASE GenArrives
    <2>0. gen.stage = "posting" /\ gen.key \in Gens /\ UNCHANGED lost
      BY <1>4 DEF GenArrives, GenTyped
    <2>1. CASE UNCHANGED exam
      <3>1. gen'.stage \in {"accepted", "refused"} /\ gen'.key = gen.key
        BY <1>4 DEF GenArrives, GenTyped
      <3> QED BY <2>0, <2>1, <3>1 DEF Pursued
    <2>2. CASE exam' # exam
      <3>1. /\ gen'.stage = "accepted" /\ gen'.key = gen.key
            /\ exam' = [exam EXCEPT ![gen.key] = [status |-> "active",
                                                  payload |-> gen.payload]]
        BY <1>4, <2>2 DEF GenArrives, GenTyped
      <3>2. \A k \in Gens : k # gen.key => exam'[k] = exam[k]
        BY <1>k, <3>1
      <3> QED BY <2>0, <3>1, <3>2 DEF Pursued
    <2> QED BY <2>1, <2>2
  <1>5. CASE GenFails
    <2>1. gen' = NoGen /\ lost' = lost \cup {ExamLost(gen.key)}
      BY <1>5 DEF GenFails
    <2>2. exam' = exam \/ exam' = [exam EXCEPT ![gen.key] = [status |-> "failed",
                                                             payload |-> gen.payload]]
      BY <1>5 DEF GenFails
    <2>3. \A k \in Gens : exam'[k].status = "active" => exam[k].status = "active"
      BY <1>k, <2>2
    <2> QED BY <2>1, <2>3, EndOfPursuit
  <1>6. CASE GenRefused \/ GenSeen
    <2>1. gen' = NoGen /\ UNCHANGED <<exam, lost>>
      BY <1>6 DEF GenRefused, GenSeen, server
    <2>2. \A k \in Gens : k = gen.key /\ exam[k].status = "active" => ExamLost(k) \in lost
      BY <1>6 DEF GenRefused, GenSeen, Pursued
    <2> QED BY <2>1, <2>2, EndOfPursuit
  <1>7. CASE GenPollFails
    <2>1. gen' = NoGen /\ lost' = lost \cup {ExamLost(gen.key)} /\ UNCHANGED exam
      BY <1>7 DEF GenPollFails, server
    <2> QED BY <2>1, EndOfPursuit
  <1>8. CASE GenAccepted \/ Stop
    <2>1. /\ gen'.key = gen.key /\ UNCHANGED <<exam, lost>>
          /\ gen.stage # "idle" /\ gen'.stage # "idle"
          /\ gen'.stage \in {"posting", "refused"} => gen.stage \in {"posting", "refused"}
      BY <1>8 DEF GenAccepted, Stop, GenTyped, server
    <2> QED BY <2>1, SamePursuit
  <1>9. ASSUME NEW k \in Gens, Cancelled(k) \/ CancelFails(k) \/ ExamEnds(k) PROVE Pursued'
    <2>1. exam' = exam \/ \E s \in {"cancelled", "completed"} :
                            exam' = [exam EXCEPT ![k].status = s]
      BY <1>9, <1>k DEF Cancelled, CancelFails, ExamEnds, server, Exams
    <2>2. \A j \in Gens : exam'[j].status = "active" => exam[j].status = "active"
      BY <1>k, <2>1 DEF Exams
    <2>3. /\ gen'.key = gen.key
          /\ gen'.stage \in {"posting", "refused"} => gen.stage \in {"posting", "refused"}
          /\ gen.stage # "idle" => gen'.stage # "idle"
      BY <1>9 DEF Cancelled, CancelFails, ExamEnds, Released, GenTyped, generating
    <2>4. lost' = lost
      BY <1>9 DEF Cancelled, CancelFails, ExamEnds
    <2>5. gen.stage \in {"posting", "refused"} => gen.key \in Gens
      BY DEF GenTyped
    <2> QED BY <2>2, <2>3, <2>4, <2>5 DEF Pursued
  <1>10. CASE Reload
    <2>1. gen' = NoGen /\ UNCHANGED exam /\ lost \subseteq lost'
      BY <1>10 DEF Reload, server
    <2>2. gen.stage # "idle" =>
            \A k \in Gens : k = gen.key /\ exam'[k].status = "active" => ExamLost(k) \in lost'
      BY <1>10, NoZero DEF Reload, GenTyped
    <2> QED BY <2>1, <2>2, EndOfPursuit
  <1> QED BY <1>1, <1>2, <1>3, <1>4, <1>5, <1>6, <1>7, <1>8, <1>9, <1>10, Sides DEF GenSide

LEMMA StoppingStays == ASSUME Types, Stopping, Next PROVE Stopping'
  <1> USE DEF Types
  <1>k. exam \in [Gens -> Exams]
    BY DEF GenTyped, Exams
  <1>i. ASSUME gen' = NoGen PROVE Stopping'
    BY <1>i, NoGenFields DEF Stopping, StopHonoured, Waiting
  <1>1. CASE UploadSide
    BY <1>1, UploadsTouchNoGen DEF GenUntouched, Stopping, StopHonoured
  <1>2. CASE Generate
    <2>1. gen'.stage = "preparing"
      BY <1>2, NoGenFields DEF Generate
    <2> QED BY <2>1 DEF Stopping, StopHonoured, Waiting
  <1>3. ASSUME NEW setting \in Settings, Post(setting) PROVE Stopping'
    <2>1. CASE page.doc = 0
      BY <1>3, <2>1, <1>i DEF Post
    <2>2. CASE page.doc # 0
      <3> DEFINE k == IF genKey[page.doc] # 0 THEN genKey[page.doc] ELSE clicks.gens
      <3>1. /\ gen' = [gen EXCEPT !.stage = "posting", !.key = k,
                                  !.payload = <<page.doc, page.selected, setting>>]
            /\ stopped' = IF gen.stop THEN stopped \cup {k} ELSE stopped \ {k}
        BY <1>3, <2>2 DEF Post
      <3> HIDE DEF k
      <3>2. gen'.stage = "posting" /\ gen'.key = k /\ gen'.stop = gen.stop
        BY <3>1 DEF GenTyped
      <3> QED BY <3>1, <3>2 DEF Stopping, StopHonoured, Waiting
    <2> QED BY <2>1, <2>2
  <1>4. CASE GenArrives
    <2>1. /\ gen'.stage \in {"accepted", "refused"} /\ gen'.key = gen.key
          /\ gen'.stop = gen.stop /\ gen.stage = "posting" /\ UNCHANGED stopped
      BY <1>4 DEF GenArrives, GenTyped, history
    <2> QED BY <2>1 DEF Stopping, StopHonoured, Waiting
  <1>5. CASE GenFails \/ GenRefused \/ GenSeen \/ GenPollFails \/ Reload
    BY <1>5, <1>i DEF GenFails, GenRefused, GenSeen, GenPollFails, Reload
  <1>6. CASE GenAccepted
    <2>1. gen.stage = "accepted" /\ gen'.key = gen.key /\ UNCHANGED stopped
      BY <1>6 DEF GenAccepted, GenTyped, history
    <2>2. CASE gen.stop
      <3>1. gen'.stage = "held" /\ gen.key \in cancels'
        BY <1>6, <2>2 DEF GenAccepted, StopsOnAnswer, GenTyped
      <3> QED BY <2>1, <3>1 DEF Stopping, StopHonoured, Waiting
    <2>3. CASE ~gen.stop
      <3>1. gen'.stage = "watching" /\ gen.key \notin stopped
        BY <1>6, <2>3 DEF GenAccepted, StopsOnAnswer, Stopping, Waiting, GenTyped
      <3> QED BY <2>1, <3>1 DEF Stopping, StopHonoured, Waiting
    <2> QED BY <2>2, <2>3
  <1>7. CASE Stop
    <2>1. /\ gen'.stage = gen.stage /\ gen'.key = gen.key /\ gen'.stop
          /\ UNCHANGED exam
          /\ cancels' = IF gen.stage = "watching" THEN cancels \cup {gen.key} ELSE cancels
      BY <1>7 DEF Stop, GenTyped, server
    <2> QED BY <2>1 DEF Stopping, StopHonoured, Waiting
  <1>8. ASSUME NEW k \in Gens, Cancelled(k) PROVE Stopping'
    <2>1. /\ gen'.stage = Released(k) /\ gen'.key = gen.key /\ gen'.stop = gen.stop
          /\ cancels' = cancels \ {k} /\ UNCHANGED stopped
      BY <1>8 DEF Cancelled, GenTyped, history
    <2>2. /\ exam'[k].status # "active"
          /\ \A j \in Gens : j # k => exam'[j] = exam[j]
      BY <1>8, <1>k DEF Cancelled, Exams
    <2>3. gen.stage \notin {"idle", "preparing"} => gen.key \in Gens
      BY DEF GenTyped
    <2>4. CASE gen.key = k
      BY <2>1, <2>2, <2>4 DEF Stopping, StopHonoured, Released, Waiting
    <2>5. CASE gen.key # k
      BY <2>1, <2>2, <2>3, <2>5 DEF Stopping, StopHonoured, Released, Waiting
    <2> QED BY <2>4, <2>5
  <1>9. ASSUME NEW k \in Gens, CancelFails(k) PROVE Stopping'
    <2>1. /\ gen'.stage = Released(k) /\ gen'.key = gen.key
          /\ cancels' = cancels \ {k} /\ stopped' = stopped \ {k, gen.key}
      BY <1>9 DEF CancelFails, GenTyped
    <2> QED BY <2>1 DEF Stopping, StopHonoured, Released, Waiting
  <1>10. ASSUME NEW k \in Gens, ExamEnds(k) PROVE Stopping'
    <2>1. \A j \in Gens : exam'[j].status = "active" => exam[j].status = "active"
      BY <1>10, <1>k DEF ExamEnds, Exams
    <2>2. UNCHANGED <<gen, cancels, stopped>>
      BY <1>10 DEF ExamEnds, generating, history
    <2>3. gen.stage \notin {"idle", "preparing"} => gen.key \in Gens
      BY DEF GenTyped
    <2> QED BY <2>1, <2>2, <2>3 DEF Stopping, StopHonoured
  <1> QED BY <1>1, <1>2, <1>3, <1>4, <1>5, <1>6, <1>7, <1>8, <1>9, <1>10, Sides DEF GenSide

-----------------------------------------------------------------------------
(* The uploads.                                                            *)

\* A step that begins no upload: what is under way is still the same handler.
Remain ==
  \A m \in Picks :
    /\ flow'[m].stage # "idle" =>
         flow[m].stage # "idle" /\ flow'[m].version = flow[m].version
         /\ flow'[m].key = flow[m].key
    /\ InFlight(m)' => InFlight(m)

LEMMA SameFlows == ASSUME flow' = flow PROVE Remain
  BY DEF Remain, InFlight

LEMMA Ended ==
  ASSUME UploadsTyped, NEW n \in Picks, End(n)
  PROVE  /\ Remain /\ flow'[n].stage = "idle" /\ ~InFlight(n)'
         /\ \A m \in Picks : m # n => flow'[m] = flow[m]
  BY DEF UploadsTyped, Flows, End, Idle, Remain, InFlight

LEMMA Staged ==
  ASSUME UploadsTyped, NEW n \in Picks, NEW s, s # "idle",
         flow[n].stage # "idle", InFlight(n) \/ s = "aborted",
         flow' = [flow EXCEPT ![n].stage = s]
  PROVE  /\ Remain /\ flow'[n].stage = s
         /\ flow'[n].version = flow[n].version /\ flow'[n].key = flow[n].key
         /\ \A m \in Picks : m # n => flow'[m] = flow[m]
  BY DEF UploadsTyped, Flows, Remain, InFlight

LEMMA AbortedRemain ==
  ASSUME UploadsTyped, PageTyped, flow' = AbortedFlow
  PROVE  /\ Remain
         /\ \A m \in Picks : InFlight(m)' /\ flow[m].stage # "watching" => flow'[m] = flow[m]
         /\ \A m \in Picks : flow[m].stage = "watching" => flow'[m] = flow[m]
  <1>1. CASE flow' = flow
    BY <1>1, SameFlows
  <1>2. CASE flow' # flow
    <2>1. /\ page.controller \in Picks
          /\ flow[page.controller].stage \in {"posting", "accepted", "refused", "failed"}
          /\ flow' = [flow EXCEPT ![page.controller].stage = "aborted"]
      BY <1>2 DEF AbortedFlow, PageTyped
    <2>2. /\ Remain /\ flow'[page.controller].stage = "aborted"
          /\ \A m \in Picks : m # page.controller => flow'[m] = flow[m]
      BY <2>1, Staged
    <2> QED BY <2>1, <2>2 DEF InFlight
  <1> QED BY <1>1, <1>2

LEMMA AnswerRemains ==
  ASSUME UploadsTyped, NEW n \in Picks, Accept(n) \/ Refuse(n)
  PROVE  /\ Remain /\ page' = page
         /\ flow[n].stage = "posting" /\ InFlight(n)
         /\ flow'[n].stage \in {"accepted", "refused", "failed"} /\ InFlight(n)'
         /\ flow'[n].version = flow[n].version /\ flow'[n].key = flow[n].key
         /\ \A m \in Picks : m # n => flow'[m] = flow[m]
  <1>1. PICK s \in {"accepted", "refused", "failed"} : flow' = [flow EXCEPT ![n].stage = s]
    BY DEF Accept, Refuse
  <1>2. flow[n].stage = "posting" /\ InFlight(n) /\ page' = page
    BY DEF Accept, Refuse, InFlight
  <1> QED BY <1>1, <1>2, Staged DEF InFlight

LEMMA StepRemains ==
  ASSUME Types, UploadSide, ~Pick PROVE Remain /\ page'.version >= page.version
  <1> USE DEF Types
  <1>0. page.version \in Nat
    BY DEF PageTyped
  <1>a. ASSUME NEW n \in Picks, NEW cancelled, Abandon(n, cancelled)
        PROVE  Remain /\ page'.version >= page.version
    BY <1>0, <1>a, Ended, ClearedFields, NoControllerFields DEF Abandon, PageFields
  <1>1. ASSUME NEW n \in Picks, UploadStep(n) PROVE Remain /\ page'.version >= page.version
    <2>1. CASE Accept(n) \/ Refuse(n)
      BY <1>0, <2>1, AnswerRemains
    <2>3. CASE Accepted(n)
      <3>1. CASE Current(n)
        <4>1. Remain
          BY <2>3, <3>1, Staged DEF Accepted, InFlight
        <4>2. page'.version = page.version
          BY <2>3, <3>1, NoControllerFields DEF Accepted, PageFields
        <4> QED BY <1>0, <4>1, <4>2
      <3>2. CASE ~Current(n)
        BY <1>0, <2>3, <3>2, Ended, NoControllerFields DEF Accepted
      <3> QED BY <3>1, <3>2
    <2>4. CASE Refused(n)
      BY <1>0, <2>4, Ended, NoControllerFields DEF Refused
    <2>5. CASE Aborted(n) \/ PollFails(n)
      BY <1>a, <2>5 DEF Aborted, PollFails
    <2>6. CASE JobSeen(n)
      <3>1. CASE ingest[flow[n].key] = "ready"
        <4>1. Remain
          BY <2>6, <3>1, Ended DEF JobSeen
        <4>2. page'.version = page.version
          BY <2>6, <3>1, NoControllerFields DEF JobSeen, PageFields
        <4> QED BY <1>0, <4>1, <4>2
      <3>2. CASE ingest[flow[n].key] # "ready"
        BY <1>a, <2>6, <3>2 DEF JobSeen
      <3> QED BY <3>1, <3>2
    <2> QED BY <1>1, <2>1, <2>3, <2>4, <2>5, <2>6 DEF UploadStep
  <1>2. ASSUME NEW n \in Picks, IngestEnds(n) PROVE Remain /\ page'.version >= page.version
    BY <1>0, <1>2, SameFlows DEF IngestEnds, uploads
  <1>3. ASSUME NEW l \in loads, Loaded(l) \/ LoadFails(l) \/ LoadThrows(l)
        PROVE  Remain /\ page'.version >= page.version
    <2>1. page'.version \in {page.version, page.version + 1}
      <3>1. CASE Loaded(l) \/ LoadFails(l)
        BY <3>1, LoadedFields
      <3>2. CASE LoadThrows(l)
        BY <3>2, ClearedFields DEF LoadThrows, PageFields
      <3> QED BY <1>3, <3>1, <3>2
    <2> QED BY <1>0, <1>3, <2>1, SameFlows DEF Loaded, LoadFails, LoadThrows
  <1>4. ASSUME NEW r \in Removals, Delete(r) \/ Deleted(r) \/ DeleteFails(r)
        PROVE  Remain /\ page'.version >= page.version
    <2>1. page'.version \in {page.version, page.version + 1}
      BY <1>4, ClearedFields DEF Delete, Deleted, DeleteFails, Clear, PageTyped, PageFields
    <2> QED BY <1>0, <1>4, <2>1, SameFlows DEF Delete, Deleted, DeleteFails
  <1>5. CASE RetrySections \/ RemoveDone
    BY <1>0, <1>5, SameFlows, ClearedFields DEF RetrySections, RemoveDone, Clear
  <1>6. CASE RemoveRunning
    <2>1. page'.version >= page.version
      BY <1>0, <1>6, ClearedFields DEF RemoveRunning, PageTyped, PageFields
    <2> QED BY <1>6, <2>1, AbortedRemain DEF RemoveRunning
  <1>7. CASE Select
    <2>1. page'.version = page.version
      BY <1>7 DEF Select, PageTyped, PageFields
    <2> QED BY <1>0, <1>7, <2>1, SameFlows DEF Select, uploads
  <1> QED BY <1>1, <1>2, <1>3, <1>4, <1>5, <1>6, <1>7 DEF UploadSide

LEMMA VersionsStay == ASSUME Types, Versions, Next PROVE Versions'
  <1> USE DEF Types
  <1>0. page.version \in Nat /\ page'.version \in Nat
    BY TypesStay DEF PageTyped
  <1>1. CASE Pick
    <2> DEFINE n == clicks.picks + 1
               k == IF stored[file[n]] # 0 THEN stored[file[n]] ELSE n
    <2>1. n \in Picks /\ file[n] \in Files /\ k \in Picks
      BY <1>1 DEF Pick, UploadsTyped
    <2>2. /\ flow' = [flow EXCEPT ![n] = [stage |-> "posting", version |-> page.version + 1,
                                          key |-> k]]
          /\ page'.version = page.version + 1
      BY <1>1 DEF Pick, PageTyped, PageFields
    <2> HIDE DEF n, k
    <2>3. /\ flow'[n].version = page.version + 1 /\ flow'[n].key = k
          /\ \A m \in Picks : m # n => flow'[m] = flow[m]
      BY <2>1, <2>2 DEF UploadsTyped
    <2>4. \A m \in Picks : m # n /\ flow'[m].stage # "idle" =>
            flow'[m].version < flow'[n].version /\ flow'[m].key \in Picks
      BY <1>0, <2>3 DEF Versions, UploadsTyped, Flows
    <2>5. \A m \in Picks : flow'[m].stage # "idle" =>
            flow'[m].version <= page'.version /\ flow'[m].key \in Picks
      BY <1>0, <2>1, <2>2, <2>3, <2>4 DEF Versions, UploadsTyped, Flows
    <2>6. ASSUME NEW i \in Picks, NEW j \in Picks,
                 flow'[i].stage # "idle", flow'[j].stage # "idle",
                 flow'[i].version = flow'[j].version
          PROVE  i = j
      <3>1. CASE i = n \/ j = n
        BY <1>0, <2>1, <2>3, <2>4, <2>6, <3>1
      <3>2. CASE i # n /\ j # n
        BY <2>3, <2>6, <3>2 DEF Versions
      <3> QED BY <3>1, <3>2
    <2> QED BY <2>5, <2>6 DEF Versions
  <1>2. CASE UploadSide /\ ~Pick
    BY <1>0, <1>2, StepRemains DEF Versions, Remain, UploadsTyped, Flows
  <1>3. CASE GenSide
    BY <1>3, GenTouchesNoUpload DEF UploadsUntouched, uploads, Versions
  <1>4. CASE Reload
    BY <1>4 DEF Reload, Idle, Versions
  <1> QED BY <1>1, <1>2, <1>3, <1>4, Sides

\* No load begins, and at most the version is counted up.
LEMMA KeptLoading ==
  ASSUME Types, Loading, Remain, page'.version >= page.version, page'.version \in Nat,
         NEW l \in loads
  PROVE  /\ l.version \in Nat /\ l.version <= page'.version
         /\ l.version = page'.version => \A n \in Picks : InFlight(n)' => ~Current(n)'
  <1>1. page.version \in Nat /\ l.version \in Nat /\ l.version <= page.version
    BY DEF Types, PageTyped, Loading
  <1>2. ASSUME l.version = page'.version, NEW n \in Picks, InFlight(n)' PROVE ~Current(n)'
    <2>1. page'.version = page.version
      BY <1>1, <1>2
    <2>2. InFlight(n) /\ flow'[n].version = flow[n].version
      BY <1>2 DEF Remain, InFlight
    <2> QED BY <1>2, <2>1, <2>2 DEF Loading, Current
  <1> QED BY <1>1, <1>2

LEMMA LoadingStays == ASSUME Types, Versions, Shown, Loading, Next PROVE Loading'
  <1> USE DEF Types
  <1>0. page.version \in Nat /\ page'.version \in Nat
    BY TypesStay DEF PageTyped
  <1>1. CASE Pick
    <2>1. loads' = loads /\ page'.version = page.version + 1
      BY <1>1 DEF Pick, PageTyped, PageFields
    <2> QED BY <1>0, <2>1 DEF Loading
  <1>2. CASE UploadSide /\ ~Pick
    <2>1. Remain /\ page'.version >= page.version
      BY <1>2, StepRemains
    <2>2. CASE loads' \subseteq loads
      BY <1>0, <2>1, <2>2, KeptLoading DEF Loading
    <2>3. ASSUME NEW n \in Picks, JobSeen(n), ~(loads' \subseteq loads) PROVE Loading'
      <3>1. /\ flow[n].stage = "watching" /\ Current(n) /\ End(n)
            /\ page' = [NoController EXCEPT !.done = TRUE, !.doc = flow[n].key]
            /\ loads' = loads \cup {[doc |-> flow[n].key, version |-> flow[n].version,
                                     why |-> "upload"]}
        BY <2>3 DEF JobSeen, Wanted
      <3>2. page'.version = page.version /\ flow[n].version = page.version
        BY <3>1, NoControllerFields DEF PageFields, Current
      <3>3. \A m \in Picks : InFlight(m)' => ~Current(m)'
        <4>1. \A m \in Picks : InFlight(m)' => m # n /\ flow'[m] = flow[m] /\ InFlight(m)
          BY <3>1, Ended DEF Remain
        <4>2. \A m \in Picks : InFlight(m) /\ Current(m) => m = n
          BY <3>1 DEF Versions, InFlight, Current
        <4> QED BY <3>2, <4>1, <4>2 DEF Current
      <3>4. \A l \in loads' : l \in loads \/ l.version = page'.version
        BY <3>1, <3>2
      <3> QED BY <1>0, <2>1, <3>3, <3>4, KeptLoading DEF Loading
    <2>4. CASE RetrySections
      <3>1. /\ page.doc # 0 /\ UNCHANGED <<page, flow>>
            /\ \A l \in loads' : l.version = page.version
        BY <2>4 DEF RetrySections
      <3>2. \A n \in Picks : InFlight(n)' => ~Current(n)'
        BY <3>1 DEF Shown, InFlight, Current
      <3> QED BY <1>0, <3>1, <3>2 DEF Loading
    <2>5. \/ loads' \subseteq loads \/ RetrySections \/ \E n \in Picks : JobSeen(n)
      <3>1. ASSUME NEW n \in Picks, UploadStep(n), ~JobSeen(n) PROVE loads' = loads
        BY <3>1 DEF UploadStep, Accept, Refuse, Accepted, Refused, Aborted, PollFails
      <3>2. ASSUME NEW n \in Picks, IngestEnds(n) PROVE loads' = loads
        BY <3>2 DEF IngestEnds, uploads
      <3>3. ASSUME NEW l \in loads, Loaded(l) \/ LoadFails(l) \/ LoadThrows(l)
            PROVE  loads' \subseteq loads
        BY <3>3 DEF Loaded, LoadFails, LoadThrows
      <3>4. ASSUME NEW r \in Removals, Delete(r) \/ Deleted(r) \/ DeleteFails(r)
            PROVE  loads' = loads
        BY <3>4 DEF Delete, Deleted, DeleteFails
      <3>5. CASE RemoveDone \/ RemoveRunning \/ Select
        BY <3>5 DEF RemoveDone, RemoveRunning, Select, uploads
      <3> QED BY <1>2, <3>1, <3>2, <3>3, <3>4, <3>5 DEF UploadSide
    <2> QED BY <2>2, <2>3, <2>4, <2>5
  <1>3. CASE GenSide
    BY <1>3, GenTouchesNoUpload DEF UploadsUntouched, uploads, Loading, InFlight, Current
  <1>4. CASE Reload
    <2>1. page'.version = 1 /\ \A n \in Picks : ~InFlight(n)'
      BY <1>4 DEF Reload, Blank, Idle, InFlight
    <2>2. \A l \in loads' : l.version = 1
      BY <1>4 DEF Reload
    <2> QED BY <2>1, <2>2 DEF Loading
  <1> QED BY <1>1, <1>2, <1>3, <1>4, Sides

\* A version counted up by a step that begins no upload: no upload is current.
LEMMA NoneCurrent ==
  ASSUME Types, Versions, Remain, page'.version = page.version + 1
  PROVE  \A m \in Picks : InFlight(m)' => ~Current(m)'
  <1>1. page.version \in Nat
    BY DEF Types, PageTyped
  <1> TAKE m \in Picks
  <1>2. HAVE InFlight(m)'
  <1>3. flow'[m].version = flow[m].version /\ flow[m].version <= page.version
    BY <1>2 DEF Remain, InFlight, Versions
  <1>4. flow[m].version \in Nat
    BY DEF Types, UploadsTyped, Flows
  <1> QED BY <1>1, <1>3, <1>4 DEF Current

LEMMA ClearedShown ==
  ASSUME Types, Versions, Remain, page'.version = page.version + 1,
         page'.doc = 0, page'.tree = 0, ~page'.done
  PROVE  Shown'
  BY NoneCurrent DEF Shown

LEMMA SameShown ==
  ASSUME Shown, Remain, page'.version = page.version, page'.doc = page.doc,
         page'.tree = page.tree, page'.done = page.done, chosen' = chosen
  PROVE  Shown'
  BY DEF Shown, Remain, Current, InFlight

\* The abort of an upload with no job: nothing is under way that the page has cleared.
LEMMA AbandonShown ==
  ASSUME Types, Versions, Shown, NEW n \in Picks, NEW cancelled, Abandon(n, cancelled)
  PROVE  Shown'
  <1> USE DEF Types
  <1>1. Remain
    BY Ended DEF Abandon
  <1>2. CASE page' = [Cleared EXCEPT !.controller = 0]
    <2>1. page'.version = page.version + 1 /\ page'.doc = 0 /\ page'.tree = 0 /\ ~page'.done
      BY <1>2, ClearedFields DEF PageFields
    <2> QED BY <1>1, <2>1, ClearedShown
  <1>3. CASE page' = NoController /\ chosen' = chosen
    BY <1>1, <1>3, NoControllerFields, SameShown
  <1> QED BY <1>2, <1>3 DEF Abandon

LEMMA ShownStays == ASSUME Types, Versions, Shown, Next PROVE Shown'
  <1> USE DEF Types
  <1>0. page.version \in Nat
    BY DEF PageTyped
  <1>1. CASE Pick
    <2> DEFINE n == clicks.picks + 1
               k == IF stored[file[n]] # 0 THEN stored[file[n]] ELSE n
    <2>1. n \in Picks
      BY <1>1 DEF Pick
    <2>2. /\ flow' = [flow EXCEPT ![n] = [stage |-> "posting", version |-> page.version + 1,
                                          key |-> k]]
          /\ page'.version = page.version + 1 /\ page'.doc = 0 /\ page'.tree = 0
          /\ ~page'.done /\ chosen' = k
      BY <1>1 DEF Pick, PageTyped, PageFields
    <2> HIDE DEF n, k
    <2>3. /\ flow'[n].key = k
          /\ \A m \in Picks : m # n => flow'[m] = flow[m]
      BY <2>1, <2>2 DEF UploadsTyped
    <2>4. \A m \in Picks : m # n /\ InFlight(m)' => ~Current(m)'
      BY <1>0, <2>2, <2>3 DEF Versions, UploadsTyped, Flows, InFlight, Current
    <2> QED BY <2>2, <2>3, <2>4 DEF Shown
  <1>2. ASSUME NEW n \in Picks, UploadStep(n) PROVE Shown'
    <2>1. CASE Accept(n) \/ Refuse(n)
      <3>1. UNCHANGED <<page, chosen>>
        BY <2>1 DEF Accept, Refuse, history
      <3> QED BY <2>1, <3>1, AnswerRemains, SameShown
    <2>2. CASE Accepted(n)
      <3>1. Remain
        <4>1. CASE Current(n)
          BY <2>2, <4>1, Staged DEF Accepted, InFlight
        <4>2. CASE ~Current(n)
          BY <2>2, <4>2, Ended DEF Accepted
        <4> QED BY <4>1, <4>2
      <3>2. /\ page'.version = page.version /\ page'.doc = page.doc
            /\ page'.tree = page.tree /\ page'.done = page.done /\ chosen' = chosen
        BY <2>2, NoControllerFields DEF Accepted, PageFields, history
      <3> QED BY <3>1, <3>2, SameShown
    <2>3. CASE Refused(n)
      BY <2>3, Ended, NoControllerFields, SameShown DEF Refused, history
    <2>4. CASE Aborted(n) \/ PollFails(n)
      BY <2>4, AbandonShown DEF Aborted, PollFails
    <2>5. CASE JobSeen(n)
      <3>1. CASE ingest[flow[n].key] = "ready" /\ Wanted(n)
        <4>1. InFlight(n) /\ Current(n) /\ flow[n].key \in Picks
          BY <2>5, <3>1 DEF JobSeen, Wanted, InFlight, Versions
        <4>2. page.doc = 0 /\ flow[n].key = chosen /\ page.tree = 0
          BY <4>1 DEF Shown
        <4>3. page' = [NoController EXCEPT !.done = TRUE, !.doc = flow[n].key]
              /\ End(n) /\ chosen' = chosen
          BY <2>5, <3>1 DEF JobSeen
        <4>4. page'.doc = chosen /\ page'.tree = 0 /\ page'.version = page.version
          BY <4>2, <4>3, NoControllerFields DEF PageFields
        <4>5. \A m \in Picks : InFlight(m)' => ~Current(m)'
          <5>1. \A m \in Picks : InFlight(m)' => m # n /\ flow'[m] = flow[m] /\ InFlight(m)
            BY <4>3, Ended DEF Remain
          <5>2. \A m \in Picks : InFlight(m) /\ Current(m) => m = n
            BY <4>1 DEF Versions, InFlight, Current
          <5> QED BY <4>4, <5>1, <5>2 DEF Current
        <4> QED BY <4>1, <4>2, <4>3, <4>4, <4>5, NoZero DEF Shown
      <3>2. CASE ingest[flow[n].key] = "ready" /\ ~Wanted(n)
        BY <2>5, <3>2, Ended, NoControllerFields, SameShown DEF JobSeen
      <3>3. CASE ingest[flow[n].key] # "ready"
        BY <2>5, <3>3, AbandonShown DEF JobSeen
      <3> QED BY <3>1, <3>2, <3>3
    <2> QED BY <1>2, <2>1, <2>2, <2>3, <2>4, <2>5 DEF UploadStep
  <1>3. ASSUME NEW n \in Picks, IngestEnds(n) PROVE Shown'
    BY <1>3, SameFlows, SameShown DEF IngestEnds, uploads, history
  <1>4. ASSUME NEW l \in loads, Loaded(l) \/ LoadFails(l) \/ LoadThrows(l) PROVE Shown'
    <2>1. Remain
      BY <1>4, SameFlows DEF Loaded, LoadFails, LoadThrows
    <2>2. CASE page' = Settled(l) /\ chosen' = chosen
      BY <2>1, <2>2, SettledFields, SameShown
    <2>3. CASE Loaded(l) /\ page' # Settled(l)
      <3>1. /\ l.doc = page.doc /\ page'.tree = l.doc /\ page'.doc = page.doc
            /\ page'.version = page.version /\ chosen' = chosen
        BY <2>3, SettledFields DEF Loaded, PageFields, history
      <3>2. l.doc # 0
        BY NoZero DEF UploadsTyped
      <3> QED BY <2>1, <3>1, <3>2 DEF Shown, Remain, Current, InFlight
    <2>4. CASE LoadThrows(l)
      <3>1. page'.version = page.version + 1 /\ page'.doc = 0 /\ page'.tree = 0 /\ ~page'.done
        BY <2>4, ClearedFields DEF LoadThrows, PageFields
      <3> QED BY <2>1, <3>1, ClearedShown
    <2> QED BY <1>4, <2>2, <2>3, <2>4 DEF Loaded, LoadFails, history
  <1>5. CASE RetrySections
    BY <1>5, SameFlows, SameShown DEF RetrySections, history
  <1>6. CASE RemoveDone
    BY <1>6, SameFlows, ClearedFields, ClearedShown DEF RemoveDone, Clear
  <1>7. CASE RemoveRunning
    <2>1. Remain
      BY <1>7, AbortedRemain DEF RemoveRunning
    <2>2. CASE page.job # 0
      <3>1. page' = [page EXCEPT !.cancelling = TRUE] /\ chosen' = chosen
        BY <1>7, <2>2 DEF RemoveRunning
      <3>2. /\ page'.version = page.version /\ page'.doc = page.doc
            /\ page'.tree = page.tree /\ page'.done = page.done
        BY <3>1 DEF PageTyped, PageFields
      <3> QED BY <2>1, <3>1, <3>2, SameShown
    <2>3. CASE page.job = 0
      <3>1. page' = [Cleared EXCEPT !.cancelling = TRUE]
        BY <1>7, <2>3 DEF RemoveRunning
      <3>2. page'.version = page.version + 1 /\ page'.doc = 0 /\ page'.tree = 0 /\ ~page'.done
        BY <3>1, ClearedFields DEF PageFields
      <3> QED BY <2>1, <3>2, ClearedShown
    <2> QED BY <2>2, <2>3
  <1>8. ASSUME NEW r \in Removals, Delete(r) \/ Deleted(r) \/ DeleteFails(r) PROVE Shown'
    <2>1. Remain
      BY <1>8, SameFlows DEF Delete, Deleted, DeleteFails
    <2>2. CASE Deleted(r)
      BY <2>1, <2>2, ClearedFields, ClearedShown DEF Deleted, Clear
    <2>3. CASE Delete(r) \/ DeleteFails(r)
      <3>1. /\ page'.version = page.version /\ page'.doc = page.doc /\ chosen' = chosen
            /\ page'.tree = page.tree /\ page'.done = page.done
        BY <2>3 DEF Delete, DeleteFails, PageTyped, PageFields, history
      <3> QED BY <2>1, <3>1, SameShown
    <2> QED BY <1>8, <2>2, <2>3
  <1>11. CASE Select
    <2>1. /\ page'.version = page.version /\ page'.doc = page.doc
          /\ page'.tree = page.tree /\ page'.done = page.done
      BY <1>11 DEF Select, PageTyped, PageFields
    <2>2. Remain /\ chosen' = chosen
      BY <1>11, SameFlows DEF Select, uploads, history
    <2> QED BY <2>1, <2>2, SameShown
  <1>9. CASE GenSide
    BY <1>9, GenTouchesNoUpload, SameFlows, SameShown DEF UploadsUntouched, uploads
  <1>10. CASE Reload
    <2>1. \A m \in Picks : ~InFlight(m)'
      BY <1>10 DEF Reload, Idle, InFlight
    <2>2. page'.doc = chosen' /\ page'.tree = 0 /\ ~page'.done
      BY <1>10 DEF Reload, Blank
    <2> QED BY <2>1, <2>2 DEF Shown
  <1> QED BY <1>1, <1>2, <1>3, <1>4, <1>5, <1>6, <1>7, <1>8, <1>9, <1>10, <1>11, Sides
          DEF UploadSide

\* A step within a version: whoever stops waiting for a job knows that it ended or loses it.
LEMMA StillFollowed ==
  ASSUME Types, Versions, Followed, Remain, page'.version = page.version, lost \subseteq lost',
         \A m \in Picks : InFlight(m) /\ Current(m) /\ ~InFlight(m)' =>
           ingest'[flow[m].key] # "active" \/ UploadLost(flow[m].key) \in lost',
         \A k \in Picks : ingest'[k] = "active" =>
           ingest[k] = "active" \/ UploadLost(k) \in lost',
         \A m \in Picks : flow'[m].stage = "watching" /\ Current(m) =>
           page'.job = flow[m].key,
         \A m \in Picks : flow'[m].stage \in {"posting", "refused", "failed"} =>
           flow[m].stage \in {"posting", "refused", "failed"}
  PROVE  Followed'
  <1>0. \A m \in Picks : InFlight(m)' =>
          /\ InFlight(m) /\ flow'[m].version = flow[m].version
          /\ flow'[m].key = flow[m].key /\ flow[m].key \in Picks
    BY DEF Remain, InFlight, Versions
  <1>1. \A m \in Picks : InFlight(m)' => Current(m)' \/ UploadLost(flow'[m].key) \in lost'
    BY <1>0 DEF Followed, Current
  <1>2. \A m \in Picks : flow'[m].stage = "watching" /\ Current(m)' =>
          page'.job = flow'[m].key
    BY <1>0 DEF InFlight, Current
  <1>3. \A m \in Picks : flow'[m].stage \in {"posting", "refused", "failed"} =>
          ingest'[flow'[m].key] # "active" \/ UploadLost(flow'[m].key) \in lost'
    BY <1>0 DEF InFlight, Followed
  <1>4. ASSUME NEW k \in Picks, ingest'[k] = "active", UploadLost(k) \notin lost'
        PROVE  \E n \in Picks : InFlight(n)' /\ Current(n)' /\ flow'[n].key = k
    <2>1. PICK n \in Picks : InFlight(n) /\ Current(n) /\ flow[n].key = k
      BY <1>4 DEF Followed
    <2>2. InFlight(n)'
      BY <1>4, <2>1
    <2> QED BY <1>0, <2>1, <2>2 DEF Current
  <1> QED BY <1>1, <1>2, <1>3, <1>4 DEF Followed

\* A step that counts the version up: each upload that was current is lost, or it is over and
\* its job is not at work.
LEMMA ClearedFollowed ==
  ASSUME Types, Versions, Followed, Remain, page'.version = page.version + 1,
         lost \subseteq lost', ingest' = ingest,
         \A m \in Picks : InFlight(m) /\ Current(m) =>
           \/ UploadLost(flow[m].key) \in lost'
           \/ ~InFlight(m)' /\ ingest[flow[m].key] # "active",
         \A m \in Picks : flow'[m].stage \in {"posting", "refused", "failed"} =>
           flow[m].stage \in {"posting", "refused", "failed"}
  PROVE  Followed'
  <1>0. \A m \in Picks : InFlight(m)' =>
          /\ InFlight(m) /\ ~Current(m)' /\ flow'[m].key = flow[m].key
          /\ flow[m].key \in Picks
    BY NoneCurrent DEF Remain, InFlight, Versions
  <1>1. \A m \in Picks : InFlight(m)' => UploadLost(flow'[m].key) \in lost'
    BY <1>0 DEF Followed
  <1>2. \A m \in Picks : flow'[m].stage = "watching" => ~Current(m)'
    BY <1>0 DEF InFlight
  <1>3. \A m \in Picks : flow'[m].stage \in {"posting", "refused", "failed"} =>
          UploadLost(flow'[m].key) \in lost'
    BY <1>1 DEF InFlight
  <1>4. ASSUME NEW k \in Picks, ingest'[k] = "active" PROVE UploadLost(k) \in lost'
    <2>1. CASE UploadLost(k) \in lost
      BY <2>1
    <2>2. CASE UploadLost(k) \notin lost
      <3>1. PICK n \in Picks : InFlight(n) /\ Current(n) /\ flow[n].key = k
        BY <1>4, <2>2 DEF Followed
      <3> QED BY <1>4, <3>1
    <2> QED BY <2>1, <2>2
  <1> QED BY <1>1, <1>2, <1>3, <1>4 DEF Followed

LEMMA PickFollowed == ASSUME Types, Versions, Followed, Pick PROVE Followed'
  <1> USE DEF Types
  <1> DEFINE n == clicks.picks + 1
             k == IF stored[file[n]] # 0 THEN stored[file[n]] ELSE n
  <1>0. page.version \in Nat
    BY DEF PageTyped
  <1>1. n \in Picks /\ file[n] \in Files /\ k \in Picks
    BY DEF Pick, UploadsTyped
  <1>2. /\ flow' = [flow EXCEPT ![n] = [stage |-> "posting", version |-> page.version + 1,
                                        key |-> k]]
        /\ page'.version = page.version + 1 /\ ingest' = ingest
        /\ lost' = lost \cup {UploadLost(flow[m].key) : m \in {o \in Picks : InFlight(o)}}
    BY DEF Pick, PageTyped, PageFields, server
  <1> HIDE DEF n, k
  <1>3. /\ flow'[n].stage = "posting" /\ flow'[n].version = page.version + 1
        /\ flow'[n].key = k
        /\ \A m \in Picks : m # n => flow'[m] = flow[m]
    BY <1>1, <1>2 DEF UploadsTyped
  <1>4. \A m \in Picks : InFlight(m) => UploadLost(flow[m].key) \in lost'
    BY <1>2
  <1>5. \A j \in Picks : ingest[j] = "active" => UploadLost(j) \in lost'
    BY <1>2, <1>4 DEF Followed
  <1>6. \A m \in Picks : m # n /\ InFlight(m)' => InFlight(m) /\ ~Current(m)'
    <2> TAKE m \in Picks
    <2>1. HAVE m # n /\ InFlight(m)'
    <2>2. flow'[m] = flow[m] /\ InFlight(m)
      BY <1>3, <2>1 DEF InFlight
    <2>3. flow[m].version <= page.version /\ flow[m].version \in Nat
      BY <2>2 DEF Versions, InFlight, UploadsTyped, Flows
    <2> QED BY <1>0, <1>2, <2>2, <2>3 DEF Current
  <1>7. \A m \in Picks : InFlight(m)' => Current(m)' \/ UploadLost(flow'[m].key) \in lost'
    BY <1>2, <1>3, <1>4, <1>6 DEF Current
  <1>8. \A m \in Picks : flow'[m].stage = "watching" => ~Current(m)'
    BY <1>3, <1>6 DEF InFlight
  <1>9. \A m \in Picks : flow'[m].stage \in {"posting", "refused", "failed"} =>
          ingest'[flow'[m].key] # "active" \/ UploadLost(flow'[m].key) \in lost'
    <2> TAKE m \in Picks
    <2>1. CASE m = n
      BY <1>1, <1>2, <1>3, <1>5, <2>1
    <2>2. CASE m # n
      BY <1>3, <1>4, <2>2 DEF InFlight
    <2> QED BY <2>1, <2>2
  <1> QED BY <1>2, <1>5, <1>7, <1>8, <1>9 DEF Followed

LEMMA AcceptFollowed ==
  ASSUME Types, Versions, Followed, NEW n \in Picks, Accept(n) PROVE Followed'
  <1> USE DEF Types
  <1>1. /\ page' = page /\ InFlight(n) /\ InFlight(n)'
        /\ flow'[n].version = flow[n].version /\ flow'[n].key = flow[n].key
        /\ \A m \in Picks : m # n => flow'[m] = flow[m]
    BY AnswerRemains
  <1>2. flow'[n].stage = "accepted" /\ lost' = lost /\ flow[n].key \in Picks
    BY DEF Accept, UploadsTyped, Flows, Versions
  <1>3. \A k \in Picks : ingest'[k] = "active" => ingest[k] = "active" \/ k = flow[n].key
    BY <1>2 DEF Accept, UploadsTyped
  <1>4. \A m \in Picks : InFlight(m)' =>
          /\ InFlight(m) /\ flow'[m].key = flow[m].key /\ flow[m].key \in Picks
    BY <1>1 DEF InFlight, Versions
  <1>5. \A m \in Picks : Current(m)' = Current(m)
    BY <1>1 DEF Current
  <1>6. Current(n) \/ UploadLost(flow[n].key) \in lost
    BY <1>1 DEF Followed
  <1>7. \A m \in Picks : InFlight(m)' => Current(m)' \/ UploadLost(flow'[m].key) \in lost'
    BY <1>2, <1>4, <1>5 DEF Followed
  <1>8. \A m \in Picks : flow'[m].stage = "watching" /\ Current(m)' =>
          page'.job = flow'[m].key
    BY <1>1, <1>2, <1>5 DEF Followed
  <1>9. ASSUME NEW m \in Picks, flow'[m].stage \in {"posting", "refused", "failed"},
               ingest'[flow'[m].key] = "active"
        PROVE  UploadLost(flow'[m].key) \in lost'
    <2>1. /\ m # n /\ flow'[m] = flow[m] /\ flow[m].key \in Picks /\ InFlight(m)
      BY <1>1, <1>2, <1>4, <1>9 DEF InFlight
    <2>2. CASE ingest[flow[m].key] = "active"
      BY <1>2, <1>9, <2>1, <2>2 DEF Followed
    <2>3. CASE flow[m].key = flow[n].key
      <3>1. ~(Current(n) /\ Current(m))
        BY <1>1, <2>1 DEF Versions, InFlight, Current
      <3> QED BY <1>2, <1>6, <2>1, <2>3, <3>1 DEF Followed
    <2> QED BY <1>3, <1>9, <2>1, <2>2, <2>3
  <1>10. ASSUME NEW k \in Picks, ingest'[k] = "active", UploadLost(k) \notin lost'
         PROVE  \E i \in Picks : InFlight(i)' /\ Current(i)' /\ flow'[i].key = k
    <2>1. CASE k = flow[n].key
      BY <1>1, <1>2, <1>5, <1>6, <1>10, <2>1
    <2>2. CASE k # flow[n].key
      <3>1. PICK i \in Picks : InFlight(i) /\ Current(i) /\ flow[i].key = k
        BY <1>2, <1>3, <1>10, <2>2 DEF Followed
      <3>2. i # n /\ flow'[i] = flow[i]
        BY <1>1, <2>2, <3>1
      <3> QED BY <1>5, <3>1, <3>2 DEF InFlight
    <2> QED BY <2>1, <2>2
  <1> QED BY <1>7, <1>8, <1>9, <1>10 DEF Followed

\* An upload ends, and its job is not at work or is lost: whatever page is left.
LEMMA EndFollowed ==
  ASSUME Types, Versions, Followed, NEW n \in Picks, End(n), flow[n].stage # "idle",
         ingest' = ingest, lost \subseteq lost',
         InFlight(n) => ingest[flow[n].key] # "active" \/ UploadLost(flow[n].key) \in lost',
         \/ page'.version = page.version /\ page'.job = page.job
         \/ page'.version = page.version + 1 /\ Current(n)
  PROVE  Followed'
  <1> USE DEF Types
  <1>1. /\ Remain /\ flow'[n].stage = "idle" /\ ~InFlight(n)'
        /\ \A m \in Picks : m # n => flow'[m] = flow[m]
    BY Ended
  <1>2. \A m \in Picks : flow'[m].stage \in {"posting", "refused", "failed", "watching"} =>
          m # n /\ flow'[m].stage = flow[m].stage
    BY <1>1
  <1>3. \A m \in Picks : InFlight(m) /\ ~InFlight(m)' => m = n
    BY <1>1 DEF InFlight
  <1>4. CASE page'.version = page.version /\ page'.job = page.job
    <2>1. \A m \in Picks : InFlight(m) /\ Current(m) /\ ~InFlight(m)' =>
            ingest'[flow[m].key] # "active" \/ UploadLost(flow[m].key) \in lost'
      BY <1>3
    <2>2. \A m \in Picks : flow'[m].stage = "watching" /\ Current(m) =>
            page'.job = flow[m].key
      BY <1>2, <1>4 DEF Followed
    <2> QED BY <1>1, <1>2, <1>4, <2>1, <2>2, StillFollowed
  <1>5. CASE page'.version = page.version + 1 /\ Current(n)
    <2>1. \A m \in Picks : InFlight(m) /\ Current(m) => m = n
      BY <1>5 DEF Versions, InFlight, Current
    <2>2. \A m \in Picks : InFlight(m) /\ Current(m) =>
            \/ UploadLost(flow[m].key) \in lost'
            \/ ~InFlight(m)' /\ ingest[flow[m].key] # "active"
      BY <1>1, <2>1
    <2> QED BY <1>1, <1>2, <1>5, <2>2, ClearedFollowed
  <1> QED BY <1>4, <1>5

LEMMA AbandonFollowed ==
  ASSUME Types, Versions, Followed, NEW n \in Picks, NEW cancelled, Abandon(n, cancelled),
         flow[n].stage # "idle", ingest' = ingest, lost \subseteq lost',
         InFlight(n) => ingest[flow[n].key] # "active" \/ UploadLost(flow[n].key) \in lost'
  PROVE  Followed'
  <1>1. End(n)
    BY DEF Abandon
  <1>2. CASE Current(n) /\ page' = [Cleared EXCEPT !.controller = 0]
    <2>1. page'.version = page.version + 1
      BY <1>2, ClearedFields DEF PageFields
    <2> QED BY <1>1, <1>2, <2>1, EndFollowed
  <1>3. CASE page' = NoController
    <2>1. page'.version = page.version /\ page'.job = page.job
      BY <1>3, NoControllerFields DEF Types
    <2> QED BY <1>1, <2>1, EndFollowed
  <1> QED BY <1>2, <1>3 DEF Abandon

\* A step that leaves the handlers alone and only ends jobs.
LEMMA QuietFollowed ==
  ASSUME Types, Versions, Followed, flow' = flow, page'.version = page.version,
         page'.job = page.job, lost \subseteq lost',
         \A k \in Picks : ingest'[k] = "active" => ingest[k] = "active"
  PROVE  Followed'
  <1>1. Remain /\ \A m \in Picks : InFlight(m) => InFlight(m)'
    BY SameFlows DEF InFlight
  <1>2. \A m \in Picks : flow'[m].stage = "watching" /\ Current(m) => page'.job = flow[m].key
    BY DEF Followed
  <1> QED BY <1>1, <1>2, StillFollowed

LEMMA UploadStepFollowed ==
  ASSUME Types, Versions, Followed, NEW n \in Picks, UploadStep(n) PROVE Followed'
  <1> USE DEF Types
  <1>1. CASE Accept(n)
    BY <1>1, AcceptFollowed
  <1>2. CASE Refuse(n)
    <2>1. /\ Remain /\ page' = page /\ InFlight(n)' /\ flow[n].stage = "posting"
          /\ flow'[n].stage \in {"accepted", "refused", "failed"}
          /\ \A m \in Picks : m # n => flow'[m] = flow[m]
      BY <1>2, AnswerRemains
    <2>2. flow'[n].stage \in {"refused", "failed"}
      BY <1>2 DEF Refuse, UploadsTyped, Flows
    <2>3. lost \subseteq lost'
      BY <1>2 DEF Refuse
    <2>4. \A k \in Picks : ingest'[k] = "active" =>
            ingest[k] = "active" \/ UploadLost(k) \in lost'
      BY <1>2 DEF Refuse, UploadsTyped
    <2>5. \A m \in Picks : InFlight(m) => InFlight(m)'
      BY <2>1 DEF InFlight
    <2>6. \A m \in Picks : flow'[m].stage = "watching" /\ Current(m) =>
            page'.job = flow[m].key
      BY <2>1, <2>2 DEF Followed
    <2>7. \A m \in Picks : flow'[m].stage \in {"posting", "refused", "failed"} =>
            flow[m].stage \in {"posting", "refused", "failed"}
      BY <2>1
    <2> QED BY <2>1, <2>3, <2>4, <2>5, <2>6, <2>7, StillFollowed
  <1>3. CASE Accepted(n)
    <2>0. flow[n].stage = "accepted" /\ UNCHANGED <<ingest, lost>>
      BY <1>3 DEF Accepted, server
    <2>1. CASE Current(n)
      <3>1. flow' = [flow EXCEPT ![n].stage = "watching"]
            /\ page' = [NoController EXCEPT !.operation = 0, !.job = flow[n].key]
        BY <1>3, <2>1 DEF Accepted
      <3>2. page'.version = page.version /\ page'.job = flow[n].key
        BY <3>1, NoControllerFields DEF PageFields
      <3>3. /\ Remain /\ flow'[n].stage = "watching"
            /\ \A m \in Picks : m # n => flow'[m] = flow[m]
        BY <2>0, <3>1, Staged DEF InFlight
      <3>4. \A m \in Picks : InFlight(m) => InFlight(m)'
        BY <3>3 DEF InFlight
      <3>5. \A m \in Picks : flow'[m].stage = "watching" /\ Current(m) => m = n
        BY <2>0, <2>1, <3>3 DEF Versions, Current
      <3>6. \A m \in Picks : flow'[m].stage \in {"posting", "refused", "failed"} =>
              flow[m].stage \in {"posting", "refused", "failed"}
        BY <3>3
      <3> QED BY <2>0, <3>2, <3>3, <3>4, <3>5, <3>6, StillFollowed
    <2>2. CASE ~Current(n)
      <3>1. End(n) /\ page' = NoController
        BY <1>3, <2>2 DEF Accepted
      <3>2. UploadLost(flow[n].key) \in lost'
        BY <2>0, <2>2 DEF Followed, InFlight
      <3>3. page'.version = page.version /\ page'.job = page.job
        BY <3>1, NoControllerFields
      <3> QED BY <2>0, <3>1, <3>2, <3>3, EndFollowed
    <2> QED BY <2>1, <2>2
  <1>4. CASE Refused(n)
    <2>1. End(n) /\ page' = NoController /\ flow[n].stage \in {"refused", "failed"}
          /\ UNCHANGED <<ingest, lost>>
      BY <1>4 DEF Refused, server
    <2>2. page'.version = page.version /\ page'.job = page.job
      BY <2>1, NoControllerFields
    <2>3. ingest[flow[n].key] # "active" \/ UploadLost(flow[n].key) \in lost'
      BY <2>1 DEF Followed
    <2> QED BY <2>1, <2>2, <2>3, EndFollowed
  <1>5. CASE Aborted(n)
    BY <1>5, AbandonFollowed DEF Aborted, InFlight, server
  <1>6. CASE PollFails(n)
    BY <1>6, AbandonFollowed DEF PollFails, server
  <1>7. CASE JobSeen(n)
    <2>0. /\ flow[n].stage = "watching" /\ ingest[flow[n].key] # "active"
          /\ UNCHANGED <<ingest, lost>>
      BY <1>7 DEF JobSeen, server
    <2>1. CASE ingest[flow[n].key] = "ready"
      <3>1. End(n) /\ page'.version = page.version /\ page'.job = page.job
        BY <1>7, <2>1, NoControllerFields DEF JobSeen, PageFields
      <3> QED BY <2>0, <3>1, EndFollowed
    <2>2. CASE ingest[flow[n].key] # "ready"
      BY <1>7, <2>0, <2>2, AbandonFollowed DEF JobSeen
    <2> QED BY <2>1, <2>2
  <1> QED BY <1>1, <1>2, <1>3, <1>4, <1>5, <1>6, <1>7 DEF UploadStep

LEMMA RunningFollowed == ASSUME Types, Versions, Followed, RemoveRunning PROVE Followed'
  <1> USE DEF Types
  <1>1. /\ flow' = AbortedFlow /\ ingest' = ingest
        /\ lost' = lost \cup {UploadLost(flow[n].key) :
                                n \in {m \in Picks : InFlight(m) /\ flow[m].stage # "watching"}}
    BY DEF RemoveRunning, server
  <1>2. /\ Remain
        /\ \A m \in Picks : InFlight(m)' /\ flow[m].stage # "watching" => flow'[m] = flow[m]
        /\ \A m \in Picks : flow[m].stage = "watching" => flow'[m] = flow[m]
    BY <1>1, AbortedRemain
  <1>3. \A m \in Picks : InFlight(m) /\ flow[m].stage # "watching" =>
          UploadLost(flow[m].key) \in lost'
    BY <1>1
  <1>4. \A m \in Picks : flow'[m].stage \in {"posting", "refused", "failed"} =>
          flow[m].stage \in {"posting", "refused", "failed"}
    BY <1>2 DEF InFlight
  <1>5. CASE page.job # 0
    <2>1. page' = [page EXCEPT !.cancelling = TRUE]
      BY <1>5 DEF RemoveRunning
    <2>2. page'.version = page.version /\ page'.job = page.job
      BY <2>1 DEF PageTyped, PageFields
    <2>3. \A m \in Picks : InFlight(m) /\ ~InFlight(m)' => UploadLost(flow[m].key) \in lost'
      BY <1>2, <1>3 DEF InFlight
    <2>4. \A m \in Picks : flow'[m].stage = "watching" /\ Current(m) =>
            page'.job = flow[m].key
      BY <1>2, <2>2 DEF InFlight, Followed
    <2> QED BY <1>1, <1>2, <1>4, <2>2, <2>3, <2>4, StillFollowed
  <1>6. CASE page.job = 0
    <2>1. page' = [Cleared EXCEPT !.cancelling = TRUE]
      BY <1>6 DEF RemoveRunning
    <2>2. page'.version = page.version + 1
      BY <2>1, ClearedFields DEF PageFields
    <2>3. \A m \in Picks : InFlight(m) /\ Current(m) => UploadLost(flow[m].key) \in lost'
      <3> TAKE m \in Picks
      <3>1. HAVE InFlight(m) /\ Current(m)
      <3>2. flow[m].key \in Picks
        BY <3>1 DEF Versions, InFlight
      <3>3. flow[m].stage # "watching"
        BY <1>6, <3>1, <3>2, NoZero DEF Followed
      <3> QED BY <1>3, <3>1, <3>3
    <2> QED BY <1>1, <1>2, <1>4, <2>2, <2>3, ClearedFollowed
  <1> QED BY <1>5, <1>6

LEMMA FollowedStays ==
  ASSUME Types, Versions, Loading, Shown, Followed, Next PROVE Followed'
  <1> USE DEF Types
  <1>1. CASE Pick
    BY <1>1, PickFollowed
  <1>2. ASSUME NEW n \in Picks, UploadStep(n) PROVE Followed'
    BY <1>2, UploadStepFollowed
  <1>3. ASSUME NEW n \in Picks, IngestEnds(n) PROVE Followed'
    <2>1. \A k \in Picks : ingest'[k] = "active" => ingest[k] = "active"
      BY <1>3 DEF IngestEnds, UploadsTyped
    <2> QED BY <1>3, <2>1, QuietFollowed DEF IngestEnds, uploads
  <1>4. ASSUME NEW l \in loads, Loaded(l) \/ LoadFails(l) \/ LoadThrows(l) PROVE Followed'
    <2>1. CASE Loaded(l) \/ LoadFails(l)
      <3>1. page'.version = page.version /\ page'.job = page.job
        BY <2>1, LoadedFields
      <3> QED BY <2>1, <3>1, QuietFollowed DEF Loaded, LoadFails, server
    <2>2. CASE LoadThrows(l)
      <3>1. page'.version = page.version + 1 /\ UNCHANGED <<flow, ingest, lost>>
        BY <2>2, ClearedFields DEF LoadThrows, PageFields, server
      <3>2. \A m \in Picks : ~(InFlight(m) /\ Current(m))
        BY <2>2 DEF LoadThrows, Loading
      <3> QED BY <3>1, <3>2, SameFlows, ClearedFollowed
    <2> QED BY <1>4, <2>1, <2>2
  <1>5. CASE RetrySections
    BY <1>5, QuietFollowed DEF RetrySections, server
  <1>6. CASE RemoveDone
    <2>1. \A m \in Picks : ~(InFlight(m) /\ Current(m))
      BY <1>6 DEF RemoveDone, Shown
    <2>2. page'.version = page.version + 1 /\ UNCHANGED <<flow, ingest, lost>>
      BY <1>6, ClearedFields DEF RemoveDone, Clear, server
    <2> QED BY <2>1, <2>2, SameFlows, ClearedFollowed
  <1>7. CASE RemoveRunning
    BY <1>7, RunningFollowed
  <1>8. ASSUME NEW r \in Removals, Delete(r) PROVE Followed'
    <2>1. \A k \in Picks : ingest'[k] = "active" => ingest[k] = "active"
      BY <1>8 DEF Delete, UploadsTyped
    <2> QED BY <1>8, <2>1, QuietFollowed DEF Delete
  <1>9. ASSUME NEW r \in Removals, Deleted(r) PROVE Followed'
    <2>1. \A m \in Picks : InFlight(m) => UploadLost(flow[m].key) \in lost'
      BY <1>9 DEF Deleted
    <2>2. /\ page'.version = page.version + 1 /\ UNCHANGED <<flow, ingest>>
          /\ lost \subseteq lost'
      BY <1>9, ClearedFields DEF Deleted, Clear, server
    <2> QED BY <2>1, <2>2, SameFlows, ClearedFollowed
  <1>10. ASSUME NEW r \in Removals, DeleteFails(r) PROVE Followed'
    <2>1. page'.version = page.version /\ page'.job = page.job
      BY <1>10 DEF DeleteFails, PageTyped, PageFields
    <2> QED BY <1>10, <2>1, QuietFollowed DEF DeleteFails, server
  <1>13. CASE Select
    <2>1. page'.version = page.version /\ page'.job = page.job
      BY <1>13 DEF Select, PageTyped, PageFields
    <2> QED BY <1>13, <2>1, QuietFollowed DEF Select, uploads, server
  <1>11. CASE GenSide
    BY <1>11, GenTouchesNoUpload, QuietFollowed DEF UploadsUntouched, uploads
  <1>12. CASE Reload
    <2>1. \A m \in Picks : flow'[m].stage = "idle" /\ ~InFlight(m)'
      BY <1>12 DEF Reload, Idle, InFlight
    <2>2. /\ \A m \in Picks : InFlight(m) => UploadLost(flow[m].key) \in lost'
          /\ lost \subseteq lost' /\ ingest' = ingest
      BY <1>12 DEF Reload, server
    <2>3. \A k \in Picks : ingest'[k] = "active" => UploadLost(k) \in lost'
      BY <2>2 DEF Followed
    <2> QED BY <2>1, <2>3 DEF Followed
  <1> QED BY <1>1, <1>2, <1>3, <1>4, <1>5, <1>6, <1>7, <1>8, <1>9, <1>10, <1>11, <1>12, <1>13, Sides
          DEF UploadSide

-----------------------------------------------------------------------------
(* The theorems.                                                           *)

LEMMA StartHolds == ASSUME Init PROVE IInv
  <1>1. Types
    BY StartTyped
  <1>2. \A n \in Picks : flow[n].stage = "idle" /\ ~InFlight(n) /\ ingest[n] = "none"
    BY DEF Init, Idle, InFlight
  <1>3. \A k \in Gens : exam[k].status = "none"
    BY DEF Init, NoExam
  <1>4. page.doc = 0 /\ page.tree = 0 /\ ~page.done /\ chosen = 0
    BY DEF Init, Blank
  <1>5. gen.stage = "idle"
    BY NoGenFields DEF Init
  <1>6. Versions /\ Loading /\ Shown /\ Followed
    BY <1>2, <1>4 DEF Init, Versions, Loading, Shown, Followed
  <1>7. Fitting /\ Pursued /\ Stopping
    BY <1>3, <1>5 DEF Fitting, Pursued, Stopping, StopHonoured, Waiting
  <1> QED BY <1>1, <1>6, <1>7 DEF IInv

LEMMA StepHolds == ASSUME IInv, [Next]_vars PROVE IInv'
  <1>1. CASE Next
    BY <1>1, TypesStay, VersionsStay, LoadingStays, ShownStays, FollowedStays, FittingStays,
       PursuedStays, StoppingStays DEF IInv
  <1>2. CASE UNCHANGED vars
    <2> USE <1>2 DEF vars
    <2>1. Types'
      BY DEF IInv, Types, PageTyped, UploadsTyped, Counted, GenTyped
    <2>2. Versions' /\ Loading' /\ Shown'
      BY DEF IInv, Versions, Loading, Shown, InFlight, Current
    <2>3. Followed'
      BY DEF IInv, Followed, InFlight, Current
    <2>4. Fitting' /\ Pursued' /\ Stopping'
      BY DEF IInv, Fitting, Pursued, Stopping, StopHonoured
    <2> QED BY <2>1, <2>2, <2>3, <2>4 DEF IInv
  <1> QED BY <1>1, <1>2

LEMMA Holds == Spec => []IInv
  <1>1. Init => IInv
    BY StartHolds
  <1>2. IInv /\ [Next]_vars => IInv'
    BY StepHolds
  <1> QED BY <1>1, <1>2, PTL DEF Spec

\* upload.js, topics.js, _validate_child_selection: the document the page takes for ready and
\* the sections it shows are those of the file chosen last, and no exam is made from the
\* sections of another document, however many uploads, loads and removals are under way.
THEOREM DocumentIsChosen == Spec => []ShownIsChosen
  <1>1. IInv => ShownIsChosen
    BY DEF IInv, Shown, Fitting, ShownIsChosen
  <1> QED BY <1>1, Holds, PTL

\* waitForJob, initGenerate: every job at work is waited for by the page or was lost in one of
\* the ways the history names, and a Stop clicked before the job was known is carried out.
THEOREM JobsAccounted == Spec => []Accounted
  <1>1. IInv => Accounted
    BY DEF IInv, Followed, Pursued, Stopping, Accounted, Watched
  <1> QED BY <1>1, Holds, PTL
=============================================================================
