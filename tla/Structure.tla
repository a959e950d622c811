----------------------------- MODULE Structure -----------------------------
(***************************************************************************)
(* The ingestion pipeline: documents with the same content are parsed,     *)
(* cleaned, cut into chunks and titled, or restored from what an earlier   *)
(* execution left in the processed-document cache; then stored.            *)
(*                                                                         *)
(* Executions overlap: those of different documents, and those of one job  *)
(* when the first has stalled, was taken over, and goes on.  What an       *)
(* execution builds is its own until the cache: one is built at a time     *)
(* here, which no other can tell.  After the chunks have been made only    *)
(* the sizes of the families and whether something is missing are kept.    *)
(***************************************************************************)
EXTENDS Chunking

CONSTANTS
  Docs,         \* documents, all with the same content
  Contents,     \* what the parser may give: sequences of kinds of items
  Names,        \* what the language model may call a chunk
  MaxRuns,      \* executions of the job of one document: max_attempts
  MaxFaults,    \* bound: workers lost or stalled, services that fail, cancellations
  InTurn        \* bound: while a structure is built the other documents wait

\* The parser gives what can be cut.
ASSUME IngestAssumption ==
  Contents \subseteq Seq(DOMAIN Shape) /\ MaxRuns \in Nat /\ InTurn \in BOOLEAN

VARIABLES
  items,      \* the content, as the parser gave it to this execution
  phase,      \* where the building of a structure is
  builder,    \* the document it is of
  run,        \* and the execution
  parents,    \* its parents, sequences of units
  families,   \* the children of each parent
  sizes,      \* how many they are
  title,      \* the titles of its chunks, in the order of the document
  at,         \* the next of its batches, or of its titles
  lost,       \* units without a place in the children
  work,       \* where each execution of each job is, and the structure it holds
  job,        \* the status of the job of each document
  claim,      \* its claim_generation: the last execution that claimed it
  faults,
  cache,      \* the artifact in the cache, if any
  store,      \* the chunks stored of each document
  file,       \* structure.json of its job
  author      \* history: the execution that wrote it last

building == <<items, phase, builder, run, parents, families, sizes, title, at, lost>>
jobs == <<job, claim>>
shared == <<cache, store, file, author>>
ingestVars == <<building, work, jobs, faults, shared>>

Runs == 1..MaxRuns

Nothing == [id |-> <<>>, lost |-> {}, titled |-> TRUE]
Idle == [pc |-> "none", made |-> Nothing]

\* How an execution ends; and how a job does.
Gone == {"none", "over", "done"}
Over == {"completed", "failed", "cancelled"}

-----------------------------------------------------------------------------
(* The labels of a document: every parent is a section, and the children   *)
(* of a parent that has several are subsections.                           *)

\* The family of each label.
Owners(counts) ==
  FlattenSeq([p \in DOMAIN counts |->
    [i \in 1..(IF counts[p] > 1 THEN counts[p] + 1 ELSE 1) |-> p]])

Untitled == <<>>
Titles == {<<name, 1>> : name \in Names}

Used(named) == Range(named) \ {Untitled}

\* A title in use is as good as none.
Offers(named) == (Titles \ Used(named)) \cup {Untitled}

\* What the model may give for one label that is to differ from all before it.
Regenerated(named) == Titles \ Used(named)

\* The titles, with one more for a label if it is new: accept.
Accepted(named, i, t) ==
  IF t # Untitled /\ t \notin Used(named) THEN [named EXCEPT ![i] = t] ELSE named

\* The titles offered for some labels are taken in their order.
Offered(named, labels, offer) ==
  FoldLeft(LAMBDA acc, i : Accepted(acc, i, offer[i]), named, labels)

\* The first title of the emergency label that is free: each repetition counts on.
Emergency(named) ==
  LET free == {k \in 1..Len(named) + 1 : <<"content", k>> \notin Used(named)} IN
  <<"content", Min(free)>>

-----------------------------------------------------------------------------
IngestInit ==
  /\ phase = "none" /\ builder = "none" /\ run = 0 /\ items = <<>> /\ parents = <<>>
  /\ families = <<>> /\ sizes = <<>> /\ title = <<>> /\ at = 0 /\ lost = {}
  /\ work = [d \in Docs |-> [n \in Runs |-> Idle]] /\ faults = 0
  /\ job = [d \in Docs |-> "queued"] /\ claim = [d \in Docs |-> 0]
  /\ cache = Nothing /\ store = [d \in Docs |-> Nothing] /\ file = [d \in Docs |-> Nothing]
  /\ author = [d \in Docs |-> 0]

Goes(d, n, pc, made) == work' = [work EXCEPT ![d][n] = [pc |-> pc, made |-> made]]

Discarded ==
  /\ phase' = "none" /\ parents' = <<>> /\ families' = <<>> /\ sizes' = <<>>
  /\ title' = <<>> /\ at' = 0 /\ lost' = {} /\ items' = <<>> /\ builder' = "none" /\ run' = 0

\* Mutant: the fence looks at the status only.
OwnsByStatus(d, n) == job[d] = "running"

\* The fence: what is_cancelled, replace_document and the transactions of the job look at.
Owns(d, n) == job[d] = "running" /\ claim[d] = n

Fault == faults < MaxFaults /\ faults' = faults + 1

\* A job that is retried or recovered waits for its next execution, or has failed.
Again(d) ==
  /\ job' = [job EXCEPT ![d] = IF claim[d] < MaxRuns THEN "queued" ELSE "failed"]
  /\ UNCHANGED claim

\* The execution ends by an exception; its job is retried if it still is its own.
Failed(d, n) ==
  /\ Goes(d, n, "over", Nothing)
  /\ IF Owns(d, n) THEN Again(d) ELSE UNCHANGED jobs
  /\ UNCHANGED shared

\* The ids in an artifact are made anew for the document that restores it.
MadeFor(artifact, d) == [artifact EXCEPT !.id = Append(@, d)]

Restored(artifact) == Len(artifact.id) = 3

\* A worker claims the job, and looks into the cache.
Load(d) ==
  /\ job[d] = "queued" /\ claim[d] < MaxRuns
  /\ job' = [job EXCEPT ![d] = "running"] /\ claim' = [claim EXCEPT ![d] = @ + 1]
  /\ IF cache # Nothing THEN Goes(d, claim[d] + 1, "cached", MadeFor(cache, d))
     ELSE Goes(d, claim[d] + 1, "missed", Nothing)
  /\ UNCHANGED <<building, faults, shared>>

-----------------------------------------------------------------------------
(* Building a structure.                                                   *)

\* An execution that does not own its job any more stops at the next of these places.
At(s) == phase = s /\ Owns(builder, run)

\* The parser is a remote service, which may read the same file in another way.
Extract(d, n) ==
  /\ phase = "none" /\ work[d][n].pc = "missed" /\ Owns(d, n) /\ UNCHANGED faults
  /\ \E given \in Contents :
       IF Cleaned(given) = <<>>
       THEN Failed(d, n) /\ UNCHANGED building
       ELSE /\ Goes(d, n, "building", Nothing) /\ builder' = d /\ run' = n /\ phase' = "headings"
            /\ items' = Cleaned(given) /\ parents' = <<Paragraphs(items')>>
            /\ UNCHANGED <<families, sizes, title, at, lost, jobs, shared>>

\* The semantic walk over the paragraphs, and the policy for what it found.
SplitParents ==
  /\ At("headings") /\ phase' = "chunking"
  /\ \E cuts \in Cuts(parents[1]) :
       parents' = Parents(Merged(Split(parents[1], cuts)))
  /\ UNCHANGED <<items, builder, run, families, sizes, title, at, lost, work, jobs, faults, shared>>

BuildChildren ==
  /\ At("chunking") /\ phase' = "children"
  /\ \E f \in {s \in [DOMAIN parents -> UNION {Children(parents[p]) : p \in DOMAIN parents}] :
                 \A p \in DOMAIN parents : s[p] \in Children(parents[p])} :
       families' = f
  /\ UNCHANGED <<items, builder, run, parents, sizes, title, at, lost, work, jobs, faults, shared>>

\* The protected units that are missing are recovered, and what is missing then is noted
\* (it is looked for when the titles have been made).
Recover ==
  /\ phase = "children" /\ phase' = "chunked"
  /\ families' = Recovered(parents, families)
  /\ lost' = Lost(parents, families')
  /\ UNCHANGED <<items, builder, run, parents, sizes, title, at, work, jobs, faults, shared>>

\* From here on only the families count.
StartTitles ==
  /\ At("chunked") /\ phase' = "titles" /\ at' = 1
  /\ sizes' = [p \in DOMAIN families |-> Len(families[p])]
  /\ title' = [i \in DOMAIN Owners(sizes') |-> Untitled]
  /\ items' = <<>> /\ parents' = <<>> /\ families' = <<>>
  /\ UNCHANGED <<builder, run, lost, work, jobs, faults, shared>>

\* The answers are applied in the order of the batches, a batch being one family: what is
\* taken or not usable is asked for again, one by one, and taken if it still is free.
\* A failed call offers nothing; that of the first batch, which classifies the document,
\* fails the execution.
LabelFamilies ==
  /\ At("titles") /\ at \in DOMAIN sizes
  /\ LET labels == Only([i \in DOMAIN title |-> i], {i \in DOMAIN title : Owners(sizes)[i] = at}) IN
     \E offer \in [Range(labels) -> Offers(title)] :
       LET first == Offered(title, labels, offer)
           rest == Only(labels, {i \in DOMAIN title : first[i] = Untitled}) IN
       \E again \in [Range(rest) -> Offers(first)] : title' = Offered(first, rest, again)
  /\ at' = at + 1
  /\ UNCHANGED <<items, phase, builder, run, parents, families, sizes, lost, work, jobs, faults, shared>>

ClassificationFails ==
  /\ At("titles") /\ at = 1
  /\ Fault /\ Failed(builder, run) /\ Discarded

StartEnforcing ==
  /\ At("titles") /\ at > Len(sizes) /\ phase' = "enforcing" /\ at' = 1
  /\ UNCHANGED <<items, builder, run, parents, families, sizes, title, lost, work, jobs, faults, shared>>

\* In the order of the document: a title that an earlier label has is replaced.
EnforceTitle ==
  /\ At("enforcing") /\ at \in DOMAIN title
  /\ LET before == SubSeq(title, 1, at - 1) IN
     \/ /\ Accepted(Append(before, Untitled), at, title[at])[at] # Untitled
        /\ UNCHANGED title
     \/ /\ Accepted(Append(before, Untitled), at, title[at])[at] = Untitled
        /\ \E t \in Regenerated(before) : title' = [title EXCEPT ![at] = t]
     \/ /\ Accepted(Append(before, Untitled), at, title[at])[at] = Untitled
        /\ title' = [title EXCEPT ![at] = Emergency(before)]
  /\ at' = at + 1
  /\ UNCHANGED <<items, phase, builder, run, parents, families, sizes, lost, work, jobs, faults, shared>>

AllTitled == Untitled \notin Range(title) /\ Cardinality(Range(title)) = Len(title)

\* A structure with a fatal warning is refused.
Verify ==
  /\ At("enforcing") /\ at > Len(title)
  /\ IF lost # {} THEN Failed(builder, run)
     ELSE /\ Goes(builder, run, "built", [id |-> <<builder, run>>, lost |-> lost, titled |-> AllTitled])
          /\ UNCHANGED <<jobs, shared>>
  /\ Discarded /\ UNCHANGED faults

-----------------------------------------------------------------------------
(* Keeping it.                                                             *)

\* The cache knows no owner.
SaveProcessed(d, n) ==
  /\ work[d][n].pc = "built"
  /\ cache' = work[d][n].made /\ Goes(d, n, "cached", work[d][n].made)
  /\ UNCHANGED <<building, jobs, faults, store, file, author>>

ReplaceDocument(d, n) ==
  /\ work[d][n].pc = "cached" /\ Owns(d, n)
  /\ store' = [store EXCEPT ![d] = work[d][n].made]
  /\ Goes(d, n, IF Restored(work[d][n].made) THEN "filing" ELSE "stored", work[d][n].made)
  /\ UNCHANGED <<building, jobs, faults, cache, file, author>>

\* The last look at the job before the file, which an execution that restored has not.
LookAgain(d, n) ==
  /\ work[d][n].pc = "stored" /\ Owns(d, n) /\ Goes(d, n, "filing", work[d][n].made)
  /\ UNCHANGED <<building, jobs, faults, shared>>

\* The executions of a job write the same file, whoever owns the job meanwhile.
PutStructure(d, n) ==
  /\ work[d][n].pc = "filing" /\ Goes(d, n, "put", work[d][n].made)
  /\ file' = [file EXCEPT ![d] = work[d][n].made] /\ author' = [author EXCEPT ![d] = n]
  /\ UNCHANGED <<building, jobs, faults, cache, store>>

Complete(d, n) ==
  /\ work[d][n].pc = "put" /\ Owns(d, n) /\ Goes(d, n, "done", work[d][n].made)
  /\ job' = [job EXCEPT ![d] = "completed"]
  /\ UNCHANGED <<building, claim, faults, shared>>

-----------------------------------------------------------------------------
(* What may come between.                                                  *)

Cancel(d) ==
  /\ Fault /\ job[d] \in {"queued", "running"} /\ job' = [job EXCEPT ![d] = "cancelled"]
  /\ UNCHANGED <<building, work, claim, shared>>

\* The worker has been silent for too long: it is gone, or has stalled and will go on.
RecoverStale(d) ==
  /\ job[d] = "running" /\ Again(d)
  /\ IF work[d][claim[d]].pc = "over" THEN UNCHANGED faults ELSE Fault
  /\ UNCHANGED <<building, work, shared>>

\* What an execution built goes with it.
Leaves(d, n) ==
  /\ work[d][n].pc \notin Gone
  /\ IF work[d][n].pc = "building" THEN Discarded ELSE UNCHANGED building

\* An execution finds, at one of its checkpoints, that the job is not its own.
Abandon(d, n) ==
  /\ ~Owns(d, n) /\ work[d][n].pc \notin {"built", "filing"}
  /\ ~(work[d][n].pc = "building" /\ phase = "children")
  /\ Leaves(d, n) /\ Goes(d, n, "over", Nothing)
  /\ UNCHANGED <<jobs, faults, shared>>

\* The process dies; its job stays as it is until it is recovered.
WorkerLost(d, n) ==
  /\ Fault /\ Leaves(d, n) /\ Goes(d, n, "over", Nothing)
  /\ UNCHANGED <<jobs, shared>>

ServiceFails(d, n) == Fault /\ Leaves(d, n) /\ Failed(d, n)

Done ==
  /\ \A d \in Docs : job[d] \in Over /\ \A n \in Runs : work[d][n].pc \in Gone
  /\ UNCHANGED ingestVars

\* The building of a structure reads and writes nothing that another document's executions
\* do, so that these may come before it or after it.
Meanwhile(d) == \E e \in Docs \ {d}, n \in Runs : work[e][n].pc \in {"missed", "building"}

IngestNext ==
  \/ \E d \in Docs : ~(InTurn /\ Meanwhile(d)) /\ (Load(d) \/ Cancel(d) \/ RecoverStale(d))
  \/ \E d \in Docs, n \in Runs : ~(InTurn /\ Meanwhile(d)) /\
       \/ Extract(d, n) \/ SaveProcessed(d, n) \/ ReplaceDocument(d, n) \/ LookAgain(d, n)
       \/ PutStructure(d, n) \/ Complete(d, n) \/ Abandon(d, n) \/ WorkerLost(d, n) \/ ServiceFails(d, n)
  \/ SplitParents \/ BuildChildren \/ Recover \/ StartTitles \/ LabelFamilies
  \/ ClassificationFails \/ StartEnforcing \/ EnforceTitle \/ Verify
  \/ Done

IngestSpec == IngestInit /\ [][IngestNext]_ingestVars

-----------------------------------------------------------------------------
(* What the chunks of a document are, when they have been made.            *)

\* The texts of sentences, in order; a refrain may be said once for twice.
Texts(sentences) ==
  LET own == Only(sentences, {s \in Range(sentences) : s.own /\ s.text # Refrain}) IN
  [i \in DOMAIN own |-> own[i].text]

HasKind(units, kind) == \E i \in DOMAIN units : units[i].kind = kind

\* The parents hold the cleaned document, and the children of each its text, in the
\* order of the document and once but for overlaps.  A sentence that is repeated word for
\* word may carry a child before its elder siblings, if an integrity recovery sorted them.
InOrder ==
  LET document == FlattenSeq(parents)
      units == Paragraphs(items) IN
  /\ Whole(document) = Whole(units)
  /\ \A i, k \in DOMAIN document : i < k => document[i].at <= document[k].at
  /\ \A p \in DOMAIN parents :
       LET expected == Texts(Content(parents[p], "plain"))
           found == Texts(FlattenSeq(families[p]))
           disturbed == /\ HasKind(document, "listed table") \/ HasKind(document, "listed exercise")
                        /\ HasKind(parents[p], "quoting") IN
       /\ Len(found) = Len(expected) /\ Range(found) = Range(expected)
       /\ ~disturbed => found = expected

\* What is lost is an exercise with bullets: in a parent kept whole as questions, or
\* rebuilt because of a table with bullets, it keeps the bullets it is looked for without.
LossesAreBullets ==
  lost = {x \in Places(parents) :
            /\ parents[x[1]][x[2]].kind = "listed exercise"
            /\ QuestionParent(parents[x[1]]) \/ HasKind(parents[x[1]], "listed table")}

\* Every unit of the document reaches retrieval: what is stored of a document is its
\* text, as the parser gave it, in order; where a unit is missing the document is refused.
NothingMissing == phase = "chunked" => InOrder /\ LossesAreBullets

\* A child exceeds its size for one unit, for the parts of one exercise, or as the parent
\* of questions it is.
CapKept ==
  \A p \in DOMAIN parents : \A child \in Range(families[p]) :
    WordsOf(child) > ChildMax =>
      \/ Cardinality({s.at : s \in Range(child)}) = 1
      \/ \E i \in 2..Len(child) : Bound(child[i - 1], child[i])
      \/ QuestionParent(parents[p])

\* An exercise and what follows it are in one child: unless it is too large for a parent,
\* or the children of its parent were built again.
BoundTogether ==
  /\ \A p \in DOMAIN parents :
       LET rebuilt == HasKind(parents[p], "listed table") \/ QuestionParent(parents[p]) IN
       \A i \in 2..Len(parents[p]) :
         Bound(parents[p][i - 1], parents[p][i]) /\ ~rebuilt =>
           \E child \in Range(families[p]) :
             {parents[p][i - 1].at, parents[p][i].at} \subseteq {s.at : s \in Range(child)}
  /\ \A p \in 2..Len(parents) :
       Bound(Last(parents[p - 1]), parents[p][1]) =>
         Whole(parents[p - 1]) + Whole(parents[p]) > ParentMax

WellCut == phase = "chunked" => CapKept /\ BoundTogether

\* What is cached, stored and filed is a structure that passed the verification, and whose
\* titles all differ, whoever built it.  The chunks of a completed job are those of the
\* execution that completed it, and structure.json tells of them too: unless an execution
\* that had been taken over went on and wrote it last.  No chunk is shared by two documents.
StoredSound ==
  LET sound(r) == r.lost = {} /\ r.titled IN
  /\ sound(cache)
  /\ \A d \in Docs :
       /\ sound(store[d]) /\ sound(file[d])
       /\ job[d] = "completed" =>
            /\ store[d] # Nothing /\ store[d] = work[d][claim[d]].made
            /\ file[d] # Nothing /\ (file[d] # store[d] => author[d] < claim[d])
  /\ \A d, e \in Docs : d # e /\ store[d] # Nothing => store[d].id # store[e].id
=============================================================================
