-------------------------- MODULE DocumentsProofs ---------------------------
(***************************************************************************)
(* Proofs about Documents, for any documents and sessions, any batch and   *)
(* number of attempts, any number of faults, with or without slow          *)
(* ingestions and short job retention.                                     *)
(*                                                                         *)
(* Inv speaks of one document at a time.  A step of the request, the task, *)
(* the purge or time concerns one document and leaves the others as they   *)
(* are (Elsewhere); the lemma Here shows, action by action, that its own   *)
(* document stays sound.  A step of the sweep may concern them all and is  *)
(* shown to keep any one of them sound (SweepSound).                       *)
(***************************************************************************)
EXTENDS Documents, TLAPS

DocRow == [status : DocStatus, aged : BOOLEAN, indexed : BOOLEAN]
JobRow == [status : JobStatus, attempts : Nat]

-----------------------------------------------------------------------------
(* What the operators on rows and the last step of the sweep write.        *)

\* SetDoc writes the status and the age of one row.
LEMMA SetDocRow ==
  ASSUME doc \in [Docs -> DocRow], NEW e \in Docs, NEW s \in DocStatus, SetDoc(e, s)
  PROVE  /\ doc' \in [Docs -> DocRow]
         /\ doc'[e] = [status |-> s, aged |-> FALSE, indexed |-> doc[e].indexed]
         /\ \A d \in Docs \ {e} : doc'[d] = doc[d]
<1>. DEFINE row == [status |-> s, aged |-> FALSE, indexed |-> doc[e].indexed]
<1>1. doc[e] \in DocRow
  OBVIOUS
<1>2. row \in DocRow
  BY <1>1 DEF DocRow
<1>3. doc' = [doc EXCEPT ![e] = row]
  BY DEF SetDoc
<1>. QED  BY <1>2, <1>3

\* SetJob writes the status of one row.
LEMMA SetJobRow ==
  ASSUME job \in [Docs -> JobRow], NEW e \in Docs, NEW s \in JobStatus, SetJob(e, s)
  PROVE  /\ job' \in [Docs -> JobRow]
         /\ job'[e] = [status |-> s, attempts |-> job[e].attempts]
         /\ \A d \in Docs \ {e} : job'[d] = job[d]
<1>. DEFINE row == [status |-> s, attempts |-> job[e].attempts]
<1>1. job[e] \in JobRow
  OBVIOUS
<1>2. row \in JobRow
  BY <1>1 DEF JobRow
<1>3. [job[e] EXCEPT !.status = s] = row
  BY <1>1 DEF JobRow
<1>4. job' = [job EXCEPT ![e] = [job[e] EXCEPT !.status = s]]
  BY DEF SetJob
<1>. QED  BY <1>2, <1>3, <1>4

-----------------------------------------------------------------------------
(* Steps that concern one document.                                        *)

\* They keep the types.
LEMMA DocStepType ==
  ASSUME TypeOK, NEW e \in Docs, DocStep(e)
  PROVE  TypeOK'
<1>. USE DEF DocStatus, JobStatus, Active, Final, rows, files
<1>a. doc \in [Docs -> DocRow] /\ job \in [Docs -> JobRow]
  BY DEF TypeOK, DocRow, JobRow
<1>1. CASE StoreFile(e)
  BY <1>a, <1>1 DEF TypeOK, StoreFile
<1>2. CASE CreateRow(e)
  BY <1>a, <1>2, SetDocRow, SetJobRow DEF TypeOK, CreateRow, InsertRows,
     DocRow, JobRow
<1>3. CASE RefuseUpload(e)
  BY <1>a, <1>3 DEF TypeOK, RefuseUpload
<1>4. CASE Accept(e)
  BY <1>a, <1>4 DEF TypeOK, Accept
<1>5. CASE WithdrawFile(e)
  <2>1. faults' \in Nat
    BY <1>5 DEF TypeOK, WithdrawFile, Fault
  <2>2. doc' \in [Docs -> DocRow] /\ job' \in [Docs -> JobRow]
    BY <1>a, <1>5, SetDocRow, SetJobRow DEF WithdrawFile, InsertRows
  <2>3. /\ upload' = [upload EXCEPT ![e] = "done"]
        /\ source' = source \ {e} /\ excused' = excused \cup {e}
        /\ UNCHANGED <<session, chunks, structure, work, purge, sweep>>
    BY <1>5 DEF WithdrawFile
  <2>. QED  BY <2>1, <2>2, <2>3 DEF TypeOK, DocRow, JobRow
<1>6. CASE UploadLost(e)
  BY <1>a, <1>6 DEF TypeOK, UploadLost, Fault
<1>7. CASE Claim(e)
  BY <1>a, <1>7 DEF TypeOK, Claim, Goto
<1>8. CASE ReadSource(e)
  BY <1>a, <1>8 DEF TypeOK, ReadSource, Goto
<1>9. CASE IndexChunks(e)
  BY <1>a, <1>9 DEF TypeOK, IndexChunks, Goto
<1>10. CASE StoreStructure(e)
  BY <1>a, <1>10 DEF TypeOK, StoreStructure, Goto
<1>11. CASE Complete(e)
  BY <1>a, <1>11, SetDocRow, SetJobRow DEF TypeOK, Complete, Goto, DocRow,
     JobRow
<1>12. CASE Retry(e)
  BY <1>a, <1>12, SetJobRow DEF TypeOK, Retry, Goto, JobRow
<1>13. CASE Fail(e)
  BY <1>a, <1>13, SetDocRow, SetJobRow DEF TypeOK, Fail, Goto, FailRows,
     DocRow, JobRow
<1>14. CASE Fenced(e)
  BY <1>a, <1>14 DEF TypeOK, Fenced, Goto
<1>15. CASE WorkerLost(e)
  BY <1>a, <1>15 DEF TypeOK, WorkerLost, Fault, Goto
<1>16. CASE Recover(e)
  BY <1>a, <1>16, SetDocRow, SetJobRow DEF TypeOK, Recover, FailRows, DocRow,
     JobRow
<1>17. CASE Cancel(e)
  BY <1>a, <1>17, SetJobRow DEF TypeOK, Cancel, Cancelled, JobRow
<1>18. CASE CancelUnsent(e)
  <2>1. faults' \in Nat
    BY <1>18 DEF TypeOK, CancelUnsent, Fault
  <2>. QED  BY <1>a, <1>18, <2>1, SetJobRow DEF TypeOK, CancelUnsent,
               Cancelled, JobRow
<1>19. CASE PurgeChunks(e)
  BY <1>a, <1>19 DEF TypeOK, PurgeChunks
<1>20. CASE PurgeFiles(e)
  BY <1>a, <1>20 DEF TypeOK, PurgeFiles, DropFiles
<1>21. CASE Age(e)
  <2>1. [doc[e] EXCEPT !.aged = TRUE] \in DocRow
    BY <1>a DEF DocRow
  <2>2. doc' = [doc EXCEPT ![e] = [doc[e] EXCEPT !.aged = TRUE]]
    BY <1>21 DEF Age
  <2>3. doc' \in [Docs -> DocRow]
    BY <1>a, <2>1, <2>2
  <2>. QED  BY <1>21, <2>3 DEF TypeOK, Age, DocRow
<1>. QED  BY <1>1, <1>2, <1>3, <1>4, <1>5, <1>6, <1>7, <1>8, <1>9, <1>10,
             <1>11, <1>12, <1>13, <1>14, <1>15, <1>16, <1>17, <1>18, <1>19,
             <1>20, <1>21
         DEF DocStep, UploadStep, WorkStep, PurgeStep

\* They keep every other document sound.
LEMMA Elsewhere ==
  ASSUME Inv, NEW e \in Docs, DocStep(e), NEW d \in Docs \ {e}
  PROVE  Sound(d)'
<1>. USE DEF DocStatus, JobStatus, Active, Final, rows, files
<1>a. doc \in [Docs -> DocRow] /\ job \in [Docs -> JobRow]
  BY DEF Inv, TypeOK, DocRow, JobRow
<1>. USE DEF DocStep, UploadStep, WorkStep, PurgeStep, StoreFile, CreateRow,
         RefuseUpload, Accept, WithdrawFile, UploadLost, Claim, ReadSource,
         IndexChunks, StoreStructure, Complete, Retry, Fail, Fenced,
         WorkerLost, Recover, Cancel, CancelUnsent, PurgeChunks, PurgeFiles,
         Age
<1>1. UNCHANGED <<session, sweep>>
  OBVIOUS
<1>2. doc'[d] = doc[d] /\ job'[d] = job[d]
  BY <1>a, SetDocRow, SetJobRow DEF InsertRows, FailRows, Cancelled
<1>3. upload'[d] = upload[d] /\ work'[d] = work[d] /\ purge'[d] = purge[d]
  BY DEF Inv, TypeOK, Goto
<1>4. /\ d \in chunks' <=> d \in chunks
      /\ d \in source' <=> d \in source
      /\ d \in structure' <=> d \in structure
      /\ d \in excused' <=> d \in excused
  BY DEF DropFiles
<1>. QED
  BY <1>1, <1>2, <1>3, <1>4 DEF Inv, Sound, RowsAgree, Safe, SessionOf,
     ActiveScopes, Pending

\* They keep their own document sound.
LEMMA Here ==
  ASSUME Inv, NEW e \in Docs, DocStep(e)
  PROVE  Sound(e)'
<1>. USE BoundsAssumption DEF DocStatus, JobStatus, Active, Final, rows, files,
         Sound, RowsAgree, Safe, SessionOf, ActiveScopes, Pending
<1>a. doc \in [Docs -> DocRow] /\ job \in [Docs -> JobRow]
  BY DEF Inv, TypeOK, DocRow, JobRow
<1>b. TypeOK /\ Sound(e)
  BY DEF Inv
<1>c. doc[e] \in DocRow /\ job[e] \in JobRow
  BY <1>a
<1>1. CASE StoreFile(e)
  BY <1>a, <1>b, <1>c, <1>1 DEF TypeOK, StoreFile, DocRow, JobRow
<1>2. CASE CreateRow(e)
  <2>1. /\ upload[e] = "stored" /\ SessionOf(e) # "gone"
        /\ doc'[e] = [status |-> "queued", aged |-> FALSE, indexed |-> doc[e].indexed]
        /\ job'[e] = [status |-> "queued", attempts |-> job[e].attempts]
    BY <1>a, <1>2, SetDocRow, SetJobRow DEF CreateRow, InsertRows
  <2>. QED  BY <1>b, <1>c, <1>2, <2>1 DEF TypeOK, CreateRow, DocRow, JobRow
<1>3. CASE RefuseUpload(e)
  BY <1>a, <1>b, <1>c, <1>3 DEF TypeOK, RefuseUpload, DocRow, JobRow
<1>4. CASE Accept(e)
  BY <1>a, <1>b, <1>c, <1>4 DEF TypeOK, Accept, DocRow, JobRow
<1>5. CASE WithdrawFile(e)
  <2>1. \/ /\ upload[e] = "stored" /\ SessionOf(e) # "gone"
           /\ doc'[e] = [status |-> "queued", aged |-> FALSE, indexed |-> doc[e].indexed]
           /\ job'[e] = [status |-> "queued", attempts |-> job[e].attempts]
        \/ upload[e] = "created" /\ doc'[e] = doc[e] /\ job'[e] = job[e]
    BY <1>a, <1>5, SetDocRow, SetJobRow DEF WithdrawFile, InsertRows
  <2>. QED  BY <1>b, <1>c, <1>5, <2>1 DEF TypeOK, WithdrawFile, DocRow, JobRow
<1>6. CASE UploadLost(e)
  BY <1>a, <1>b, <1>c, <1>6 DEF TypeOK, UploadLost, DocRow, JobRow
<1>7. CASE Claim(e)
  BY <1>a, <1>b, <1>c, <1>7 DEF TypeOK, Claim, Goto, DocRow, JobRow
<1>8. CASE ReadSource(e)
  BY <1>a, <1>b, <1>c, <1>8 DEF TypeOK, ReadSource, Goto, DocRow, JobRow
<1>9. CASE IndexChunks(e)
  BY <1>a, <1>b, <1>c, <1>9 DEF TypeOK, IndexChunks, Goto, Authorized, DocRow,
     JobRow
<1>10. CASE StoreStructure(e)
  BY <1>a, <1>b, <1>c, <1>10 DEF TypeOK, StoreStructure, Goto, DocRow, JobRow
<1>11. CASE Complete(e)
  <2>1. /\ doc'[e] = [status |-> "ready", aged |-> FALSE, indexed |-> doc[e].indexed]
        /\ job'[e] = [status |-> "completed", attempts |-> job[e].attempts]
    BY <1>a, <1>11, SetDocRow, SetJobRow DEF Complete
  <2>. QED  BY <1>b, <1>c, <1>11, <2>1 DEF TypeOK, Complete, Authorized, Goto,
               DocRow, JobRow
<1>12. CASE Retry(e)
  <2>1. /\ doc'[e] = doc[e]
        /\ job'[e] = [status |-> "retrying", attempts |-> job[e].attempts]
    BY <1>a, <1>12, SetDocRow, SetJobRow DEF Retry
  <2>. QED  BY <1>b, <1>c, <1>12, <2>1 DEF TypeOK, Retry, Authorized, Goto,
               DocRow, JobRow
<1>13. CASE Fail(e)
  <2>1. /\ doc'[e] = [status |-> "failed", aged |-> FALSE, indexed |-> doc[e].indexed]
        /\ job'[e] = [status |-> "failed", attempts |-> job[e].attempts]
    BY <1>a, <1>13, SetDocRow, SetJobRow DEF Fail, FailRows
  <2>. QED  BY <1>b, <1>c, <1>13, <2>1 DEF TypeOK, Fail, Authorized, Goto,
               DocRow, JobRow
<1>14. CASE Fenced(e)
  BY <1>a, <1>b, <1>c, <1>14 DEF TypeOK, Fenced, Goto, Authorized, DocRow,
     JobRow
<1>15. CASE WorkerLost(e)
  BY <1>a, <1>b, <1>c, <1>15 DEF TypeOK, WorkerLost, Goto, DocRow, JobRow
<1>16. CASE Recover(e)
  <2>1. work[e] = "none" /\ job[e].status = "running"
    BY <1>16 DEF Recover
  <2>2. \/ doc'[e] = doc[e] /\ job'[e] = [status |-> "retrying", attempts |-> job[e].attempts]
        \/ /\ doc'[e] = [status |-> "failed", aged |-> FALSE, indexed |-> doc[e].indexed]
           /\ job'[e] = [status |-> "failed", attempts |-> job[e].attempts]
    BY <1>a, <1>16, SetDocRow, SetJobRow DEF Recover, FailRows
  <2>. QED  BY <1>b, <1>c, <1>16, <2>1, <2>2 DEF TypeOK, Recover, DocRow, JobRow
<1>17. CASE Cancel(e)
  <2>1. /\ job[e].status \in Active
        /\ job'[e] = [status |-> "cancelled", attempts |-> job[e].attempts]
        /\ doc'[e] = IF doc[e].status \in {"queued", "processing"}
                        THEN [status |-> "cancelled", aged |-> FALSE, indexed |-> FALSE]
                        ELSE doc[e]
    BY <1>a, <1>17, SetDocRow, SetJobRow DEF Cancel, Cancelled
  <2>. QED  BY <1>b, <1>c, <1>17, <2>1 DEF TypeOK, Cancel, DocRow, JobRow
<1>18. CASE CancelUnsent(e)
  <2>1. /\ job[e].status \in Active
        /\ job'[e] = [status |-> "cancelled", attempts |-> job[e].attempts]
        /\ doc'[e] = IF doc[e].status \in {"queued", "processing"}
                        THEN [status |-> "cancelled", aged |-> FALSE, indexed |-> FALSE]
                        ELSE doc[e]
    BY <1>a, <1>18, SetDocRow, SetJobRow DEF CancelUnsent, Cancelled
  <2>. QED  BY <1>b, <1>c, <1>18, <2>1 DEF TypeOK, CancelUnsent, DocRow, JobRow
<1>19. CASE PurgeChunks(e)
  BY <1>a, <1>b, <1>c, <1>19 DEF TypeOK, PurgeChunks, DocRow, JobRow
<1>20. CASE PurgeFiles(e)
  BY <1>a, <1>b, <1>c, <1>20 DEF TypeOK, PurgeFiles, DropFiles, DocRow, JobRow
<1>21. CASE Age(e)
  BY <1>a, <1>b, <1>c, <1>21 DEF TypeOK, Age, DocRow, JobRow
<1>. QED  BY <1>1, <1>2, <1>3, <1>4, <1>5, <1>6, <1>7, <1>8, <1>9, <1>10,
             <1>11, <1>12, <1>13, <1>14, <1>15, <1>16, <1>17, <1>18, <1>19,
             <1>20, <1>21
         DEF DocStep, UploadStep, WorkStep, PurgeStep

-----------------------------------------------------------------------------
(* Steps of the sweep, and the expiry of a session.                        *)

SweepRow == [pc : {"idle", "pick", "chunks", "files", "mark", "expired",
                   "scopes", "list", "orphans", "records"},
             todo : SUBSET Docs, at : Docs \cup {NoDoc},
             scopes : SUBSET Docs, orphans : SUBSET Docs]

\* cleanup_database_records leaves a row alone, or deletes it with its
\* session, or deletes its job and with it the link to the job.
LEMMA DeletedRows ==
  ASSUME Inv, DeleteRecords, NEW d \in Docs
  PROVE  /\ doc'[d] \in DocRow /\ job'[d] \in JobRow
         /\ \/ /\ SessionOf(d) # "expired" \/ doc[d].status = "none"
               /\ doc'[d] = doc[d] /\ job'[d] = job[d]
            \/ /\ SessionOf(d) = "expired" /\ doc[d].status # "none"
               /\ doc'[d] = [status |-> "gone", aged |-> FALSE, indexed |-> FALSE]
               /\ job'[d] = [status |-> "gone", attempts |-> job[d].attempts]
            \/ /\ SessionOf(d) # "expired" /\ ShortRetention /\ job[d].status \in Final
               /\ doc'[d] = [status |-> doc[d].status, aged |-> doc[d].aged, indexed |-> FALSE]
               /\ job'[d] = [status |-> "gone", attempts |-> job[d].attempts]
<1>1. /\ doc[d] \in DocRow /\ job[d] \in JobRow
      /\ doc[d].status = "none" <=> job[d].status = "none"
  BY DEF Inv, Sound, TypeOK, RowsAgree, DocRow, JobRow
<1>2. PICK old \in SUBSET Outlived :
        /\ doc'[d] = IF doc[d].status = "none" THEN doc[d]
                     ELSE IF SessionOf(d) = "expired"
                       THEN [status |-> "gone", aged |-> FALSE, indexed |-> FALSE]
                     ELSE IF d \in old
                       THEN [status |-> doc[d].status, aged |-> doc[d].aged, indexed |-> FALSE]
                     ELSE doc[d]
        /\ job'[d] = IF (SessionOf(d) = "expired" \/ d \in old) /\ job[d].status # "none"
                       THEN [job[d] EXCEPT !.status = "gone"]
                       ELSE job[d]
  BY DEF DeleteRecords
<1>3. d \in old => ShortRetention /\ job[d].status \in Final
  BY <1>2 DEF Outlived
<1>4. [job[d] EXCEPT !.status = "gone"] = [status |-> "gone", attempts |-> job[d].attempts]
  BY <1>1 DEF JobRow
<1>5. /\ [status |-> doc[d].status, aged |-> doc[d].aged, indexed |-> FALSE] \in DocRow
      /\ [status |-> "gone", attempts |-> job[d].attempts] \in JobRow
      /\ [status |-> "gone", aged |-> FALSE, indexed |-> FALSE] \in DocRow
  BY <1>1 DEF DocRow, JobRow, DocStatus, JobStatus
<1>. QED  BY <1>1, <1>2, <1>3, <1>4, <1>5 DEF Final

\* They keep the types.
LEMMA SweepType ==
  ASSUME Inv, SweepStep \/ SweepFails \/ \E s \in Sessions : Expire(s)
  PROVE  TypeOK'
<1>. USE DEF DocStatus, JobStatus, Active, Final, rows, files
<1>a. /\ doc \in [Docs -> DocRow] /\ job \in [Docs -> JobRow] /\ sweep \in SweepRow
      /\ TypeOK
  BY DEF Inv, TypeOK, DocRow, JobRow, SweepRow
<1>b. IdleSweep \in SweepRow
  BY DEF IdleSweep, SweepRow
<1>1. CASE StartSweep
  BY <1>a, <1>b, <1>1 DEF TypeOK, StartSweep, At, DocRow, JobRow, SweepRow
<1>2. CASE Pick
  <2>1. PICK todo \in SUBSET Candidates :
          /\ sweep' = [sweep EXCEPT !.todo = todo,
                                    !.pc = IF todo = {} THEN "expired" ELSE "chunks"]
          /\ excused' = excused \cup {d \in todo : job[d].status \in Active}
    BY <1>2 DEF Pick
  <2>2. todo \in SUBSET Docs
    BY DEF Candidates
  <2>. DEFINE pc == IF todo = {} THEN "expired" ELSE "chunks"
  <2>3. pc \in {"expired", "chunks"}
    OBVIOUS
  <2>. HIDE DEF pc
  <2>4. sweep' = [sweep EXCEPT !.todo = todo, !.pc = pc]
    BY <2>1 DEF pc
  <2>5. sweep' \in SweepRow
    BY <1>a, <2>2, <2>3, <2>4 DEF SweepRow
  <2>. QED  BY <1>a, <1>2, <2>1, <2>2, <2>5 DEF TypeOK, Pick, SweepRow
<1>3. CASE SweepFiles
  BY <1>a, <1>b, <1>3 DEF TypeOK, SweepFiles, At, DropFiles, DocRow, JobRow,
     SweepRow
<1>4. CASE Mark
  <2>1. doc' \in [Docs -> DocRow]
    BY <1>a, <1>4 DEF Mark, DocRow
  <2>2. sweep' \in SweepRow
    BY <1>a, <1>4 DEF Mark, SweepRow
  <2>. QED  BY <1>a, <1>4, <2>1, <2>2 DEF TypeOK, Mark, DocRow, SweepRow
<1>5. CASE SweepSessions
  BY <1>a, <1>b, <1>5 DEF TypeOK, SweepSessions, At, DropFiles, DocRow, JobRow,
     SweepRow
<1>6. CASE ReadScopes
  BY <1>a, <1>b, <1>6 DEF TypeOK, ReadScopes, ActiveScopes, DocRow, JobRow,
     SweepRow
<1>7. CASE ListOrphans
  BY <1>a, <1>b, <1>7 DEF TypeOK, ListOrphans, Orphans, DocRow, JobRow, SweepRow
<1>8. CASE DeleteRecords
  <2>1. session' \in [Sessions -> {"live", "expired", "gone"}]
    BY <1>a, <1>8 DEF TypeOK, DeleteRecords
  <2>2. doc' \in [Docs -> DocRow] /\ job' \in [Docs -> JobRow]
    <3>1. \A d \in Docs : doc'[d] \in DocRow /\ job'[d] \in JobRow
      BY <1>8, DeletedRows
    <3>2. /\ doc' = [d \in Docs |-> doc'[d]] /\ job' = [d \in Docs |-> job'[d]]
      BY <1>8 DEF DeleteRecords
    <3>. QED  BY <3>1, <3>2
  <2>3. chunks' \in SUBSET Docs
    BY <1>a, <1>8 DEF TypeOK, DeleteRecords
  <2>. QED  BY <1>a, <1>8, <1>b, <2>1, <2>2, <2>3 DEF TypeOK, DeleteRecords,
               DocRow, JobRow, SweepRow
<1>9. CASE SweepFails
  BY <1>a, <1>b, <1>9 DEF TypeOK, SweepFails, Fault, DocRow, JobRow, SweepRow
<1>10. ASSUME NEW e \in Docs, SweepChunks(e) PROVE TypeOK'
  BY <1>a, <1>10 DEF TypeOK, SweepChunks, SweepRow
<1>11. ASSUME NEW e \in Docs, SweepOrphan(e) PROVE TypeOK'
  BY <1>a, <1>11 DEF TypeOK, SweepOrphan, DropFiles, SweepRow
<1>12. ASSUME NEW s \in Sessions, Expire(s) PROVE TypeOK'
  BY <1>a, <1>12 DEF TypeOK, Expire
<1>. QED  BY <1>1, <1>2, <1>3, <1>4, <1>5, <1>6, <1>7, <1>8, <1>9, <1>10,
             <1>11, <1>12 DEF SweepStep

\* They keep every document sound.
LEMMA SweepSound ==
  ASSUME Inv, SweepStep \/ SweepFails \/ \E s \in Sessions : Expire(s), NEW d \in Docs
  PROVE  Sound(d)'
<1>. USE DocsAssumption, BoundsAssumption DEF DocStatus, JobStatus, Active,
         Final, rows, files, Sound, RowsAgree, Safe, SessionOf, ActiveScopes,
         Pending
<1>a. doc \in [Docs -> DocRow] /\ job \in [Docs -> JobRow] /\ sweep \in SweepRow
  BY DEF Inv, TypeOK, DocRow, JobRow, SweepRow
<1>b. TypeOK /\ Sound(d)
  BY DEF Inv
<1>c. doc[d] \in DocRow /\ job[d] \in JobRow
  BY <1>a
<1>1. CASE StartSweep
  BY <1>a, <1>b, <1>c, <1>1 DEF TypeOK, StartSweep, At, DocRow, JobRow, SweepRow
<1>2. CASE Pick
  <2>1. PICK todo \in SUBSET Candidates :
          /\ sweep' = [sweep EXCEPT !.todo = todo,
                                    !.pc = IF todo = {} THEN "expired" ELSE "chunks"]
          /\ excused' = excused \cup {c \in todo : job[c].status \in Active}
    BY <1>2 DEF Pick
  <2>2. /\ sweep'.todo = todo /\ sweep'.at = sweep.at /\ sweep'.pc # "list"
        /\ sweep'.orphans = sweep.orphans
    BY <1>a, <2>1 DEF SweepRow
  <2>3. d \in todo => /\ doc[d].status # "none"
                      /\ doc[d].status = "failed" \/ d \in excused' \/ SessionOf(d) # "live"
    BY <1>b, <1>c, <2>1 DEF Candidates, DocRow, JobRow
  <2>. QED  BY <1>b, <1>c, <1>2, <2>1, <2>2, <2>3 DEF TypeOK, Pick, DocRow,
               JobRow
<1>3. CASE SweepFiles
  BY <1>a, <1>b, <1>c, <1>3 DEF TypeOK, SweepFiles, At, DropFiles, DocRow,
     JobRow, SweepRow
<1>4. CASE Mark
  <2>1. doc'[d] = IF d = sweep.at /\ doc[d].status # "gone"
                    THEN [status |-> "deleted", aged |-> FALSE, indexed |-> doc[d].indexed]
                    ELSE doc[d]
    BY <1>4 DEF Mark
  <2>2. /\ sweep'.todo = sweep.todo /\ sweep'.at = NoDoc /\ sweep'.pc # "list"
        /\ sweep'.orphans = sweep.orphans
    BY <1>a, <1>4 DEF Mark, SweepRow
  <2>. QED  BY <1>b, <1>c, <1>4, <2>1, <2>2 DEF TypeOK, Mark, DocRow, JobRow
<1>5. CASE SweepSessions
  BY <1>a, <1>b, <1>c, <1>5 DEF TypeOK, SweepSessions, At, DropFiles, DocRow,
     JobRow, SweepRow
<1>6. CASE ReadScopes
  BY <1>a, <1>b, <1>c, <1>6 DEF TypeOK, ReadScopes, ActiveScopes, DocRow,
     JobRow, SweepRow
<1>7. CASE ListOrphans
  BY <1>a, <1>b, <1>c, <1>7 DEF TypeOK, ListOrphans, Orphans, DocRow, JobRow,
     SweepRow
<1>8. CASE DeleteRecords
  <2>1. session'[Owner[d]] = IF SessionOf(d) = "live" THEN "live" ELSE "gone"
    BY <1>8 DEF DeleteRecords
  <2>2. sweep' = IdleSweep
    BY <1>8 DEF DeleteRecords
  <2>3. /\ UNCHANGED <<source, structure, upload, work, purge, excused>>
        /\ d \in chunks' <=> d \in chunks /\ SessionOf(d) # "expired"
    BY <1>8 DEF DeleteRecords
  <2>4. \/ /\ SessionOf(d) # "expired" \/ doc[d].status = "none"
           /\ doc'[d] = doc[d] /\ job'[d] = job[d]
        \/ /\ SessionOf(d) = "expired" /\ doc[d].status # "none"
           /\ doc'[d] = [status |-> "gone", aged |-> FALSE, indexed |-> FALSE]
           /\ job'[d] = [status |-> "gone", attempts |-> job[d].attempts]
        \/ /\ SessionOf(d) # "expired" /\ ShortRetention /\ job[d].status \in Final
           /\ doc'[d] = [status |-> doc[d].status, aged |-> doc[d].aged, indexed |-> FALSE]
           /\ job'[d] = [status |-> "gone", attempts |-> job[d].attempts]
    BY <1>8, DeletedRows
  <2>5. sweep'.todo = {} /\ sweep'.at = NoDoc /\ sweep'.pc = "idle" /\ sweep'.orphans = {}
    BY <2>2 DEF IdleSweep
  <2>6. CASE SessionOf(d) = "live"
    BY <1>b, <1>c, <2>1, <2>3, <2>4, <2>5, <2>6 DEF TypeOK, DocRow, JobRow
  <2>7. CASE SessionOf(d) # "live"
    BY <1>b, <1>c, <2>1, <2>3, <2>4, <2>5, <2>7 DEF TypeOK, DocRow, JobRow
  <2>. QED  BY <2>6, <2>7
<1>9. CASE SweepFails
  BY <1>a, <1>b, <1>c, <1>9 DEF TypeOK, SweepFails, Fault, IdleSweep, DocRow,
     JobRow, SweepRow
<1>10. ASSUME NEW e \in Docs, SweepChunks(e) PROVE Sound(d)'
  BY <1>a, <1>b, <1>10 DEF TypeOK, SweepChunks, SweepRow
<1>11. ASSUME NEW e \in Docs, SweepOrphan(e) PROVE Sound(d)'
  BY <1>a, <1>b, <1>11 DEF TypeOK, SweepOrphan, DropFiles, SweepRow
<1>12. ASSUME NEW s \in Sessions, Expire(s) PROVE Sound(d)'
  BY <1>b, <1>12 DEF TypeOK, Expire
<1>. QED  BY <1>1, <1>2, <1>3, <1>4, <1>5, <1>6, <1>7, <1>8, <1>9, <1>10,
             <1>11, <1>12 DEF SweepStep

-----------------------------------------------------------------------------
(* The theorems.                                                           *)

LEMMA Initially == Init => Inv
<1>. USE DocsAssumption, BoundsAssumption DEF DocStatus, JobStatus, Active,
         Final
<1>. SUFFICES ASSUME Init PROVE Inv
  OBVIOUS
<1>1. TypeOK
  BY DEF Init, TypeOK, IdleSweep
<1>2. ASSUME NEW d \in Docs PROVE RowsAgree(d) /\ Safe(d)
  BY <1>2 DEF Init, IdleSweep, RowsAgree, Safe, SessionOf, ActiveScopes, Pending
<1>. QED  BY <1>1, <1>2 DEF Inv, Sound

LEMMA Inductive == Inv /\ [Next]_vars => Inv'
<1>. SUFFICES ASSUME Inv, [Next]_vars PROVE Inv'
  OBVIOUS
<1>1. CASE \E e \in Docs : DocStep(e)
  <2>1. PICK e \in Docs : DocStep(e)
    BY <1>1
  <2>2. TypeOK'
    BY <2>1, DocStepType DEF Inv
  <2>3. ASSUME NEW d \in Docs PROVE Sound(d)'
    BY <2>1, Here, Elsewhere
  <2>. QED  BY <2>2, <2>3 DEF Inv, Sound
<1>2. CASE SweepStep \/ SweepFails \/ \E s \in Sessions : Expire(s)
  BY <1>2, SweepType, SweepSound DEF Inv, Sound
<1>3. CASE UNCHANGED vars
  BY <1>3 DEF vars, Inv, Sound, TypeOK, RowsAgree, Safe, SessionOf, ActiveScopes
<1>. QED  BY <1>1, <1>2, <1>3 DEF Next

\* Rows, files, request, task, purge and sweep agree on every document, in
\* every state of every run.
THEOREM Invariance == Spec => []Inv
BY Initially, Inductive, PTL DEF Spec

\* A document in use keeps its source file unless one of the three races
\* touched it.
THEOREM SourceIsKept == Spec => []SourceKept
<1>1. Inv => SourceKept
  BY DEF Inv, Sound, SourceKept, InUse, Safe, Pending
<1>. QED  BY <1>1, Invariance, PTL

\* A ready document of a live session has its chunks and its structure unless one
\* of the three races touched it, and names its index job if jobs outlive sessions.
THEOREM ReadyIsUsable == Spec => []ReadyUsable
<1>1. Inv => ReadyServes
  BY DEF Inv, Sound, ReadyServes, InUse, Safe, Serves
<1>2. Inv => ReadyIndexed
  BY DEF Inv, Sound, ReadyIndexed, InUse, RowsAgree
<1>3. Inv => ReadyUsable
  BY <1>1, <1>2 DEF ReadyUsable
<1>. QED  BY <1>3, Invariance, PTL

\* No late execution brings back the chunks of a cancelled document.
THEOREM CancellationIsFinal == Spec => []CancelledStaysClean
<1>1. Inv => CancelledStaysClean
  BY DEF Inv, Sound, CancelledStaysClean, RowsAgree
<1>. QED  BY <1>1, Invariance, PTL

\* Nothing is ready and no chunks are left once the session has gone.
THEOREM GoneIsFinal == Spec => []GoneStaysGone
<1>1. Inv => GoneStaysGone
  BY DEF Inv, Sound, GoneStaysGone, RowsAgree
<1>. QED  BY <1>1, Invariance, PTL
=============================================================================
