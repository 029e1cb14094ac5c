------------------------ MODULE ImportPipelineProofs ------------------------
(***************************************************************************)
(* Theorems about the import pipeline, for every number of batches, files  *)
(* and hazards: with any number of workers, no orphan rows, no partial     *)
(* files, no file posted more than twice, and "done" means what it says;   *)
(* with one worker, nothing is counted twice, and the pipeline implements  *)
(* the ledger.                                                             *)
(***************************************************************************)
EXTENDS ImportPipeline, FiniteSetTheorems, SequenceTheorems, TLAPS

-----------------------------------------------------------------------------
(* The rows a parse inserts *)

\* The file of an upload, cut to its window, is a bag of rows.
LEMMA SheetType ==
    ASSUME NEW u \in Uploads
    PROVE  Sheet(u) \in Bags
BY FilesAssumption DEF Uploads, Sheet, Bags

\* A deduplicating parse inserts a number of copies, whatever the table holds.
LEMMA NewCopiesType ==
    ASSUME NEW want \in Nat, NEW have
    PROVE  NewCopies(want, have) \in Nat
<1>1. IsFiniteSet(1..want)
  BY FS_Interval
<1>2. IsFiniteSet({n \in 1..want : n > have})
  BY <1>1, FS_Subset
<1>3. QED
  BY <1>2, FS_CardinalityType DEF NewCopies

\* What a parse inserts is a bag of rows.
LEMMA ToInsertType ==
    ASSUME NEW u \in Uploads, NEW up, NEW det
    PROVE  ToInsert(up, det, u) \in Bags
<1>1. u.kind \in AllKinds
  BY KindsAssumption DEF Uploads
<1>2. SUFFICES ASSUME NEW i \in Rows
               PROVE  ToInsert(up, det, u)[i] \in Nat
  BY DEF ToInsert, Bags
<1>3. Sheet(u)[i] \in Nat
  BY SheetType DEF Bags
<1>4. CASE u.kind = "manual"
  BY <1>3, <1>4 DEF ToInsert
<1>5. CASE u.kind = "portal"
  BY <1>3, <1>5, NewCopiesType DEF ToInsert
<1>6. CASE u.kind = "grab"
  BY <1>6 DEF ToInsert
<1>7. QED
  BY <1>1, <1>4, <1>5, <1>6 DEF AllKinds

\* A manual parse inserts its whole sheet.
LEMMA ManualInsertsSheet ==
    ASSUME NEW u \in Uploads, NEW up, NEW det, u.kind = "manual"
    PROVE  ToInsert(up, det, u) = Sheet(u)
BY DEF ToInsert, Sheet

\* Adding rows to a bag gives a bag.
LEMMA PlusType ==
    ASSUME NEW bag \in Bags, NEW more \in Bags
    PROVE  Plus(bag, more) \in Bags
BY DEF Plus, Bags

\* The empty table is a bag.
LEMMA NoRowsType == NoRows \in Bags
BY DEF NoRows, Bags

-----------------------------------------------------------------------------
(* Type correctness *)

\* Every waiting, running or stalled job belongs to a batch that was uploaded.
LiveJobs == {j \in Jobs : upload[j.batch] \in Uploads}
JobsUploaded ==
    /\ queue \in Seq(LiveJobs)
    /\ expired \subseteq LiveJobs
    /\ \A w \in Workers : pc[w] # "idle" => job[w] \in LiveJobs

\* A batch is uploaded when its row is inserted, and not before.
RequestsMatch ==
    \A b \in Batches :
        /\ request[b] = "none" <=> upload[b] = NoUpload
        /\ request[b] = "none" <=> status[b] = "absent"

TInv == TypeOK /\ JobsUploaded /\ RequestsMatch

\* The value of a batch without upload is no upload.
LEMMA NoUploadNotUploads == NoUpload \notin Uploads
BY KindsAssumption DEF NoUpload, Uploads, AllKinds

\* The type invariant holds at the start.
LEMMA InitTInv == Init => TInv
BY NoRowsType, BudgetAssumption
   DEF Init, TInv, TypeOK, JobsUploaded, RequestsMatch, Statuses, LiveJobs

\* Spending a hazard keeps the budget a budget.
LEMMA SpendType ==
    ASSUME NEW h \in Hazards, budget \in [Hazards -> Nat], Spend(h)
    PROVE  budget' \in [Hazards -> Nat]
BY DEF Spend, Hazards

\* Every action keeps the type invariant.
LEMMA NextTInv == TInv /\ [Next]_vars => TInv'
<1> SUFFICES ASSUME TInv, [Next]_vars
             PROVE  TInv'
  OBVIOUS
<1> USE DEF TInv, TypeOK, JobsUploaded, RequestsMatch
<1>1. ASSUME NEW b \in Batches, InsertBatch(b)
      PROVE  TInv'
  <2>1. LiveJobs \subseteq LiveJobs'
    BY <1>1 DEF InsertBatch, LiveJobs, Requests, Jobs
  <2>2. queue' \in Seq(LiveJobs')
    BY <1>1, <2>1, SeqMonotonic DEF InsertBatch
  <2>3. QED
    BY <1>1, <2>1, <2>2, NoUploadNotUploads
       DEF InsertBatch, workerVars, Statuses, Requests
<1>2. ASSUME NEW b \in Batches, QueueParse(b)
      PROVE  TInv'
  <2> DEFINE new == [name |-> "parse", batch |-> b, stalled |-> FALSE]
  <2>1. new \in LiveJobs
    BY <1>2 DEF QueueParse, LiveJobs, Jobs
  <2>2. LiveJobs' = LiveJobs
    BY <1>2 DEF QueueParse, LiveJobs
  <2>3. queue' \in Seq(Jobs) /\ queue' \in Seq(LiveJobs')
    BY <1>2, <2>1, <2>2 DEF QueueParse, Jobs
  <2>4. QED
    BY <1>2, <2>2, <2>3 DEF QueueParse, workerVars
<1>3. ASSUME NEW b \in Batches, LoseRequest(b)
      PROVE  TInv'
  BY <1>3, SpendType DEF LoseRequest, workerVars, Hazards, LiveJobs
<1>4. ASSUME NEW b \in Batches, RequestRollback(b)
      PROVE  TInv'
  <2> DEFINE new == [name |-> "rollback", batch |-> b, stalled |-> FALSE]
  <2>1. new \in LiveJobs
    BY <1>4 DEF RequestRollback, LiveJobs, Jobs, Exists
  <2>2. LiveJobs' = LiveJobs
    BY <1>4 DEF RequestRollback, batchVars, LiveJobs
  <2>3. queue' \in Seq(Jobs) /\ queue' \in Seq(LiveJobs')
    BY <1>4, <2>1, <2>2 DEF RequestRollback, Jobs
  <2>4. QED
    BY <1>4, <2>2, <2>3, SpendType DEF RequestRollback, workerVars, batchVars, Hazards
<1>5. ASSUME NEW w \in Workers, TakeJob(w)
      PROVE  TInv'
  <2>1. LiveJobs' = LiveJobs
    BY <1>5 DEF TakeJob, batchVars, LiveJobs
  <2>2. Head(queue) \in LiveJobs /\ Tail(queue) \in Seq(LiveJobs)
    BY <1>5, HeadTailProperties DEF TakeJob
  <2>3. Head(queue) \in Jobs /\ Tail(queue) \in Seq(Jobs)
    BY <1>5, HeadTailProperties DEF TakeJob
  <2>4. QED
    BY <1>5, <2>1, <2>2, <2>3 DEF TakeJob, batchVars
<1>6. ASSUME NEW w \in Workers, Crash(w)
      PROVE  TInv'
  BY <1>6, SpendType DEF Crash, batchVars, Hazards, LiveJobs
<1>7. ASSUME NEW w \in Workers, LockExpires(w)
      PROVE  TInv'
  BY <1>7, SpendType DEF LockExpires, batchVars, workerVars, Hazards, LiveJobs
<1>8. ASSUME NEW j \in expired, CheckStalled(j)
      PROVE  TInv'
  <2> DEFINE front == [j EXCEPT !.stalled = TRUE]
  <2>1. front \in Jobs /\ front \in LiveJobs
    BY DEF Jobs, LiveJobs
  <2>2. LiveJobs' = LiveJobs
    BY <1>8 DEF CheckStalled, batchVars, LiveJobs
  <2>3. <<front>> \o queue \in Seq(Jobs) /\ <<front>> \o queue \in Seq(LiveJobs)
    <3>1. <<front>> \in Seq(Jobs) /\ <<front>> \in Seq(LiveJobs)
      BY <2>1
    <3>2. QED
      BY <3>1, ConcatProperties
  <2>4. queue' \in Seq(Jobs) /\ queue' \in Seq(LiveJobs')
    BY <1>8, <2>2, <2>3 DEF CheckStalled
  <2>5. QED
    BY <1>8, <2>2, <2>4 DEF CheckStalled, batchVars, workerVars
<1>9. ASSUME NEW w \in Workers, MarkProcessing(w)
      PROVE  TInv'
  BY <1>9 DEF MarkProcessing, SetStatus, Statuses, Exists, LiveJobs
<1>10. ASSUME NEW w \in Workers, Preload(w)
       PROVE  TInv'
  BY <1>10, ToInsertType, NoRowsType DEF Preload, batchVars, LiveJobs
<1>11. ASSUME NEW w \in Workers, InsertDetails(w)
       PROVE  TInv'
  BY <1>11 DEF InsertDetails, batchVars, LiveJobs
<1>12. ASSUME NEW w \in Workers, Commit(w)
       PROVE  TInv'
  BY <1>12, PlusType DEF Commit, Jobs, LiveJobs
<1>13. ASSUME NEW w \in Workers, MarkDone(w)
       PROVE  TInv'
  BY <1>13 DEF MarkDone, SetStatus, Statuses, Exists, Jobs, LiveJobs
<1>14. ASSUME NEW w \in Workers, Fault(w)
       PROVE  TInv'
  BY <1>14, SpendType DEF Fault, batchVars, Hazards, LiveJobs
<1>15. ASSUME NEW w \in Workers, MarkFailed(w)
       PROVE  TInv'
  BY <1>15 DEF MarkFailed, SetStatus, Statuses, Exists, LiveJobs
<1>16. ASSUME NEW w \in Workers, DeleteImport(w)
       PROVE  TInv'
  BY <1>16, NoRowsType DEF DeleteImport, Statuses, Exists, LiveJobs
<1>17. ASSUME NEW w \in Workers, AbandonJob(w)
       PROVE  TInv'
  BY <1>17, SpendType DEF AbandonJob, batchVars, Hazards, LiveJobs
<1>18. ASSUME NEW w \in Workers, Acknowledge(w)
       PROVE  TInv'
  BY <1>18 DEF Acknowledge, batchVars, LiveJobs
<1>19. CASE UNCHANGED vars
  BY <1>19 DEF vars, LiveJobs
<1>20. QED
  BY <1>1, <1>2, <1>3, <1>4, <1>5, <1>6, <1>7, <1>8, <1>9, <1>10, <1>11, <1>12,
     <1>13, <1>14, <1>15, <1>16, <1>17, <1>18, <1>19
     DEF Next, RequestStep, WorkerStep, HazardStep

\* The state keeps its shape.
THEOREM TypeCorrect == Spec => []TypeOK
<1>1. TInv => TypeOK
  BY DEF TInv
<1>2. QED
  BY <1>1, InitTInv, NextTInv, PTL DEF Spec

-----------------------------------------------------------------------------
(* No orphan rows, no partial files *)

\* What a manual parse of upload u has in hand before its inserts.
ManualPlan(u) == IF u.file.header THEN Sheet(u) ELSE NoRows

\* A transaction that inserted rows of a batch sees the batch still there at
\* its commit: the foreign key let it insert, and its lock keeps the DELETE out.
ParentHeld == \A w \in Workers : HoldsParent(w, job[w].batch) => Exists(job[w].batch)

\* A transaction of a manual batch inserts the whole sheet.
PlansWhole ==
    \A w \in Workers :
        LET u == upload[job[w].batch] IN
        /\ pc[w] = "insert" /\ u.kind = "manual" => plan[w] = ManualPlan(u)
        /\ pc[w] = "commit" /\ u.kind = "manual" => plan[w] = Sheet(u)

\* Nothing is posted for a batch before its upload.
NothingBefore == \A b \in Batches : upload[b] = NoUpload => posted[b] = 0

IInv == /\ TInv
        /\ ParentHeld
        /\ PlansWhole
        /\ NothingBefore
        /\ NoOrphanRows
        /\ WholeFiles

\* The inductive invariant holds at the start.
LEMMA InitIInv == Init => IInv
BY InitTInv
   DEF Init, IInv, ParentHeld, HoldsParent, PlansWhole, NothingBefore,
       NoOrphanRows, WholeFiles, OfKind, Uploaded

\* Posting a sheet once more adds one to the number of its applications.
LEMMA OneMore ==
    ASSUME NEW u \in Uploads, NEW n \in Nat, NEW bag,
           bag = [i \in Rows |-> n * Sheet(u)[i]]
    PROVE  Plus(bag, Sheet(u)) = [i \in Rows |-> (n + 1) * Sheet(u)[i]]
<1>1. ASSUME NEW i \in Rows
      PROVE  n * Sheet(u)[i] + Sheet(u)[i] = (n + 1) * Sheet(u)[i]
  <2>1. Sheet(u)[i] \in Nat
    BY SheetType DEF Bags
  <2>2. \A m, x \in Nat : m * x + x = (m + 1) * x
    OBVIOUS
  <2>3. QED
    BY <2>1, <2>2
<1>2. QED
  BY <1>1 DEF Plus

\* None of the sheet is the empty bag.
LEMMA NoneIsNoRows ==
    ASSUME NEW u \in Uploads
    PROVE  NoRows = [i \in Rows |-> 0 * Sheet(u)[i]]
<1>1. \A i \in Rows : Sheet(u)[i] \in Nat
  BY SheetType DEF Bags
<1>2. QED
  BY <1>1 DEF NoRows

\* An UPDATE of a status neither creates nor deletes a batch.
LEMMA SetStatusKeeps ==
    ASSUME TypeOK, NEW b \in Batches, NEW s \in {"processing", "done", "failed"},
           SetStatus(b, s)
    PROVE  \A c \in Batches : Exists(c)' <=> Exists(c)
BY DEF TypeOK, SetStatus, Exists, Statuses

\* A step that leaves the rows and the uploads alone, and in which no worker
\* reaches its inserts, keeps the invariant.
LEMMA QuietStep ==
    ASSUME IInv, TInv',
           UNCHANGED <<upload, detail, posted>>,
           \A b \in Batches : Exists(b)' <=> Exists(b),
           \A w \in Workers : pc'[w] \in {"insert", "commit"} =>
               pc'[w] = pc[w] /\ job'[w] = job[w] /\ plan'[w] = plan[w]
    PROVE  IInv'
<1> USE DEF IInv
<1>1. ParentHeld'
  <2> SUFFICES ASSUME NEW w \in Workers, HoldsParent(w, job[w].batch)'
               PROVE  Exists(job[w].batch)'
    BY DEF ParentHeld
  <2>1. pc'[w] = "commit" /\ pc[w] = "commit" /\ job'[w] = job[w] /\ plan'[w] = plan[w]
    BY DEF HoldsParent
  <2>2. job[w].batch \in Batches
    BY <2>1 DEF TInv, JobsUploaded, LiveJobs, Jobs
  <2>3. QED
    BY <2>1, <2>2 DEF HoldsParent, ParentHeld
<1>2. PlansWhole'
  BY DEF PlansWhole, ManualPlan, Sheet
<1>3. NothingBefore'
  BY DEF NothingBefore
<1>4. NoOrphanRows'
  BY DEF NoOrphanRows
<1>5. WholeFiles'
  BY DEF WholeFiles, OfKind, Uploaded, Sheet
<1>6. QED
  BY <1>1, <1>2, <1>3, <1>4, <1>5

\* Every action keeps the inductive invariant; one step per action.
LEMMA NextIInv == IInv /\ [Next]_vars => IInv'
<1> SUFFICES ASSUME IInv, [Next]_vars
             PROVE  IInv'
  OBVIOUS
<1>0. TInv /\ TInv' /\ TypeOK
  BY NextTInv DEF IInv, TInv
<1>1. ASSUME NEW b \in Batches, InsertBatch(b)
      PROVE  IInv'
  <2>1. upload[b] = NoUpload /\ ~Exists(b) /\ Exists(b)'
    BY <1>0, <1>1 DEF InsertBatch, TInv, TypeOK, RequestsMatch, Exists
  <2>2. posted[b] = 0 /\ detail[b] = NoRows
    BY <2>1 DEF IInv, NothingBefore, NoOrphanRows
  <2>3. \A w \in Workers : pc[w] # "idle" => job[w].batch # b /\ job[w].batch \in Batches
    BY <1>0, <2>1, NoUploadNotUploads DEF TInv, JobsUploaded, LiveJobs, Jobs
  <2>4. \A c \in Batches \ {b} : upload'[c] = upload[c] /\ (Exists(c)' <=> Exists(c))
    BY <1>0, <1>1 DEF InsertBatch, TypeOK, Exists
  <2>5. upload'[b] \in Uploads
    BY <1>0, <1>1 DEF InsertBatch, TypeOK, Requests
  <2>6. UNCHANGED <<detail, posted, pc, job, plan>>
    BY <1>1 DEF InsertBatch, workerVars
  <2>7. ParentHeld'
    BY <2>3, <2>4, <2>6 DEF IInv, ParentHeld, HoldsParent
  <2>8. PlansWhole'
    BY <2>3, <2>4, <2>6 DEF IInv, PlansWhole, ManualPlan, Sheet
  <2>9. NothingBefore' /\ NoOrphanRows'
    BY <2>1, <2>2, <2>4, <2>6 DEF IInv, NothingBefore, NoOrphanRows
  <2>10. WholeFiles'
    <3> SUFFICES ASSUME NEW c \in Batches, upload'[c] # NoUpload, upload'[c].kind = "manual"
                 PROVE  detail'[c] = [i \in Rows |-> posted'[c] * Sheet(upload'[c])[i]]
      BY DEF WholeFiles, OfKind, Uploaded
    <3>1. CASE c = b
      BY <3>1, <2>2, <2>5, <2>6, NoneIsNoRows
    <3>2. CASE c # b
      BY <3>2, <2>4, <2>6 DEF IInv, WholeFiles, OfKind, Uploaded
    <3>3. QED
      BY <3>1, <3>2
  <2>11. QED
    BY <1>0, <2>7, <2>8, <2>9, <2>10 DEF IInv
<1>2. ASSUME NEW b \in Batches, QueueParse(b) \/ LoseRequest(b) \/ RequestRollback(b)
      PROVE  IInv'
  BY <1>0, <1>2, QuietStep
     DEF QueueParse, LoseRequest, RequestRollback, batchVars, workerVars, Exists
<1>3. ASSUME NEW w \in Workers, TakeJob(w)
      PROVE  IInv'
  BY <1>0, <1>3, QuietStep DEF TakeJob, batchVars, Exists, TypeOK
<1>4. ASSUME NEW w \in Workers,
             Crash(w) \/ LockExpires(w) \/ Fault(w) \/ AbandonJob(w) \/ Acknowledge(w)
      PROVE  IInv'
  BY <1>0, <1>4, QuietStep
     DEF Crash, LockExpires, Fault, AbandonJob, Acknowledge, batchVars, workerVars, Exists, TypeOK
<1>5. ASSUME NEW j \in expired, CheckStalled(j)
      PROVE  IInv'
  BY <1>0, <1>5, QuietStep DEF CheckStalled, batchVars, workerVars, Exists
<1>6. ASSUME NEW w \in Workers, MarkProcessing(w) \/ MarkDone(w) \/ MarkFailed(w)
      PROVE  IInv'
  <2>1. job[w].batch \in Batches
    BY <1>0, <1>6 DEF MarkProcessing, MarkDone, MarkFailed, TInv, JobsUploaded, LiveJobs, Jobs
  <2>2. \A c \in Batches : Exists(c)' <=> Exists(c)
    BY <1>0, <1>6, <2>1, SetStatusKeeps DEF MarkProcessing, MarkDone, MarkFailed
  <2>3. QED
    BY <1>0, <1>6, <2>2, QuietStep DEF MarkProcessing, MarkDone, MarkFailed, TypeOK
<1>7. ASSUME NEW w \in Workers, Preload(w)
      PROVE  IInv'
  <2> DEFINE u == upload[job[w].batch]
  <2>1. u \in Uploads
    BY <1>0, <1>7 DEF Preload, TInv, JobsUploaded, LiveJobs
  <2>2. u.kind = "manual" => plan'[w] = ManualPlan(u)
    BY <1>0, <1>7, <2>1, ManualInsertsSheet DEF Preload, ManualPlan, TypeOK
  <2>3. /\ UNCHANGED <<status, upload, detail, posted, job>>
        /\ pc' = [pc EXCEPT ![w] = "insert"]
        /\ \A v \in Workers \ {w} : plan'[v] = plan[v]
    BY <1>0, <1>7 DEF Preload, batchVars, TypeOK
  <2>4. ParentHeld'
    BY <1>0, <2>3 DEF IInv, ParentHeld, HoldsParent, Exists, TypeOK
  <2>5. PlansWhole'
    <3> SUFFICES ASSUME NEW v \in Workers, upload[job[v].batch].kind = "manual"
                 PROVE  /\ pc'[v] = "insert" => plan'[v] = ManualPlan(upload[job[v].batch])
                        /\ pc'[v] = "commit" => plan'[v] = Sheet(upload[job[v].batch])
      BY <2>3 DEF PlansWhole
    <3>1. CASE v = w
      BY <1>0, <2>2, <2>3, <3>1 DEF TypeOK
    <3>2. CASE v # w
      BY <1>0, <2>3, <3>2 DEF IInv, PlansWhole, TypeOK
    <3>3. QED
      BY <3>1, <3>2
  <2>6. NothingBefore' /\ NoOrphanRows' /\ WholeFiles'
    BY <2>3 DEF IInv, NothingBefore, NoOrphanRows, WholeFiles, Exists, OfKind, Uploaded, Sheet
  <2>7. QED
    BY <1>0, <2>4, <2>5, <2>6 DEF IInv
<1>8. ASSUME NEW w \in Workers, InsertDetails(w)
      PROVE  IInv'
  <2> DEFINE b == job[w].batch
  <2>1. UNCHANGED <<status, upload, detail, posted, job, plan>>
    BY <1>8 DEF InsertDetails, batchVars
  <2>2. /\ pc[w] = "insert"
        /\ pc' = [pc EXCEPT ![w] = IF upload[b].file.header /\ (plan[w] = NoRows \/ Exists(b))
                                   THEN "commit" ELSE "fail"]
    BY <1>8 DEF InsertDetails
  <2>3. ParentHeld'
    BY <1>0, <2>1, <2>2 DEF IInv, ParentHeld, HoldsParent, Exists, TypeOK
  <2>4. PlansWhole'
    BY <1>0, <2>1, <2>2 DEF IInv, PlansWhole, ManualPlan, Sheet, TypeOK
  <2>5. NothingBefore' /\ NoOrphanRows' /\ WholeFiles'
    BY <2>1 DEF IInv, NothingBefore, NoOrphanRows, WholeFiles, Exists, OfKind, Uploaded, Sheet
  <2>6. QED
    BY <1>0, <2>3, <2>4, <2>5 DEF IInv
<1>9. ASSUME NEW w \in Workers, Commit(w)
      PROVE  IInv'
  <2> DEFINE b == job[w].batch
  <2>1. b \in Batches /\ upload[b] \in Uploads /\ upload[b] # NoUpload
    BY <1>0, <1>9, NoUploadNotUploads DEF Commit, TInv, JobsUploaded, LiveJobs, Jobs
  <2>2. /\ pc[w] = "commit"
        /\ pc' = [pc EXCEPT ![w] = "finish"]
        /\ detail' = [detail EXCEPT ![b] = Plus(detail[b], plan[w])]
        /\ posted' = [posted EXCEPT ![b] = posted[b] + 1]
        /\ UNCHANGED <<status, upload, job, plan>>
    BY <1>9 DEF Commit
  <2>3. ParentHeld'
    BY <1>0, <2>2 DEF IInv, ParentHeld, HoldsParent, Exists, TypeOK
  <2>4. PlansWhole'
    BY <1>0, <2>2 DEF IInv, PlansWhole, ManualPlan, Sheet, TypeOK
  <2>5. NothingBefore'
    BY <1>0, <2>1, <2>2 DEF IInv, NothingBefore, TypeOK
  <2>6. NoOrphanRows'
    <3> SUFFICES ASSUME NEW c \in Batches, ~Exists(c)
                 PROVE  detail'[c] = NoRows
      BY <2>2 DEF NoOrphanRows, Exists
    <3>1. detail[c] = NoRows
      BY DEF IInv, NoOrphanRows
    <3>2. CASE c = b
      <4>1. plan[w] = NoRows
        BY <2>2, <3>2 DEF IInv, ParentHeld, HoldsParent
      <4>2. Plus(NoRows, NoRows) = NoRows
        BY DEF Plus, NoRows
      <4>3. QED
        BY <1>0, <2>1, <2>2, <3>1, <3>2, <4>1, <4>2 DEF TypeOK
    <3>3. CASE c # b
      BY <1>0, <2>2, <3>1, <3>3 DEF TypeOK
    <3>4. QED
      BY <3>2, <3>3
  <2>7. WholeFiles'
    <3> SUFFICES ASSUME NEW c \in Batches, upload[c] # NoUpload, upload[c].kind = "manual"
                 PROVE  detail'[c] = [i \in Rows |-> posted'[c] * Sheet(upload[c])[i]]
      BY <2>2 DEF WholeFiles, OfKind, Uploaded
    <3>1. detail[c] = [i \in Rows |-> posted[c] * Sheet(upload[c])[i]]
      BY DEF IInv, WholeFiles, OfKind, Uploaded
    <3>2. CASE c = b
      <4>1. plan[w] = Sheet(upload[b])
        BY <2>2, <3>2 DEF IInv, PlansWhole
      <4>2. posted[b] \in Nat
        BY <1>0, <2>1 DEF TypeOK
      <4>3. Plus(detail[b], plan[w]) = [i \in Rows |-> (posted[b] + 1) * Sheet(upload[b])[i]]
        BY <2>1, <3>1, <3>2, <4>1, <4>2, OneMore
      <4>4. detail'[b] = Plus(detail[b], plan[w]) /\ posted'[b] = posted[b] + 1
        BY <1>0, <2>1, <2>2 DEF TypeOK
      <4>5. QED
        BY <3>2, <4>3, <4>4
    <3>3. CASE c # b
      <4>1. detail'[c] = detail[c] /\ posted'[c] = posted[c]
        BY <1>0, <2>2, <3>3 DEF TypeOK
      <4>2. QED
        BY <3>1, <4>1
    <3>4. QED
      BY <3>2, <3>3
  <2>8. QED
    BY <1>0, <2>3, <2>4, <2>5, <2>6, <2>7 DEF IInv
<1>10. ASSUME NEW w \in Workers, DeleteImport(w)
       PROVE  IInv'
  <2> DEFINE b == job[w].batch
  <2>1. b \in Batches /\ upload[b] \in Uploads
    BY <1>0, <1>10 DEF DeleteImport, TInv, JobsUploaded, LiveJobs, Jobs
  <2>2. UNCHANGED <<upload, job, plan>> /\ pc' = [pc EXCEPT ![w] = "ack"]
    BY <1>10 DEF DeleteImport
  <2>3. /\ ~Exists(b)'
        /\ detail' = [detail EXCEPT ![b] = NoRows]
        /\ posted' = [posted EXCEPT ![b] = 0]
    <3>1. ~Exists(b) => detail = [detail EXCEPT ![b] = NoRows]
      BY <1>0, <2>1 DEF IInv, NoOrphanRows, TypeOK
    <3>2. QED
      BY <1>0, <1>10, <2>1, <3>1 DEF DeleteImport, Exists, TypeOK, Statuses
  <2>4. \A c \in Batches \ {b} : Exists(c)' <=> Exists(c)
    BY <1>0, <1>10, <2>1 DEF DeleteImport, Exists, TypeOK
  <2>5. ParentHeld'
    <3> SUFFICES ASSUME NEW v \in Workers, HoldsParent(v, job[v].batch)'
                 PROVE  Exists(job[v].batch)'
      BY DEF ParentHeld
    <3>1. HoldsParent(v, job[v].batch) /\ v # w
      BY <1>0, <2>2 DEF HoldsParent, TypeOK
    <3>2. job[v].batch # b
      BY <1>10, <3>1 DEF DeleteImport
    <3>3. job[v].batch \in Batches
      BY <1>0, <3>1 DEF HoldsParent, TInv, JobsUploaded, LiveJobs, Jobs
    <3>4. QED
      BY <2>2, <2>4, <3>1, <3>2, <3>3 DEF IInv, ParentHeld
  <2>6. PlansWhole'
    BY <1>0, <2>2 DEF IInv, PlansWhole, ManualPlan, Sheet, TypeOK
  <2>7. NothingBefore' /\ NoOrphanRows'
    BY <1>0, <2>1, <2>2, <2>3, <2>4 DEF IInv, NothingBefore, NoOrphanRows, TypeOK
  <2>8. WholeFiles'
    <3> SUFFICES ASSUME NEW c \in Batches, upload[c] # NoUpload, upload[c].kind = "manual"
                 PROVE  detail'[c] = [i \in Rows |-> posted'[c] * Sheet(upload[c])[i]]
      BY <2>2 DEF WholeFiles, OfKind, Uploaded
    <3>1. CASE c = b
      BY <1>0, <2>1, <2>3, <3>1, NoneIsNoRows DEF TypeOK
    <3>2. CASE c # b
      BY <1>0, <2>3, <3>2 DEF IInv, WholeFiles, OfKind, Uploaded, TypeOK
    <3>3. QED
      BY <3>1, <3>2
  <2>9. QED
    BY <1>0, <2>5, <2>6, <2>7, <2>8 DEF IInv
<1>11. CASE UNCHANGED vars
  BY <1>0, <1>11, QuietStep DEF vars, Exists
<1>12. QED
  BY <1>1, <1>2, <1>3, <1>4, <1>5, <1>6, <1>7, <1>8, <1>9, <1>10, <1>11
     DEF Next, RequestStep, WorkerStep, HazardStep

\* Rows never outlive their batch.  However many workers parse and roll back at
\* once, and whatever crashes, no detail row of a deleted batch remains.
THEOREM NoOrphans == Spec => []NoOrphanRows
<1>1. IInv => NoOrphanRows
  BY DEF IInv
<1>2. QED
  BY <1>1, InitIInv, NextIInv, PTL DEF Spec

\* A manual batch holds its file a whole number of times, at every moment: no
\* interleaving, crash or fault leaves part of a file in the table.
THEOREM FilesAreWhole == Spec => []WholeFiles
<1>1. IInv => WholeFiles
  BY DEF IInv
<1>2. QED
  BY <1>1, InitIInv, NextIInv, PTL DEF Spec

-----------------------------------------------------------------------------
(* Counting rows *)

\* The rows of one identity in a set of batches are finitely many.
LEMMA RowSetFinite ==
    ASSUME NEW det \in [Batches -> Bags], NEW S \in SUBSET Batches, NEW i \in Rows
    PROVE  IsFiniteSet(RowSet(det, S, i)) /\ Copies(det, S, i) \in Nat
<1> DEFINE rows  == [b \in S |-> {b} \X (1..det[b][i])]
           T     == {rows[b] : b \in S}
<1>1. IsFiniteSet(S)
  BY BatchesAssumption, FS_Subset
<1>2. rows \in Surjection(S, T)
  BY DEF Surjection
<1>3. IsFiniteSet(T)
  <2> HIDE DEF rows, T
  <2>1. QED
    BY <1>1, <1>2, FS_Surjection
<1>4. ASSUME NEW b \in S
      PROVE  IsFiniteSet(rows[b])
  <2>1. det[b][i] \in Nat
    BY DEF Bags
  <2>2. IsFiniteSet(1..det[b][i])
    BY <2>1, FS_Interval
  <2>3. IsFiniteSet({b})
    BY FS_Singleton
  <2>4. QED
    BY <2>2, <2>3, FS_Product
<1>5. RowSet(det, S, i) = UNION T
  BY DEF RowSet
<1>6. IsFiniteSet(UNION T)
  <2>1. \A R \in T : IsFiniteSet(R)
    BY <1>4
  <2> HIDE DEF T
  <2>2. QED
    BY <1>3, <2>1, FS_UNION
<1>7. QED
  BY <1>5, <1>6, FS_CardinalityType DEF Copies

\* More batches with more rows hold more rows.
LEMMA CopiesGrow ==
    ASSUME NEW det \in [Batches -> Bags], NEW S \in SUBSET Batches,
           NEW det2 \in [Batches -> Bags], NEW T \in SUBSET Batches, NEW i \in Rows,
           \A b \in S : b \in T /\ det[b][i] <= det2[b][i]
    PROVE  Copies(det, S, i) <= Copies(det2, T, i)
<1>1. RowSet(det, S, i) \subseteq RowSet(det2, T, i)
  <2> SUFFICES ASSUME NEW b \in S, NEW n \in 1..det[b][i]
               PROVE  <<b, n>> \in {b} \X (1..det2[b][i]) /\ b \in T
    BY DEF RowSet
  <2>1. det[b][i] \in Nat /\ det2[b][i] \in Nat /\ b \in T /\ det[b][i] <= det2[b][i]
    BY DEF Bags
  <2>2. QED
    BY <2>1
<1>2. IsFiniteSet(RowSet(det2, T, i))
  BY RowSetFinite
<1>3. QED
  BY <1>1, <1>2, FS_Subset DEF Copies

\* A batch without rows adds none.
LEMMA CopiesSame ==
    ASSUME NEW det, NEW S, NEW det2, NEW T, NEW i \in Rows,
           \A b \in S \ T : det[b][i] = 0,
           \A b \in T \ S : det2[b][i] = 0,
           \A b \in S \cap T : det[b][i] = det2[b][i]
    PROVE  Copies(det, S, i) = Copies(det2, T, i)
<1>1. 1..0 = {}
  OBVIOUS
<1>2. RowSet(det, S, i) = RowSet(det2, T, i)
  <2>1. ASSUME NEW r PROVE r \in RowSet(det, S, i) => r \in RowSet(det2, T, i)
    BY <1>1 DEF RowSet
  <2>2. ASSUME NEW r PROVE r \in RowSet(det2, T, i) => r \in RowSet(det, S, i)
    BY <1>1 DEF RowSet
  <2>3. QED
    BY <2>1, <2>2
<1>3. QED
  BY <1>2 DEF Copies

\* Rows added to one batch of the set.
LEMMA CopiesAdded ==
    ASSUME NEW det \in [Batches -> Bags], NEW S \in SUBSET Batches, NEW b \in S,
           NEW more \in Bags, NEW i \in Rows, NEW det2,
           \A c \in Batches : det2[c] = IF c = b THEN Plus(det[b], more) ELSE det[c]
    PROVE  Copies(det2, S, i) = Copies(det, S, i) + more[i]
<1> DEFINE n   == det[b][i]
           k   == more[i]
           new == {b} \X (n+1 .. n+k)
<1>1. n \in Nat /\ k \in Nat /\ det2[b][i] = n + k
  BY DEF Bags, Plus
<1>2. \A c \in S \ {b} : det2[c] = det[c]
  OBVIOUS
<1>3. 1..(n+k) = (1..n) \cup (n+1 .. n+k) /\ (1..n) \cap (n+1 .. n+k) = {}
  BY <1>1
<1>4. RowSet(det2, S, i) = RowSet(det, S, i) \cup new
  <2> HIDE DEF n, k
  <2>1. {b} \X (1..(n+k)) = ({b} \X (1..n)) \cup new
    BY <1>3
  <2>2. det2[b][i] = n + k /\ det[b][i] = n
    BY <1>1 DEF n
  <2>3. RowSet(det2, S, i) = ({b} \X (1..(n+k))) \cup RowSet(det, S \ {b}, i)
    BY <1>2, <2>2 DEF RowSet
  <2>4. RowSet(det, S, i) = ({b} \X (1..n)) \cup RowSet(det, S \ {b}, i)
    BY <2>2 DEF RowSet
  <2> HIDE DEF new
  <2>5. QED
    BY <2>1, <2>3, <2>4
<1>5. RowSet(det, S, i) \cap new = {}
  <2> SUFFICES ASSUME NEW r, r \in RowSet(det, S, i), r \in new
               PROVE  FALSE
    OBVIOUS
  <2>1. r[1] = b /\ r[2] \in n+1 .. n+k
    OBVIOUS
  <2>2. PICK c \in S : r[1] = c /\ r[2] \in 1..det[c][i]
    BY DEF RowSet
  <2>3. r[2] \in 1..n
    BY <2>1, <2>2
  <2>4. QED
    BY <1>3, <2>1, <2>3
<1>6. IsFiniteSet(new) /\ Cardinality(new) = k
  <2>1. IsFiniteSet(n+1 .. n+k) /\ Cardinality(n+1 .. n+k) = k
    <3>1. \A p, q \in Nat : IsFiniteSet(p+1 .. p+q) /\ Cardinality(p+1 .. p+q) = q
      <4> SUFFICES ASSUME NEW p \in Nat, NEW q \in Nat
                   PROVE  IsFiniteSet(p+1 .. p+q) /\ Cardinality(p+1 .. p+q) = q
        OBVIOUS
      <4>1. p+1 \in Int /\ p+q \in Int
        OBVIOUS
      <4>2. IsFiniteSet(p+1 .. p+q)
        BY <4>1, FS_Interval
      <4>3. Cardinality(p+1 .. p+q) = IF p+1 > p+q THEN 0 ELSE (p+q) - (p+1) + 1
        BY <4>1, FS_Interval
      <4>4. QED
        BY <4>2, <4>3
    <3> HIDE DEF n, k
    <3>2. QED
      BY <1>1, <3>1
  <2>2. IsFiniteSet({b}) /\ Cardinality({b}) = 1
    BY FS_Singleton
  <2>3. IsFiniteSet(new) /\ Cardinality(new) = 1 * Cardinality(n+1 .. n+k)
    BY <2>1, <2>2, FS_Product
  <2> HIDE DEF new, n, k
  <2>4. QED
    BY <1>1, <2>1, <2>3
<1>7. IsFiniteSet(RowSet(det, S, i))
  BY RowSetFinite
<1>8. Cardinality(RowSet(det, S, i) \cup new) = Cardinality(RowSet(det, S, i)) + k
  <2> HIDE DEF new, k
  <2>1. Cardinality(RowSet(det, S, i) \cap new) = 0
    BY <1>5, FS_EmptySet
  <2>2. Cardinality(RowSet(det, S, i)) \in Nat /\ k \in Nat
    BY <1>1, <1>7, FS_CardinalityType
  <2>3. Cardinality(RowSet(det, S, i) \cup new)
            = Cardinality(RowSet(det, S, i)) + Cardinality(new) - Cardinality(RowSet(det, S, i) \cap new)
    BY <1>6, <1>7, FS_Union
  <2>4. QED
    BY <1>6, <2>1, <2>2, <2>3
<1>9. QED
  BY <1>4, <1>8 DEF Copies

\* How many copies a deduplicating parse keeps, in closed form.
LEMMA NewCopiesValue ==
    ASSUME NEW want \in Nat, NEW have \in Nat
    PROVE  NewCopies(want, have) = IF want > have THEN want - have ELSE 0
<1>1. {n \in 1..want : n > have} = (have + 1)..want
  OBVIOUS
<1>2. Cardinality((have + 1)..want) = IF have + 1 > want THEN 0 ELSE want - (have + 1) + 1
  BY FS_Interval
<1>3. (IF have + 1 > want THEN 0 ELSE want - (have + 1) + 1)
          = IF want > have THEN want - have ELSE 0
  OBVIOUS
<1>4. QED
  BY <1>1, <1>2, <1>3, Zenon DEF NewCopies
-----------------------------------------------------------------------------
(***************************************************************************)
(* What "done" says of a batch, for any number of workers: rows are only   *)
(* added while nothing of the period is rolled back, so a plan that was    *)
(* enough when it was made is enough when it is committed, however many    *)
(* other files are posted in between; and a batch whose file was posted    *)
(* once holds the rows of the transaction that posted it.                  *)
(***************************************************************************)

NoneDeleted == \A b \in Batches : status[b] # "deleted"

\* The table of batch b, with further rows, has what its file promises.
Enough(b, more) ==
    \A i \in Rows : Held(upload, detail, upload[b], i) + more[i] >= Promised(upload[b], i)

\* What a parse has in hand, and then has committed, is enough.
Covering(w) ==
    LET b == job[w].batch IN
    /\ pc[w] = "insert" /\ upload[b].file.header => Enough(b, plan[w])
    /\ pc[w] = "commit" => Enough(b, plan[w])
    /\ pc[w] = "finish" => Enough(b, NoRows)

CoverInv ==
    NoneDeleted =>
        /\ \A w \in Workers : Covering(w)
        /\ \A b \in Batches : status[b] = "done" => Enough(b, NoRows)

\* Rows come with a post; a done batch was posted, and once posted, its totals
\* are those of its rows.
Counted(b) ==
    /\ posted[b] = 0 => detail[b] = NoRows
    /\ status[b] = "done" => posted[b] >= 1 /\ (posted[b] = 1 => recorded[b] = detail[b])

\* A worker about to record its totals has posted the rows it counted.
Counting(w) ==
    LET b == job[w].batch IN
    pc[w] = "finish" /\ Exists(b) => posted[b] >= 1 /\ (posted[b] = 1 => plan[w] = detail[b])

DoneInv ==
    /\ IInv
    /\ CoverInv
    /\ \A b \in Batches : Counted(b)
    /\ \A w \in Workers : Counting(w)

\* Uploads stay and rows are only added.
Growing ==
    /\ \A b \in Batches : upload[b] \in Uploads => upload'[b] = upload[b]
    /\ \A b \in Batches, i \in Rows : detail[b][i] <= detail'[b][i]

\* The batches whose rows upload u counts as its table's.
Table(u) == {b \in Uploaded(upload) : SameTable(u, upload[b])}

\* While rows are only added, no table loses any.
LEMMA HeldGrows ==
    ASSUME TypeOK, TypeOK', Growing, NEW u \in Uploads, NEW i \in Rows
    PROVE  /\ Held(upload, detail, u, i) \in Nat
           /\ Held(upload, detail, u, i)' \in Nat
           /\ Held(upload, detail, u, i) <= Held(upload, detail, u, i)'
<1>1. PICK S : S = Table(u)
  OBVIOUS
<1>2. PICK T : T = Table(u)'
  OBVIOUS
<1>3. S \subseteq Batches /\ T \subseteq Batches
  BY <1>1, <1>2 DEF Table, Uploaded
<1>4. \A b \in S : b \in T
  BY <1>1, <1>2 DEF Table, Uploaded, Growing, TypeOK
<1>5. \A b \in S : b \in T /\ detail[b][i] <= detail'[b][i]
  BY <1>3, <1>4 DEF Growing
<1>6. PICK det, det2 : det = detail /\ det2 = detail'
  OBVIOUS
<1>7. det \in [Batches -> Bags] /\ det2 \in [Batches -> Bags]
  BY <1>6 DEF TypeOK
<1>8. Copies(det, S, i) \in Nat /\ Copies(det2, T, i) \in Nat
  BY <1>3, <1>7, RowSetFinite
<1>9. Copies(det, S, i) <= Copies(det2, T, i)
  BY <1>3, <1>5, <1>6, <1>7, CopiesGrow
<1>10. Held(upload, detail, u, i) = Copies(det, S, i)
  BY <1>1, <1>6 DEF Held, Table
<1>11. Held(upload, detail, u, i)' = Copies(det2, T, i)
  BY <1>2, <1>6 DEF Held, Table
<1>12. QED
  BY <1>8, <1>9, <1>10, <1>11

\* What is promised of a row is a number.
LEMMA PromisedType ==
    ASSUME NEW u \in Uploads, NEW i \in Rows
    PROVE  Promised(u, i) \in Nat
BY SheetType DEF Promised, Bags

\* What is enough stays enough while rows are only added.
LEMMA EnoughStays ==
    ASSUME TypeOK, TypeOK', Growing, NEW b \in Batches, upload[b] \in Uploads,
           NEW more \in Bags, Enough(b, more)
    PROVE  Enough(b, more)'
<1> SUFFICES ASSUME NEW i \in Rows
             PROVE  Held(upload', detail', upload'[b], i) + more[i] >= Promised(upload'[b], i)
  BY DEF Enough
<1>1. PICK u \in Uploads : u = upload[b] /\ u = upload'[b]
  BY DEF Growing
<1>2. Held(upload, detail, u, i) + more[i] >= Promised(u, i)
  BY <1>1 DEF Enough
<1>3. /\ Held(upload, detail, u, i) \in Nat
      /\ Held(upload', detail', u, i) \in Nat
      /\ Held(upload, detail, u, i) <= Held(upload', detail', u, i)
  BY HeldGrows
<1>4. more[i] \in Nat /\ Promised(u, i) \in Nat
  BY PromisedType DEF Bags
<1>5. QED
  BY <1>1, <1>2, <1>3, <1>4

\* A plan made against the tables is enough for them.
LEMMA PlanIsEnough ==
    ASSUME TypeOK, NEW b \in Batches, upload[b] \in Uploads
    PROVE  Enough(b, ToInsert(upload, detail, upload[b]))
<1>1. PICK u \in Uploads : u = upload[b]
  OBVIOUS
<1> SUFFICES ASSUME NEW i \in Rows
             PROVE  Held(upload, detail, u, i) + ToInsert(upload, detail, u)[i] >= Promised(u, i)
  BY <1>1 DEF Enough
<1>2. PICK S : S = Table(u)
  OBVIOUS
<1>3. S \subseteq Batches
  BY <1>2 DEF Table, Uploaded
<1>4. PICK have : have = Held(upload, detail, u, i)
  OBVIOUS
<1>5. have \in Nat
  BY <1>2, <1>3, <1>4, RowSetFinite DEF Held, Table, TypeOK
<1>6. PICK want \in Nat : want = Sheet(u)[i]
  BY SheetType DEF Bags
<1>7. u.kind \in {"manual", "portal", "grab"}
  BY KindsAssumption DEF Uploads, AllKinds
<1>8. CASE u.kind = "manual"
  BY <1>4, <1>5, <1>6, <1>8 DEF ToInsert, Promised
<1>9. CASE u.kind = "portal"
  <2>1. ToInsert(upload, detail, u)[i] = NewCopies(want, have)
    BY <1>4, <1>6, <1>9 DEF ToInsert
  <2>2. Promised(u, i) = want
    BY <1>6, <1>9 DEF Promised
  <2>3. QED
    BY <1>4, <1>5, <2>1, <2>2, NewCopiesValue
<1>10. CASE u.kind = "grab"
  <2>1. ToInsert(upload, detail, u)[i] = IF want > 0 /\ have = 0 THEN 1 ELSE 0
    BY <1>4, <1>6, <1>10 DEF ToInsert
  <2>2. Promised(u, i) = IF want > 0 THEN 1 ELSE want
    BY <1>6, <1>10 DEF Promised
  <2>3. QED
    BY <1>4, <1>5, <2>1, <2>2
<1>11. QED
  BY <1>7, <1>8, <1>9, <1>10

\* Once the plan is in the table, the table alone is enough.
LEMMA PostedIsEnough ==
    ASSUME TypeOK, NEW b \in Batches, upload[b] \in Uploads, UNCHANGED upload,
           NEW more \in Bags, Enough(b, more),
           detail' = [detail EXCEPT ![b] = Plus(@, more)]
    PROVE  Enough(b, NoRows)'
<1>1. PICK u \in Uploads : u = upload[b]
  OBVIOUS
<1> SUFFICES ASSUME NEW i \in Rows
             PROVE  Held(upload, detail', u, i) + NoRows[i] >= Promised(u, i)
  BY <1>1 DEF Enough
<1>2. PICK S : S = Table(u)
  OBVIOUS
<1>3. S \subseteq Batches /\ b \in S
  BY <1>1, <1>2, NoUploadNotUploads DEF Table, Uploaded, SameTable
<1>4. PICK det \in [Batches -> Bags] : det = detail
  BY DEF TypeOK
<1>a. PICK det2 : det2 = detail'
  OBVIOUS
<1>b. \A c \in Batches : det2[c] = IF c = b THEN Plus(det[b], more) ELSE det[c]
  BY <1>4, <1>a
<1>5. Copies(det2, S, i) = Copies(det, S, i) + more[i]
  BY <1>3, <1>b, CopiesAdded
<1>6. /\ Held(upload, detail', u, i) = Copies(det2, S, i)
      /\ Held(upload, detail, u, i) = Copies(det, S, i)
  BY <1>2, <1>4, <1>a DEF Held, Table
<1>7. Held(upload, detail, u, i) + more[i] >= Promised(u, i)
  BY <1>1 DEF Enough
<1>8. Copies(det, S, i) \in Nat /\ more[i] \in Nat /\ Promised(u, i) \in Nat /\ NoRows[i] = 0
  BY <1>3, RowSetFinite, PromisedType DEF Bags, NoRows
<1>9. QED
  BY <1>5, <1>6, <1>7, <1>8

\* A step that only adds rows keeps the coverage, if the workers it moves and the
\* batches it settles are covered.
LEMMA StepCovers ==
    ASSUME TInv, TInv', CoverInv, Growing, NoneDeleted' => NoneDeleted,
           \A w \in Workers : pc'[w] \in {"insert", "commit", "finish"} =>
               \/ pc'[w] = pc[w] /\ job'[w] = job[w] /\ plan'[w] = plan[w]
               \/ NoneDeleted => Covering(w)',
           \A b \in Batches : status'[b] = "done" =>
               status[b] = "done" \/ (NoneDeleted => Enough(b, NoRows)')
    PROVE  CoverInv'
<1> SUFFICES ASSUME NoneDeleted, NoneDeleted'
             PROVE  /\ \A w \in Workers : Covering(w)'
                    /\ \A b \in Batches : status'[b] = "done" => Enough(b, NoRows)'
  BY DEF CoverInv
<1>0. TypeOK /\ TypeOK'
  BY DEF TInv
<1>1. ASSUME NEW w \in Workers
      PROVE  Covering(w)'
  <2>1. CASE pc'[w] \notin {"insert", "commit", "finish"}
    BY <2>1 DEF Covering
  <2>2. CASE /\ pc'[w] \in {"insert", "commit", "finish"}
             /\ pc'[w] = pc[w] /\ job'[w] = job[w] /\ plan'[w] = plan[w]
    <3>1. PICK b \in Batches : b = job[w].batch /\ upload[b] \in Uploads /\ upload'[b] = upload[b]
      BY <2>2 DEF TInv, JobsUploaded, LiveJobs, Jobs, Growing
    <3>2. PICK p \in Bags : p = plan[w]
      BY <1>0 DEF TypeOK
    <3>3. Covering(w)
      BY DEF CoverInv
    <3>4. Enough(b, p) => Enough(b, p)'
      BY <1>0, <3>1, EnoughStays
    <3>5. Enough(b, NoRows) => Enough(b, NoRows)'
      BY <1>0, <3>1, NoRowsType, EnoughStays
    <3>6. QED
      BY <2>2, <3>1, <3>2, <3>3, <3>4, <3>5 DEF Covering
  <2>3. QED
    BY <2>1, <2>2
<1>2. ASSUME NEW b \in Batches, status'[b] = "done"
      PROVE  Enough(b, NoRows)'
  <2>1. CASE status[b] = "done"
    <3>1. upload[b] \in Uploads
      BY <1>0, <2>1 DEF TInv, TypeOK, RequestsMatch
    <3>2. Enough(b, NoRows)
      BY <2>1 DEF CoverInv
    <3>3. QED
      BY <1>0, <3>1, <3>2, NoRowsType, EnoughStays
  <2>2. QED
    BY <1>2, <2>1
<1>3. QED
  BY <1>1, <1>2

\* A step that leaves rows and totals alone keeps the counts.
LEMMA StepCounts ==
    ASSUME TInv, DoneInv, UNCHANGED <<detail, posted, recorded>>,
           \A b \in Batches : status'[b] = "done" => status[b] = "done",
           \A w \in Workers : pc'[w] = "finish" =>
               /\ pc[w] = "finish" /\ job'[w] = job[w] /\ plan'[w] = plan[w]
               /\ Exists(job[w].batch)' => Exists(job[w].batch)
    PROVE  (\A b \in Batches : Counted(b)') /\ (\A w \in Workers : Counting(w)')
<1>1. ASSUME NEW b \in Batches PROVE Counted(b)'
  BY DEF DoneInv, Counted
<1>2. ASSUME NEW w \in Workers PROVE Counting(w)'
  <2>1. Counting(w)
    BY DEF DoneInv
  <2> SUFFICES ASSUME pc'[w] = "finish" PROVE Counting(w)'
    BY DEF Counting
  <2>2. PICK b : b = job[w].batch /\ b = job'[w].batch
    OBVIOUS
  <2>3. Exists(b)' => Exists(b)
    BY <2>2
  <2>4. QED
    BY <2>1, <2>2, <2>3 DEF Counting
<1>3. QED
  BY <1>1, <1>2

\* A step of the queue, or of a worker that is neither before nor at a commit.
LEMMA QuietKeepsDone ==
    ASSUME DoneInv, IInv', UNCHANGED <<upload, detail, posted, recorded>>,
           \A b \in Batches : Exists(b)' <=> Exists(b),
           \A b \in Batches : status'[b] = "done" => status[b] = "done",
           NoneDeleted' => NoneDeleted,
           \A w \in Workers : pc'[w] \in {"insert", "commit", "finish"} =>
               pc'[w] = pc[w] /\ job'[w] = job[w] /\ plan'[w] = plan[w]
    PROVE  DoneInv'
<1>0. TInv /\ TInv' /\ TypeOK
  BY DEF DoneInv, IInv, TInv
<1>1. Growing
  BY <1>0 DEF Growing, TypeOK, Bags
<1>2. CoverInv'
  BY <1>0, <1>1, StepCovers DEF DoneInv
<1>3. \A w \in Workers : pc'[w] = "finish" =>
          /\ pc[w] = "finish" /\ job'[w] = job[w] /\ plan'[w] = plan[w]
          /\ Exists(job[w].batch)' => Exists(job[w].batch)
  BY <1>0 DEF TInv, JobsUploaded, LiveJobs, Jobs, Exists
<1>4. QED
  BY <1>0, <1>2, <1>3, StepCounts DEF DoneInv

\* At the start nothing is done.
LEMMA InitDoneInv == Init => DoneInv
BY InitIInv DEF Init, DoneInv, CoverInv, Covering, Counted, Counting

\* The transaction is committed: the rows are there, and were counted.
LEMMA CommitKeepsDone ==
    ASSUME DoneInv, IInv', NEW w \in Workers, Commit(w)
    PROVE  DoneInv'
<1>0. TInv /\ TInv' /\ TypeOK /\ TypeOK'
  BY DEF DoneInv, IInv, TInv
<1>1. PICK b : b = job[w].batch
  OBVIOUS
<1>2. PICK p : p = plan[w]
  OBVIOUS
<1>3. b \in Batches /\ upload[b] \in Uploads /\ p \in Bags
  BY <1>0, <1>1, <1>2 DEF Commit, TInv, TypeOK, JobsUploaded, LiveJobs, Jobs
<1>4. /\ pc[w] = "commit" /\ pc' = [pc EXCEPT ![w] = "finish"]
      /\ detail' = [detail EXCEPT ![b] = Plus(@, p)]
      /\ posted' = [posted EXCEPT ![b] = @ + 1]
      /\ UNCHANGED <<status, upload, recorded, job, plan>>
  BY <1>1, <1>2 DEF Commit
<1>5. Growing
  <2>1. ASSUME NEW c \in Batches, NEW i \in Rows PROVE detail[c][i] <= detail'[c][i]
    <3>1. detail[c][i] \in Nat /\ p[i] \in Nat
      BY <1>0, <1>3 DEF TypeOK, Bags
    <3>2. detail'[c][i] = IF c = b THEN detail[c][i] + p[i] ELSE detail[c][i]
      BY <1>0, <1>3, <1>4 DEF TypeOK, Plus
    <3>3. QED
      BY <3>1, <3>2
  <2>2. QED
    BY <1>4, <2>1 DEF Growing
<1>6. NoneDeleted => Covering(w)'
  <2> SUFFICES ASSUME NoneDeleted PROVE Covering(w)'
    OBVIOUS
  <2>1. Enough(b, p)
    BY <1>1, <1>2, <1>4 DEF DoneInv, CoverInv, Covering
  <2>2. Enough(b, NoRows)'
    BY <1>0, <1>3, <1>4, <2>1, PostedIsEnough
  <2>3. pc'[w] = "finish" /\ job'[w].batch = b
    BY <1>0, <1>1, <1>4 DEF TypeOK
  <2>4. QED
    BY <2>2, <2>3 DEF Covering
<1>7. CoverInv'
  BY <1>0, <1>4, <1>5, <1>6, StepCovers DEF DoneInv, NoneDeleted, TypeOK
<1>8. posted[b] \in Nat /\ posted'[b] = posted[b] + 1
  BY <1>0, <1>3, <1>4 DEF TypeOK
<1>9. \A c \in Batches \ {b} : posted'[c] = posted[c] /\ detail'[c] = detail[c]
  BY <1>0, <1>4 DEF TypeOK
<1>10. posted[b] = 0 => detail'[b] = p
  <2>1. posted[b] = 0 => detail[b] = NoRows
    BY <1>3 DEF DoneInv, Counted
  <2>2. Plus(NoRows, p) = p
    BY <1>3 DEF Plus, NoRows, Bags
  <2>3. QED
    BY <1>0, <1>3, <1>4, <2>1, <2>2 DEF TypeOK
<1>11. ASSUME NEW c \in Batches PROVE Counted(c)'
  <2>1. Counted(c)
    BY DEF DoneInv
  <2>2. QED
    BY <1>4, <1>8, <1>9, <2>1 DEF Counted
<1>12. ASSUME NEW v \in Workers PROVE Counting(v)'
  <2>1. Counting(v)
    BY DEF DoneInv
  <2> SUFFICES ASSUME pc'[v] = "finish", Exists(job[v].batch)' PROVE Counting(v)'
    BY <1>4 DEF Counting
  <2>2. CASE v = w
    BY <1>1, <1>2, <1>4, <1>8, <1>10, <2>2 DEF Counting
  <2>3. CASE v # w
    <3>1. pc[v] = "finish" /\ Exists(job[v].batch)
      BY <1>0, <1>4, <2>3 DEF TypeOK, Exists
    <3>2. job[v].batch \in Batches
      BY <1>0, <3>1 DEF TInv, JobsUploaded, LiveJobs, Jobs
    <3>3. posted[job[v].batch] >= 1 /\ (posted[job[v].batch] = 1 => plan[v] = detail[job[v].batch])
      BY <2>1, <3>1 DEF Counting
    <3>4. CASE job[v].batch = b
      BY <1>4, <1>8, <3>3, <3>4 DEF Counting
    <3>5. CASE job[v].batch # b
      BY <1>4, <1>9, <3>2, <3>3, <3>5 DEF Counting
    <3>6. QED
      BY <3>4, <3>5
  <2>4. QED
    BY <2>2, <2>3
<1>13. QED
  BY <1>7, <1>11, <1>12 DEF DoneInv

\* The batch is marked done, with the totals of the transaction.
LEMMA MarkDoneKeepsDone ==
    ASSUME DoneInv, IInv', NEW w \in Workers, MarkDone(w)
    PROVE  DoneInv'
<1>0. TInv /\ TInv' /\ TypeOK /\ TypeOK'
  BY DEF DoneInv, IInv, TInv
<1>1. PICK b : b = job[w].batch
  OBVIOUS
<1>2. b \in Batches /\ upload[b] \in Uploads
  BY <1>0, <1>1 DEF MarkDone, TInv, JobsUploaded, LiveJobs, Jobs
<1>3. /\ pc[w] = "finish" /\ pc' = [pc EXCEPT ![w] = "ack"]
      /\ UNCHANGED <<detail, posted, upload, job, plan>>
      /\ status' = IF Exists(b) THEN [status EXCEPT ![b] = "done"] ELSE status
      /\ recorded' = IF Exists(b) THEN [recorded EXCEPT ![b] = plan[w]] ELSE recorded
  BY <1>1 DEF MarkDone, SetStatus
<1>4. Growing
  BY <1>0, <1>3 DEF Growing, TypeOK, Bags
<1>5. NoneDeleted' => NoneDeleted
  BY <1>0, <1>2, <1>3 DEF NoneDeleted, TypeOK, Exists
<1>6. NoneDeleted => Enough(b, NoRows)'
  <2> SUFFICES ASSUME NoneDeleted PROVE Enough(b, NoRows)'
    OBVIOUS
  <2>1. Enough(b, NoRows)
    BY <1>1, <1>3 DEF DoneInv, CoverInv, Covering
  <2>2. QED
    BY <1>0, <1>2, <1>4, <2>1, NoRowsType, EnoughStays
<1>7. \A c \in Batches : status'[c] = "done" =>
          status[c] = "done" \/ (NoneDeleted => Enough(c, NoRows)')
  BY <1>0, <1>3, <1>6 DEF TypeOK
<1>8. \A v \in Workers : pc'[v] \in {"insert", "commit", "finish"} =>
          pc'[v] = pc[v] /\ job'[v] = job[v] /\ plan'[v] = plan[v]
  BY <1>0, <1>3 DEF TypeOK
<1>9. CoverInv'
  BY <1>0, <1>4, <1>5, <1>7, <1>8, StepCovers DEF DoneInv
<1>10. ASSUME NEW c \in Batches PROVE Counted(c)'
  <2>1. Counted(c)
    BY DEF DoneInv
  <2>2. CASE c = b /\ Exists(b)
    <3>1. Counting(w)
      BY DEF DoneInv
    <3>2. posted[b] >= 1 /\ (posted[b] = 1 => plan[w] = detail[b])
      BY <1>1, <1>3, <2>2, <3>1 DEF Counting
    <3>3. recorded'[b] = plan[w] /\ posted[b] \in Nat
      BY <1>0, <1>2, <1>3, <2>2 DEF TypeOK
    <3>4. QED
      BY <1>3, <2>1, <2>2, <3>2, <3>3 DEF Counted
  <2>3. CASE ~(c = b /\ Exists(b))
    <3>1. status'[c] = status[c] /\ recorded'[c] = recorded[c]
      BY <1>0, <1>2, <1>3, <2>3 DEF TypeOK
    <3>2. QED
      BY <1>3, <2>1, <3>1 DEF Counted
  <2>4. QED
    BY <2>2, <2>3
<1>11. ASSUME NEW v \in Workers PROVE Counting(v)'
  <2>1. Counting(v)
    BY DEF DoneInv
  <2> SUFFICES ASSUME pc'[v] = "finish", Exists(job[v].batch)' PROVE Counting(v)'
    BY <1>3 DEF Counting
  <2>2. pc[v] = "finish"
    BY <1>0, <1>8
  <2>3. job[v].batch \in Batches
    BY <1>0, <2>2 DEF TInv, JobsUploaded, LiveJobs, Jobs
  <2>4. Exists(job[v].batch)
    BY <1>0, <1>3, <2>3 DEF TypeOK, Exists
  <2>5. QED
    BY <1>3, <2>1, <2>2, <2>4 DEF Counting
<1>12. QED
  BY <1>9, <1>10, <1>11 DEF DoneInv

\* A rollback: from now on nothing is promised, and the rows are gone.
LEMMA DeleteKeepsDone ==
    ASSUME DoneInv, IInv', NEW w \in Workers, DeleteImport(w)
    PROVE  DoneInv'
<1>0. TInv /\ TInv' /\ TypeOK /\ TypeOK'
  BY DEF DoneInv, IInv, TInv
<1>1. PICK b : b = job[w].batch
  OBVIOUS
<1>2. b \in Batches
  BY <1>0, <1>1 DEF DeleteImport, TInv, JobsUploaded, LiveJobs, Jobs
<1>3. /\ pc[w] = "delete" /\ pc' = [pc EXCEPT ![w] = "ack"]
      /\ UNCHANGED <<upload, job, plan, recorded>>
      /\ status' = IF Exists(b) THEN [status EXCEPT ![b] = "deleted"] ELSE status
      /\ detail' = IF Exists(b) THEN [detail EXCEPT ![b] = NoRows] ELSE detail
      /\ posted' = [posted EXCEPT ![b] = 0]
  BY <1>1 DEF DeleteImport
<1>4. \A v \in Workers : pc'[v] \in {"insert", "commit", "finish"} =>
          pc'[v] = pc[v] /\ job'[v] = job[v] /\ plan'[v] = plan[v]
  BY <1>0, <1>3 DEF TypeOK
<1>5. CoverInv'
  <2>1. CASE Exists(b)
    BY <1>0, <1>2, <1>3, <2>1 DEF CoverInv, NoneDeleted, TypeOK
  <2>2. CASE ~Exists(b)
    <3>1. UNCHANGED <<status, detail, upload>>
      BY <1>3, <2>2
    <3>2. Growing
      BY <1>0, <3>1 DEF Growing, TypeOK, Bags
    <3>3. QED
      BY <1>0, <1>4, <3>1, <3>2, StepCovers DEF DoneInv, NoneDeleted
  <2>3. QED
    BY <2>1, <2>2
<1>6. ~Exists(b)' /\ detail'[b] = NoRows /\ posted'[b] = 0 /\ status'[b] # "done"
  <2>1. ~Exists(b) => detail[b] = NoRows
    BY <1>2 DEF DoneInv, IInv, NoOrphanRows
  <2>2. QED
    BY <1>0, <1>2, <1>3, <2>1 DEF TypeOK, Exists
<1>7. \A c \in Batches \ {b} :
          status'[c] = status[c] /\ detail'[c] = detail[c] /\ posted'[c] = posted[c]
  BY <1>0, <1>3 DEF TypeOK
<1>8. ASSUME NEW c \in Batches PROVE Counted(c)'
  <2>1. Counted(c)
    BY DEF DoneInv
  <2>2. QED
    BY <1>3, <1>6, <1>7, <2>1 DEF Counted
<1>9. ASSUME NEW v \in Workers PROVE Counting(v)'
  <2>1. Counting(v)
    BY DEF DoneInv
  <2>a. PICK c : c = job[v].batch /\ c = job'[v].batch
    BY <1>3
  <2> SUFFICES ASSUME pc'[v] = "finish", Exists(c)' PROVE Counting(v)'
    BY <2>a DEF Counting, Exists
  <2>2. pc[v] = "finish"
    BY <1>4
  <2>3. c \in Batches
    BY <1>0, <2>2, <2>a DEF TInv, JobsUploaded, LiveJobs, Jobs
  <2>4. c # b
    BY <1>6 DEF Exists
  <2>5. Exists(c)
    BY <1>7, <2>3, <2>4 DEF Exists
  <2>6. QED
    BY <1>3, <1>7, <2>1, <2>2, <2>3, <2>4, <2>5, <2>a DEF Counting, Exists
<1>10. QED
  BY <1>5, <1>8, <1>9 DEF DoneInv

\* Every action keeps what "done" says; one step per action.
LEMMA NextDoneInv == DoneInv /\ [Next]_vars => DoneInv'
<1> SUFFICES ASSUME DoneInv, [Next]_vars
             PROVE  DoneInv'
  OBVIOUS
<1>0. IInv' /\ TInv /\ TInv' /\ TypeOK
  BY NextIInv DEF DoneInv, IInv, TInv
<1>1. ASSUME NEW b \in Batches, InsertBatch(b)
      PROVE  DoneInv'
  <2>1. upload[b] = NoUpload /\ status[b] = "absent" /\ status' = [status EXCEPT ![b] = "pending"]
    BY <1>0, <1>1 DEF InsertBatch, TInv, RequestsMatch
  <2>2. UNCHANGED <<detail, posted, recorded, pc, job, plan>>
    BY <1>1 DEF InsertBatch, workerVars
  <2>3. Growing
    <3>1. \A c \in Batches : upload[c] \in Uploads => upload'[c] = upload[c]
      BY <1>0, <1>1, <2>1, NoUploadNotUploads DEF InsertBatch, TypeOK
    <3>2. \A c \in Batches, i \in Rows : detail[c][i] <= detail'[c][i]
      BY <1>0, <2>2 DEF TypeOK, Bags
    <3>3. QED
      BY <3>1, <3>2 DEF Growing
  <2>4. NoneDeleted' => NoneDeleted
    BY <1>0, <2>1 DEF NoneDeleted, TypeOK
  <2>5. \A c \in Batches : status'[c] = "done" => status[c] = "done"
    BY <1>0, <2>1 DEF TypeOK
  <2>6. CoverInv'
    BY <1>0, <2>2, <2>3, <2>4, <2>5, StepCovers DEF DoneInv
  <2>7. \A w \in Workers : pc'[w] = "finish" =>
            /\ pc[w] = "finish" /\ job'[w] = job[w] /\ plan'[w] = plan[w]
            /\ Exists(job[w].batch)' => Exists(job[w].batch)
    <3> SUFFICES ASSUME NEW w \in Workers, pc[w] = "finish"
                 PROVE  Exists(job[w].batch)' => Exists(job[w].batch)
      BY <2>2
    <3>1. PICK c \in Batches : c = job[w].batch /\ c = job'[w].batch /\ upload[c] \in Uploads
      BY <1>0, <2>2 DEF TInv, JobsUploaded, LiveJobs, Jobs
    <3>2. c # b
      BY <2>1, <3>1, NoUploadNotUploads
    <3>3. status'[c] = status[c]
      BY <1>0, <2>1, <3>2 DEF TypeOK
    <3>4. QED
      BY <3>1, <3>3 DEF Exists
  <2>8. QED
    BY <1>0, <2>2, <2>5, <2>6, <2>7, StepCounts DEF DoneInv
<1>2. ASSUME NEW b \in Batches, QueueParse(b) \/ LoseRequest(b) \/ RequestRollback(b)
      PROVE  DoneInv'
  BY <1>0, <1>2, QuietKeepsDone
     DEF QueueParse, LoseRequest, RequestRollback, batchVars, workerVars, Exists, NoneDeleted
<1>3. ASSUME NEW w \in Workers, TakeJob(w)
      PROVE  DoneInv'
  BY <1>0, <1>3, QuietKeepsDone DEF TakeJob, batchVars, Exists, NoneDeleted, TypeOK
<1>4. ASSUME NEW w \in Workers,
             Crash(w) \/ LockExpires(w) \/ Fault(w) \/ AbandonJob(w) \/ Acknowledge(w)
      PROVE  DoneInv'
  BY <1>0, <1>4, QuietKeepsDone
     DEF Crash, LockExpires, Fault, AbandonJob, Acknowledge, batchVars, workerVars,
         Exists, NoneDeleted, TypeOK
<1>5. ASSUME NEW j \in expired, CheckStalled(j)
      PROVE  DoneInv'
  BY <1>0, <1>5, QuietKeepsDone DEF CheckStalled, batchVars, workerVars, Exists, NoneDeleted
<1>6. ASSUME NEW w \in Workers, MarkProcessing(w) \/ MarkFailed(w)
      PROVE  DoneInv'
  <2>1. job[w].batch \in Batches
    BY <1>0, <1>6 DEF MarkProcessing, MarkFailed, TInv, JobsUploaded, LiveJobs, Jobs
  <2>2. \A c \in Batches : Exists(c)' <=> Exists(c)
    BY <1>0, <1>6, <2>1, SetStatusKeeps DEF MarkProcessing, MarkFailed
  <2>3. \A c \in Batches : status'[c] = "done" => status[c] = "done"
    BY <1>0, <1>6, <2>1 DEF MarkProcessing, MarkFailed, SetStatus, TypeOK
  <2>4. NoneDeleted' => NoneDeleted
    BY <1>0, <1>6, <2>1 DEF MarkProcessing, MarkFailed, SetStatus, Exists, NoneDeleted, TypeOK
  <2>5. UNCHANGED <<upload, detail, posted, recorded, job, plan>>
    BY <1>6 DEF MarkProcessing, MarkFailed
  <2>6. \A v \in Workers : pc'[v] \in {"insert", "commit", "finish"} => pc'[v] = pc[v]
    BY <1>0, <1>6 DEF MarkProcessing, MarkFailed, TypeOK
  <2>7. QED
    BY <1>0, <2>2, <2>3, <2>4, <2>5, <2>6, QuietKeepsDone
<1>7. ASSUME NEW w \in Workers, Preload(w)
      PROVE  DoneInv'
  <2>1. PICK b \in Batches : b = job[w].batch /\ upload[b] \in Uploads
    BY <1>0, <1>7 DEF Preload, TInv, JobsUploaded, LiveJobs, Jobs
  <2>2. /\ UNCHANGED <<status, upload, detail, posted, recorded, job>>
        /\ pc[w] = "read" /\ pc' = [pc EXCEPT ![w] = "insert"]
        /\ \A v \in Workers \ {w} : plan'[v] = plan[v]
    BY <1>0, <1>7 DEF Preload, batchVars, TypeOK
  <2>3. upload[b].file.header => plan'[w] = ToInsert(upload, detail, upload[b])
    BY <1>0, <1>7, <2>1 DEF Preload, TypeOK
  <2>4. Growing
    BY <1>0, <2>2 DEF Growing, TypeOK, Bags
  <2>5. Covering(w)'
    <3>1. PICK p : p = ToInsert(upload, detail, upload[b])
      OBVIOUS
    <3>2. Enough(b, p)
      BY <1>0, <2>1, <3>1, PlanIsEnough
    <3>3. Enough(b, p)'
      BY <2>2, <3>2 DEF Enough
    <3>4. pc'[w] = "insert" /\ job'[w].batch = b /\ (upload'[b].file.header => plan'[w] = p)
      BY <1>0, <2>1, <2>2, <2>3, <3>1 DEF TypeOK
    <3>5. QED
      BY <3>3, <3>4 DEF Covering
  <2>6. \A v \in Workers : pc'[v] \in {"insert", "commit", "finish"} =>
            \/ pc'[v] = pc[v] /\ job'[v] = job[v] /\ plan'[v] = plan[v]
            \/ NoneDeleted => Covering(v)'
    BY <1>0, <2>2, <2>5 DEF TypeOK
  <2>7. CoverInv'
    BY <1>0, <2>2, <2>4, <2>6, StepCovers DEF DoneInv, NoneDeleted
  <2>8. \A v \in Workers : pc'[v] = "finish" =>
            /\ pc[v] = "finish" /\ job'[v] = job[v] /\ plan'[v] = plan[v]
            /\ Exists(job[v].batch)' => Exists(job[v].batch)
    BY <1>0, <2>2 DEF TypeOK, Exists
  <2>9. QED
    BY <1>0, <2>2, <2>7, <2>8, StepCounts DEF DoneInv
<1>8. ASSUME NEW w \in Workers, InsertDetails(w)
      PROVE  DoneInv'
  <2>1. PICK b : b = job[w].batch
    OBVIOUS
  <2>2. /\ UNCHANGED <<status, upload, detail, posted, recorded, job, plan>>
        /\ pc[w] = "insert"
        /\ pc' = [pc EXCEPT ![w] = IF upload[b].file.header /\ (plan[w] = NoRows \/ Exists(b))
                                   THEN "commit" ELSE "fail"]
    BY <1>8, <2>1 DEF InsertDetails, batchVars
  <2>3. Growing
    BY <1>0, <2>2 DEF Growing, TypeOK, Bags
  <2>4. NoneDeleted => Covering(w)'
    <3> SUFFICES ASSUME NoneDeleted, pc'[w] = "commit"
                 PROVE  Covering(w)'
      BY <1>0, <2>2 DEF Covering, TypeOK
    <3>1. Covering(w) /\ upload[b].file.header
      BY <1>0, <2>2 DEF DoneInv, CoverInv, TypeOK
    <3>2. Enough(b, plan[w])
      BY <2>1, <2>2, <3>1 DEF Covering
    <3>3. PICK p : p = plan[w] /\ p = plan'[w]
      BY <2>2
    <3>4. Enough(b, p)'
      BY <2>2, <3>2, <3>3 DEF Enough
    <3>5. QED
      BY <2>1, <2>2, <3>3, <3>4 DEF Covering
  <2>5. \A v \in Workers : pc'[v] \in {"insert", "commit", "finish"} =>
            \/ pc'[v] = pc[v] /\ job'[v] = job[v] /\ plan'[v] = plan[v]
            \/ NoneDeleted => Covering(v)'
    BY <1>0, <2>2, <2>4 DEF TypeOK
  <2>6. CoverInv'
    BY <1>0, <2>2, <2>3, <2>5, StepCovers DEF DoneInv, NoneDeleted
  <2>7. \A v \in Workers : pc'[v] = "finish" =>
            /\ pc[v] = "finish" /\ job'[v] = job[v] /\ plan'[v] = plan[v]
            /\ Exists(job[v].batch)' => Exists(job[v].batch)
    BY <1>0, <2>2 DEF TypeOK, Exists
  <2>8. QED
    BY <1>0, <2>2, <2>6, <2>7, StepCounts DEF DoneInv
<1>9. ASSUME NEW w \in Workers, Commit(w) \/ MarkDone(w) \/ DeleteImport(w)
      PROVE  DoneInv'
  BY <1>0, <1>9, CommitKeepsDone, MarkDoneKeepsDone, DeleteKeepsDone
<1>10. CASE UNCHANGED vars
  BY <1>0, <1>10, QuietKeepsDone DEF vars, Exists, NoneDeleted
<1>11. QED
  BY <1>1, <1>2, <1>3, <1>4, <1>5, <1>6, <1>7, <1>8, <1>9, <1>10
     DEF Next, RequestStep, WorkerStep, HazardStep

\* "Done" is true, for any number of workers, crashes and stalls: while nothing of
\* the period is rolled back, a done batch's rows are all in its table, whichever
\* batch holds them, and a batch posted once shows the totals of the rows it holds.
THEOREM DoneMeansDone == Spec => []DoneIsTrue
<1>1. DoneInv => DoneIsCovered
  <2> SUFFICES ASSUME DoneInv, NoneDeleted, NEW b \in Batches, status[b] = "done", NEW i \in Rows
               PROVE  Held(upload, detail, upload[b], i) >= Promised(upload[b], i)
    BY DEF DoneIsCovered, NoneDeleted
  <2>1. PICK u \in Uploads : u = upload[b]
    BY DEF DoneInv, IInv, TInv, TypeOK, RequestsMatch
  <2>2. Held(upload, detail, u, i) + 0 >= Promised(u, i)
    BY <2>1 DEF DoneInv, CoverInv, Enough, NoRows
  <2>3. PICK S, det : S = Table(u) /\ det = detail
    OBVIOUS
  <2>4. Copies(det, S, i) \in Nat
    BY <2>3, RowSetFinite DEF Table, Uploaded, DoneInv, IInv, TInv, TypeOK
  <2>5. Held(upload, detail, u, i) \in Nat
    BY <2>3, <2>4 DEF Held, Table
  <2>6. QED
    BY <2>1, <2>2, <2>5
<1>2. DoneInv => TotalsMatchRows
  BY DEF DoneInv, Counted, TotalsMatchRows
<1>3. DoneInv => DoneIsTrue
  BY <1>1, <1>2 DEF DoneIsTrue
<1>4. QED
  BY <1>3, InitDoneInv, NextDoneInv, PTL DEF Spec
-----------------------------------------------------------------------------
(***************************************************************************)
(* One worker: nobody posts or deletes between the moment a transaction    *)
(* reads which rows the period holds and its commit, so its plan is what   *)
(* the file adds to the tables as they are when it commits.  (Of two       *)
(* workers each may miss what the other is about to commit.)               *)
(***************************************************************************)

\* One service instance, whose BullMQ concurrency is one.
OneWorker == \A v, w \in Workers : v = w

\* What a parse of upload u inserts into the tables as they are.
FreshPlan(up, det, u) == IF u.file.header THEN ToInsert(up, det, u) ELSE NoRows

PlansFresh ==
    \A w \in Workers :
        LET u == upload[job[w].batch] IN
        /\ pc[w] \in {"insert", "commit"} => plan[w] = FreshPlan(upload, detail, u)
        /\ pc[w] = "commit" => u.file.header

SerialInv == IInv /\ PlansFresh

\* A batch that was just created changes no plan: it holds no rows.
LEMMA NewBatchHoldsNone ==
    ASSUME TypeOK, NEW b \in Batches, upload[b] = NoUpload, detail[b] = NoRows,
           NEW v \in Uploads, upload' = [upload EXCEPT ![b] = v], UNCHANGED detail,
           NEW u \in Uploads
    PROVE  FreshPlan(upload', detail', u) = FreshPlan(upload, detail, u)
<1>1. PICK det, up, up2 : det = detail /\ up = upload /\ up2 = upload'
  OBVIOUS
<1>2. \A c \in Batches : up2[c] = IF c = b THEN v ELSE up[c]
  BY <1>1 DEF TypeOK
<1>3. up[b] = NoUpload
  BY <1>1
<1>4. ASSUME NEW i \in Rows
      PROVE  Held(up2, det, u, i) = Held(up, det, u, i)
  <2>1. PICK S : S = {c \in Uploaded(up) : SameTable(u, up[c])}
    OBVIOUS
  <2>2. PICK T : T = {c \in Uploaded(up2) : SameTable(u, up2[c])}
    OBVIOUS
  <2>3. S \ T = {} /\ T \ S \subseteq {b}
    BY <1>2, <1>3, <2>1, <2>2 DEF Uploaded
  <2>4. det[b][i] = 0
    BY <1>1 DEF NoRows
  <2>5. Copies(det, S, i) = Copies(det, T, i)
    BY <2>3, <2>4, CopiesSame
  <2>6. QED
    BY <2>1, <2>2, <2>5 DEF Held
<1>5. ToInsert(up2, det, u) = ToInsert(up, det, u)
  BY <1>4 DEF ToInsert
<1>6. QED
  BY <1>1, <1>5 DEF FreshPlan

\* A step that leaves rows and uploads alone and brings nobody to its inserts.
LEMMA QuietKeepsPlans ==
    ASSUME PlansFresh, UNCHANGED <<upload, detail>>,
           \A w \in Workers : pc'[w] \in {"insert", "commit"} =>
               pc'[w] = pc[w] /\ job'[w] = job[w] /\ plan'[w] = plan[w]
    PROVE  PlansFresh'
<1> SUFFICES ASSUME NEW w \in Workers, pc'[w] \in {"insert", "commit"}
             PROVE  /\ plan'[w] = FreshPlan(upload', detail', upload'[job'[w].batch])
                    /\ pc'[w] = "commit" => upload'[job'[w].batch].file.header
  BY DEF PlansFresh
<1>1. PICK u : u = upload[job[w].batch] /\ u = upload'[job'[w].batch]
  OBVIOUS
<1>2. plan[w] = FreshPlan(upload, detail, u) /\ (pc[w] = "commit" => u.file.header)
  BY <1>1 DEF PlansFresh
<1>3. QED
  BY <1>1, <1>2

\* At the start nobody has a plan.
LEMMA InitSerialInv == Init => SerialInv
BY InitIInv DEF Init, SerialInv, PlansFresh

\* Every action of the only worker keeps its plan fresh.
LEMMA NextSerialInv ==
    ASSUME OneWorker
    PROVE  SerialInv /\ [Next]_vars => SerialInv'
<1> SUFFICES ASSUME SerialInv, [Next]_vars
             PROVE  SerialInv'
  OBVIOUS
<1>0. IInv' /\ TInv /\ TInv' /\ TypeOK /\ PlansFresh
  BY NextIInv DEF SerialInv, IInv, TInv
<1> SUFFICES PlansFresh'
  BY <1>0 DEF SerialInv
<1>1. ASSUME NEW b \in Batches, InsertBatch(b)
      PROVE  PlansFresh'
  <2>1. upload[b] = NoUpload /\ detail[b] = NoRows
    BY <1>0, <1>1 DEF InsertBatch, TInv, RequestsMatch, SerialInv, IInv, NoOrphanRows, Exists
  <2>2. PICK v \in Uploads : upload' = [upload EXCEPT ![b] = v]
    BY <1>1 DEF InsertBatch, Requests
  <2>3. UNCHANGED <<detail, pc, job, plan>>
    BY <1>1 DEF InsertBatch, workerVars
  <2> SUFFICES ASSUME NEW w \in Workers, pc[w] \in {"insert", "commit"}
               PROVE  /\ plan[w] = FreshPlan(upload', detail', upload'[job'[w].batch])
                      /\ pc[w] = "commit" => upload'[job'[w].batch].file.header
    BY <2>3 DEF PlansFresh
  <2>4. PICK c \in Batches : c = job[w].batch /\ c = job'[w].batch /\ upload[c] \in Uploads
    BY <1>0, <2>3 DEF TInv, JobsUploaded, LiveJobs, Jobs
  <2>5. PICK u \in Uploads : u = upload[c] /\ u = upload'[c]
    BY <1>0, <2>1, <2>2, <2>4, NoUploadNotUploads DEF TypeOK
  <2>6. plan[w] = FreshPlan(upload, detail, u) /\ (pc[w] = "commit" => u.file.header)
    BY <1>0, <2>4, <2>5 DEF PlansFresh
  <2>7. FreshPlan(upload', detail', u) = FreshPlan(upload, detail, u)
    BY <1>0, <2>1, <2>2, <2>3, NewBatchHoldsNone
  <2>8. QED
    BY <2>4, <2>5, <2>6, <2>7
<1>2. ASSUME NEW b \in Batches, QueueParse(b) \/ LoseRequest(b) \/ RequestRollback(b)
      PROVE  PlansFresh'
  BY <1>0, <1>2, QuietKeepsPlans DEF QueueParse, LoseRequest, RequestRollback, batchVars, workerVars
<1>3. ASSUME NEW w \in Workers,
             \/ TakeJob(w) \/ Crash(w) \/ LockExpires(w) \/ Fault(w) \/ AbandonJob(w)
             \/ Acknowledge(w)
      PROVE  PlansFresh'
  BY <1>0, <1>3, QuietKeepsPlans
     DEF TakeJob, Crash, LockExpires, Fault, AbandonJob, Acknowledge, batchVars, workerVars, TypeOK
<1>4. ASSUME NEW j \in expired, CheckStalled(j)
      PROVE  PlansFresh'
  BY <1>0, <1>4, QuietKeepsPlans DEF CheckStalled, batchVars, workerVars
<1>5. ASSUME NEW w \in Workers, MarkProcessing(w) \/ MarkDone(w) \/ MarkFailed(w)
      PROVE  PlansFresh'
  BY <1>0, <1>5, QuietKeepsPlans DEF MarkProcessing, MarkDone, MarkFailed, TypeOK
<1>6. ASSUME NEW w \in Workers, Commit(w) \/ DeleteImport(w)
      PROVE  PlansFresh'
  <2>1. pc'[w] \in {"finish", "ack"}
    BY <1>0, <1>6 DEF Commit, DeleteImport, TypeOK
  <2>2. \A v \in Workers : pc'[v] \notin {"insert", "commit"}
    BY <2>1 DEF OneWorker
  <2>3. QED
    BY <2>2 DEF PlansFresh
<1>7. ASSUME NEW w \in Workers, Preload(w)
      PROVE  PlansFresh'
  <2>1. PICK u : u = upload[job[w].batch] /\ u = upload'[job'[w].batch]
    BY <1>7 DEF Preload, batchVars
  <2>2. pc'[w] = "insert" /\ plan'[w] = FreshPlan(upload, detail, u)
    BY <1>0, <1>7, <2>1 DEF Preload, FreshPlan, TypeOK
  <2>3. FreshPlan(upload', detail', u) = FreshPlan(upload, detail, u)
    BY <1>7 DEF Preload, batchVars
  <2>4. \A v \in Workers : v = w
    BY DEF OneWorker
  <2>5. plan'[w] = FreshPlan(upload', detail', upload'[job'[w].batch])
    BY <2>1, <2>2, <2>3
  <2>6. QED
    BY <2>2, <2>4, <2>5 DEF PlansFresh
<1>8. ASSUME NEW w \in Workers, InsertDetails(w)
      PROVE  PlansFresh'
  <2>1. PICK u : u = upload[job[w].batch] /\ u = upload'[job'[w].batch]
    BY <1>8 DEF InsertDetails, batchVars
  <2>2. UNCHANGED <<upload, detail, job, plan>> /\ pc[w] = "insert"
    BY <1>8 DEF InsertDetails, batchVars
  <2>3. pc'[w] # "insert" /\ (pc'[w] = "commit" => u.file.header)
    BY <1>0, <1>8, <2>1 DEF InsertDetails, TypeOK
  <2>4. plan'[w] = FreshPlan(upload, detail, u)
    BY <1>0, <2>1, <2>2 DEF PlansFresh
  <2>5. FreshPlan(upload', detail', u) = FreshPlan(upload, detail, u)
    BY <2>2
  <2>6. \A v \in Workers : v = w
    BY DEF OneWorker
  <2>7. plan'[w] = FreshPlan(upload', detail', upload'[job'[w].batch])
    BY <2>1, <2>4, <2>5
  <2>8. QED
    BY <2>1, <2>3, <2>6, <2>7 DEF PlansFresh
<1>9. CASE UNCHANGED vars
  BY <1>0, <1>9, QuietKeepsPlans DEF vars
<1>10. QED
  BY <1>1, <1>2, <1>3, <1>4, <1>5, <1>6, <1>7, <1>8, <1>9
     DEF Next, RequestStep, WorkerStep, HazardStep
-----------------------------------------------------------------------------
(* One worker: nothing is counted twice *)

\* Fewer rows than some pull saw at once were seen at once as well.
LEMMA FewerSeen ==
    ASSUME NEW n \in Nat, NEW m \in Nat, n <= m, NEW i \in Rows, SeenAtOnce(m, i), TypeOK
    PROVE  SeenAtOnce(n, i)
<1>1. CASE m = 0
  BY <1>1 DEF SeenAtOnce
<1>2. CASE m # 0
  <2>1. PICK b \in OfKind(upload, "portal") : m <= Sheet(upload[b])[i]
    BY <1>2 DEF SeenAtOnce
  <2>2. PICK u \in Uploads : u = upload[b]
    BY <2>1 DEF TypeOK, OfKind, Uploaded
  <2>3. Sheet(u)[i] \in Nat
    BY SheetType DEF Bags
  <2>4. n <= Sheet(upload[b])[i]
    BY <2>1, <2>2, <2>3
  <2>5. QED
    BY <2>1, <2>4 DEF SeenAtOnce
<1>3. QED
  BY <1>1, <1>2

\* The batches of one kind, and how many copies of a row they hold.
Kept(k, i) == Copies(detail, OfKind(upload, k), i)

\* They are a number, before a step and after it.
LEMMA KeptType ==
    ASSUME TypeOK, TypeOK', NEW k, NEW i \in Rows
    PROVE  Kept(k, i) \in Nat /\ Kept(k, i)' \in Nat
<1>1. OfKind(upload, k) \subseteq Batches /\ OfKind(upload', k) \subseteq Batches
  BY DEF OfKind, Uploaded
<1>2. Copies(detail, OfKind(upload, k), i) \in Nat
  BY <1>1, RowSetFinite DEF TypeOK
<1>3. Copies(detail', OfKind(upload', k), i) \in Nat
  BY <1>1, RowSetFinite DEF TypeOK
<1>4. QED
  BY <1>2, <1>3 DEF Kept

\* A step that adds no rows keeps the portal's and Grab's batches in bounds, if the
\* uploads stay as they are or gain a batch without rows.
LEMMA NoRowsNoDoubles ==
    ASSUME TypeOK, TypeOK', NeverDoubleCounts,
           \A c \in Batches, i \in Rows : detail'[c][i] <= detail[c][i],
           \A c \in Batches : upload'[c] = upload[c] \/ (upload[c] = NoUpload /\ detail'[c] = NoRows)
    PROVE  NeverDoubleCounts'
<1> SUFFICES ASSUME NEW i \in Rows
             PROVE  /\ SeenAtOnce(Kept("portal", i), i)'
                    /\ Kept("grab", i)' <= 1
  BY DEF NeverDoubleCounts, SeenAtOnce, Kept
<1>1. ASSUME NEW k PROVE Kept(k, i)' <= Kept(k, i)
  <2>1. PICK det, det2, S, T : /\ det = detail /\ det2 = detail'
                               /\ S = OfKind(upload, k) /\ T = OfKind(upload', k)
    OBVIOUS
  <2>2. /\ det \in [Batches -> Bags] /\ det2 \in [Batches -> Bags]
        /\ S \subseteq Batches /\ T \subseteq Batches /\ S \cap T \subseteq Batches
    BY <2>1 DEF TypeOK, OfKind, Uploaded
  <2>3. \A b \in S \cap T : b \in S /\ det2[b][i] <= det[b][i]
    BY <2>1, <2>2
  <2>4. Copies(det2, S \cap T, i) <= Copies(det, S, i)
    BY <2>2, <2>3, CopiesGrow
  <2>5. \A b \in T \ (S \cap T) : det2[b][i] = 0
    BY <2>1 DEF OfKind, Uploaded, NoRows
  <2>6. Copies(det2, T, i) = Copies(det2, S \cap T, i)
    BY <2>5, CopiesSame
  <2>7. Kept(k, i) = Copies(det, S, i)
    BY <2>1 DEF Kept
  <2>8. Kept(k, i)' = Copies(det2, T, i)
    BY <2>1 DEF Kept
  <2>9. QED
    BY <2>4, <2>6, <2>7, <2>8
<1>2. Kept("portal", i) \in Nat /\ Kept("portal", i)' \in Nat /\ Kept("grab", i) \in Nat /\ Kept("grab", i)' \in Nat
  BY KeptType
<1>3. Kept("grab", i)' <= 1
  BY <1>1, <1>2 DEF NeverDoubleCounts, Kept
<1>4. PICK n \in Nat : n = Kept("portal", i)'
  BY <1>2
<1>5. SeenAtOnce(n, i)
  BY <1>1, <1>2, <1>4, FewerSeen DEF NeverDoubleCounts, Kept
<1>6. \A b \in OfKind(upload, "portal") : b \in OfKind(upload', "portal") /\ upload'[b] = upload[b]
  BY DEF OfKind, Uploaded
<1>7. n = 0 \/ \E b \in OfKind(upload', "portal") : n <= Sheet(upload'[b])[i]
  BY <1>5, <1>6 DEF SeenAtOnce
<1>8. QED
  BY <1>3, <1>4, <1>7 DEF SeenAtOnce

\* The commit of the only worker: a pull adds what it saw more than the table holds,
\* a Grab file what the table lacks.
LEMMA CommitNoDoubles ==
    ASSUME SerialInv, TypeOK', NeverDoubleCounts, NEW w \in Workers, Commit(w)
    PROVE  NeverDoubleCounts'
<1>0. TInv /\ TypeOK /\ PlansFresh
  BY DEF SerialInv, IInv, TInv
<1>1. PICK b \in Batches : b = job[w].batch /\ upload[b] \in Uploads
  BY <1>0 DEF Commit, TInv, JobsUploaded, LiveJobs, Jobs
<1>2. PICK u \in Uploads : u = upload[b]
  BY <1>1
<1>3. PICK p \in Bags : p = plan[w]
  BY <1>0 DEF TypeOK
<1>4. p = ToInsert(upload, detail, u)
  BY <1>0, <1>1, <1>2, <1>3 DEF Commit, PlansFresh, FreshPlan
<1>5. detail' = [detail EXCEPT ![b] = Plus(@, p)] /\ UNCHANGED upload
  BY <1>1, <1>3 DEF Commit
<1>6. PICK det, det2 : det = detail /\ det2 = detail'
  OBVIOUS
<1>7. det \in [Batches -> Bags] /\ det2 \in [Batches -> Bags]
  BY <1>0, <1>6 DEF TypeOK
<1>8. \A c \in Batches : det2[c] = IF c = b THEN Plus(det[b], p) ELSE det[c]
  BY <1>5, <1>6, <1>7
<1> SUFFICES ASSUME NEW i \in Rows
             PROVE  /\ SeenAtOnce(Kept("portal", i), i)'
                    /\ Kept("grab", i)' <= 1
  BY DEF NeverDoubleCounts, SeenAtOnce, Kept
<1>9. /\ SeenAtOnce(Kept("portal", i), i)
      /\ Kept("grab", i) <= 1
      /\ Kept("portal", i) \in Nat /\ Kept("grab", i) \in Nat
  BY <1>0, KeptType DEF NeverDoubleCounts, Kept
<1>10. PICK want \in Nat : want = Sheet(u)[i]
  BY SheetType DEF Bags
<1>11. PICK have : have = Held(upload, detail, u, i)
  OBVIOUS
<1>12. /\ u.kind = "portal" => p[i] = NewCopies(want, have)
       /\ u.kind = "grab" => p[i] = IF want > 0 /\ have = 0 THEN 1 ELSE 0
  BY <1>4, <1>10, <1>11 DEF ToInsert
<1>13. p[i] \in Nat
  BY DEF Bags
<1>14. PICK P : P = OfKind(upload, "portal")
  OBVIOUS
<1>15. PICK G : G = OfKind(upload, "grab")
  OBVIOUS
<1>16. PICK T : T = Table(u)
  OBVIOUS
<1>17. P \subseteq Batches /\ G \subseteq Batches /\ T \subseteq Batches
  BY <1>14, <1>15, <1>16 DEF OfKind, Uploaded, Table
<1>18. b \in Uploaded(upload)
  BY <1>2, NoUploadNotUploads DEF Uploaded
<1>19. have = Copies(det, T, i) /\ have \in Nat
  BY <1>6, <1>7, <1>11, <1>16, <1>17, RowSetFinite DEF Held, Table
<1>20. /\ Kept("portal", i) = Copies(det, P, i) /\ Kept("portal", i)' = Copies(det2, P, i)
       /\ Kept("grab", i) = Copies(det, G, i) /\ Kept("grab", i)' = Copies(det2, G, i)
  BY <1>5, <1>6, <1>14, <1>15 DEF Kept
<1>21. Copies(det2, P, i) = IF u.kind = "portal" THEN Copies(det, P, i) + p[i] ELSE Copies(det, P, i)
  <2>1. CASE u.kind = "portal"
    <3>1. b \in P
      BY <1>2, <1>14, <1>18, <2>1 DEF OfKind
    <3>2. QED
      BY <1>7, <1>8, <1>17, <2>1, <3>1, CopiesAdded
  <2>2. CASE u.kind # "portal"
    <3>1. \A c \in P : det[c][i] = det2[c][i]
      BY <1>2, <1>8, <1>14, <1>17, <2>2 DEF OfKind
    <3>2. Copies(det, P, i) = Copies(det2, P, i)
      BY <3>1, CopiesSame
    <3>3. QED
      BY <2>2, <3>2
  <2>3. QED
    BY <2>1, <2>2
<1>22. Copies(det2, G, i) = IF u.kind = "grab" THEN Copies(det, G, i) + p[i] ELSE Copies(det, G, i)
  <2>1. CASE u.kind = "grab"
    <3>1. b \in G
      BY <1>2, <1>15, <1>18, <2>1 DEF OfKind
    <3>2. QED
      BY <1>7, <1>8, <1>17, <2>1, <3>1, CopiesAdded
  <2>2. CASE u.kind # "grab"
    <3>1. \A c \in G : det[c][i] = det2[c][i]
      BY <1>2, <1>8, <1>15, <1>17, <2>2 DEF OfKind
    <3>2. Copies(det, G, i) = Copies(det2, G, i)
      BY <3>1, CopiesSame
    <3>3. QED
      BY <2>2, <3>2
  <2>3. QED
    BY <2>1, <2>2
<1>23. Kept("grab", i)' <= 1
  <2>1. CASE u.kind = "grab"
    <3>1. \A c \in G : c \in T /\ det[c][i] <= det[c][i]
      <4>1. G \subseteq T
        BY <1>15, <1>16, <2>1 DEF OfKind, Table, SameTable
      <4>2. \A c \in G : det[c][i] \in Nat
        BY <1>7, <1>17 DEF Bags
      <4>3. QED
        BY <4>1, <4>2
    <3>2. Copies(det, G, i) <= have
      BY <1>7, <1>17, <1>19, <3>1, CopiesGrow
    <3>3. QED
      BY <1>9, <1>12, <1>19, <1>20, <1>22, <2>1, <3>2
  <2>2. CASE u.kind # "grab"
    BY <1>9, <1>20, <1>22, <2>2
  <2>3. QED
    BY <2>1, <2>2
<1>24. SeenAtOnce(Kept("portal", i)', i)
  <2>1. CASE u.kind = "portal" /\ want > have
    <3>1. \A c \in P : c \in T /\ det[c][i] <= det[c][i]
      <4>1. P \subseteq T
        BY <1>14, <1>16, <2>1 DEF OfKind, Table, SameTable
      <4>2. \A c \in P : det[c][i] \in Nat
        BY <1>7, <1>17 DEF Bags
      <4>3. QED
        BY <4>1, <4>2
    <3>2. Copies(det, P, i) <= have
      BY <1>7, <1>17, <1>19, <3>1, CopiesGrow
    <3>3. p[i] = want - have
      BY <1>12, <1>19, <2>1, NewCopiesValue
    <3>4. Kept("portal", i)' <= Sheet(upload[b])[i]
      BY <1>2, <1>9, <1>10, <1>19, <1>20, <1>21, <2>1, <3>2, <3>3
    <3>5. b \in OfKind(upload, "portal")
      BY <1>2, <1>18, <2>1 DEF OfKind
    <3>6. QED
      BY <3>4, <3>5 DEF SeenAtOnce
  <2>2. CASE u.kind = "portal" /\ ~(want > have)
    <3>1. p[i] = 0
      BY <1>12, <1>19, <2>2, NewCopiesValue
    <3>2. QED
      BY <1>9, <1>20, <1>21, <2>2, <3>1
  <2>3. CASE u.kind # "portal"
    BY <1>9, <1>20, <1>21, <2>3
  <2>4. QED
    BY <2>1, <2>2, <2>3
<1>25. QED
  <2>1. PICK n : n = Kept("portal", i)'
    OBVIOUS
  <2>2. SeenAtOnce(n, i)'
    BY <1>5, <1>24, <2>1 DEF SeenAtOnce
  <2>3. QED
    BY <1>23, <2>1, <2>2 DEF SeenAtOnce

\* With one worker, overlapping pulls never double-count a deposit, and Grab never
\* holds a row twice, whatever is redelivered or rolled back in between.
THEOREM NothingCountedTwice ==
    ASSUME OneWorker
    PROVE  Spec => []NeverDoubleCounts
<1>1. Init => NeverDoubleCounts
  <2> SUFFICES ASSUME Init, NEW i \in Rows
               PROVE  SeenAtOnce(Kept("portal", i), i) /\ Kept("grab", i) <= 1
    BY DEF NeverDoubleCounts, Kept
  <2>1. ASSUME NEW k PROVE Kept(k, i) = 0
    <3>1. RowSet(detail, OfKind(upload, k), i) = {}
      BY DEF Init, OfKind, Uploaded, RowSet
    <3>2. QED
      BY <3>1, FS_EmptySet DEF Kept, Copies
  <2>2. QED
    BY <2>1 DEF SeenAtOnce
<1>2. SerialInv /\ SerialInv' /\ NeverDoubleCounts /\ [Next]_vars => NeverDoubleCounts'
  <2> SUFFICES ASSUME SerialInv, SerialInv', NeverDoubleCounts, [Next]_vars
               PROVE  NeverDoubleCounts'
    OBVIOUS
  <2>0. TInv /\ TypeOK /\ TypeOK' /\ NoOrphanRows
    BY DEF SerialInv, IInv, TInv
  <2>1. ASSUME NEW w \in Workers, Commit(w) PROVE NeverDoubleCounts'
    BY <2>0, <2>1, CommitNoDoubles
  <2>2. ASSUME \A c \in Batches, i \in Rows : detail'[c][i] <= detail[c][i],
               \A c \in Batches : upload'[c] = upload[c] \/ (upload[c] = NoUpload /\ detail'[c] = NoRows)
        PROVE  NeverDoubleCounts'
    BY <2>0, <2>2, NoRowsNoDoubles
  <2>3. \A c \in Batches, i \in Rows : detail[c][i] \in Nat /\ NoRows[i] = 0
    BY <2>0 DEF TypeOK, Bags, NoRows
  <2>4. ASSUME UNCHANGED <<upload, detail>> PROVE NeverDoubleCounts'
    BY <2>2, <2>3, <2>4
  <2>5. ASSUME NEW b \in Batches, InsertBatch(b) PROVE NeverDoubleCounts'
    <3>1. upload[b] = NoUpload /\ detail[b] = NoRows /\ UNCHANGED detail
      BY <2>0, <2>5 DEF InsertBatch, TInv, RequestsMatch, NoOrphanRows, Exists
    <3>2. \A c \in Batches \ {b} : upload'[c] = upload[c]
      BY <2>0, <2>5 DEF InsertBatch, TypeOK
    <3>3. QED
      BY <2>2, <2>3, <3>1, <3>2
  <2>6. ASSUME NEW w \in Workers, DeleteImport(w) PROVE NeverDoubleCounts'
    <3>1. UNCHANGED upload /\ detail' \in {detail, [detail EXCEPT ![job[w].batch] = NoRows]}
      BY <2>6 DEF DeleteImport
    <3>2. \A c \in Batches : detail'[c] = detail[c] \/ detail'[c] = NoRows
      BY <2>0, <3>1 DEF TypeOK
    <3>3. QED
      BY <2>2, <2>3, <3>1, <3>2
  <2>7. QED
    BY <2>1, <2>4, <2>5, <2>6
       DEF Next, RequestStep, WorkerStep, HazardStep, QueueParse, LoseRequest, RequestRollback,
           TakeJob, Crash, LockExpires, CheckStalled, MarkProcessing, Preload, InsertDetails,
           MarkDone, Fault, MarkFailed, AbandonJob, Acknowledge, batchVars, vars
<1>3. SerialInv /\ [Next]_vars => SerialInv'
  BY NextSerialInv
<1>4. QED
  BY <1>1, <1>2, <1>3, InitSerialInv, PTL DEF Spec
-----------------------------------------------------------------------------
(***************************************************************************)
(* How often a file is posted.  BullMQ puts a job whose worker was lost    *)
(* back once, so that a file is posted twice at most, by any number of     *)
(* workers; and when no worker is ever lost, once.                         *)
(***************************************************************************)

\* No worker dies or loses a lock.
NobodyLost == Budget["crash"] = 0 /\ Budget["stall"] = 0

\* The parse job of a batch as it was queued, and as it was put back.
First(b) == [name |-> "parse", batch |-> b, stalled |-> FALSE]
Again(b) == [name |-> "parse", batch |-> b, stalled |-> TRUE]

In(q, j)    == \E n \in 1..Len(q) : q[n] = j
Once(q, j)  == \A n, k \in 1..Len(q) : q[n] = j /\ q[k] = j => n = k
Runs(w, j)  == pc[w] # "idle" /\ job[w] = j
Holds(w, j) == Runs(w, j) /\ w \notin lockless
Posting(w)  == pc[w] \in {"mark", "read", "insert", "commit"}
Nowhere(j)  == ~In(queue, j) /\ \A w \in Workers : ~Runs(w, j)

\* Only a parse posts.
ParsesPost == \A w \in Workers : Posting(w) => job[w].name = "parse"

\* A parse job is in one place: in the queue once, or with one worker.
JobsUnique(b) ==
    \A j \in {First(b), Again(b)} :
        /\ Once(queue, j)
        /\ In(queue, j) => \A w \in Workers : ~Runs(w, j)
        /\ \A v, w \in Workers : Runs(v, j) /\ Runs(w, j) => v = w

\* The job waits, or the worker that runs it still has its lock.
FirstAlive(b) == In(queue, First(b)) \/ \E w \in Workers : Holds(w, First(b))

\* A job is put back after it was lost, and no other time.
AgainAfterFirst(b) ==
    /\ FirstAlive(b) => First(b) \notin expired
    /\ FirstAlive(b) \/ First(b) \in expired => Nowhere(Again(b))
    /\ request[b] # "queued" => /\ Nowhere(First(b)) /\ First(b) \notin expired
                                /\ Nowhere(Again(b)) /\ posted[b] = 0

\* The job as queued, or the job as put back, may still post the file.
FirstDue(b) == In(queue, First(b)) \/ \E w \in Workers : Runs(w, First(b)) /\ Posting(w)
AgainDue(b) == \/ FirstAlive(b) \/ First(b) \in expired \/ In(queue, Again(b))
               \/ \E w \in Workers : Runs(w, Again(b)) /\ Posting(w)

\* A file posted once may be posted once more, by one of the two.
PostsLeft(b) ==
    /\ posted[b] <= 2
    /\ FirstDue(b) \/ AgainDue(b) => posted[b] <= 1
    /\ FirstDue(b) /\ AgainDue(b) => posted[b] = 0

\* When nobody is lost, nothing is put back.
NothingAgain(b) ==
    NobodyLost => /\ Nowhere(Again(b)) /\ posted[b] <= 1
                  /\ FirstDue(b) => posted[b] = 0
NoLosses ==
    NobodyLost => expired = {} /\ lockless = {} /\ budget["crash"] = 0 /\ budget["stall"] = 0

PostsOf(b) == JobsUnique(b) /\ AgainAfterFirst(b) /\ PostsLeft(b) /\ NothingAgain(b)

OnceInv == TInv /\ ParsesPost /\ NoLosses /\ \A b \in Batches : PostsOf(b)

\* A file is posted twice at most.
PostedTwiceAtMost == \A b \in Batches : posted[b] <= 2

\* What a queue holds when a job is added at its end.
LEMMA InAppend ==
    ASSUME NEW S, NEW q \in Seq(S), NEW e \in S, NEW j
    PROVE  /\ In(Append(q, e), j) <=> In(q, j) \/ j = e
           /\ Once(q, j) /\ (j = e => ~In(q, j)) => Once(Append(q, e), j)
<1>1. /\ Len(Append(q, e)) = Len(q) + 1
      /\ \A i \in 1..Len(q) : Append(q, e)[i] = q[i]
      /\ Append(q, e)[Len(q) + 1] = e
  BY AppendProperties
<1>2. Len(q) \in Nat
  BY LenProperties
<1>3. 1..(Len(q) + 1) = 1..Len(q) \cup {Len(q) + 1}
  BY <1>2
<1>4. PICK p : p = Append(q, e)
  OBVIOUS
<1>5. \A i \in 1..Len(p) : p[i] = IF i = Len(q) + 1 THEN e ELSE q[i]
  BY <1>1, <1>3, <1>4
<1> QED
  BY <1>1, <1>2, <1>3, <1>4, <1>5 DEF In, Once

\* The same in front of a queue.
LEMMA InFront ==
    ASSUME NEW S, NEW q \in Seq(S), NEW e \in S, NEW j
    PROVE  /\ In(<<e>> \o q, j) <=> In(q, j) \/ j = e
           /\ Once(q, j) /\ (j = e => ~In(q, j)) => Once(<<e>> \o q, j)
<1>1. PICK p : p = <<e>> \o q
  OBVIOUS
<1>2. <<e>> \in Seq(S) /\ Len(<<e>>) = 1 /\ <<e>>[1] = e
  OBVIOUS
<1>3. /\ Len(p) = 1 + Len(q)
      /\ \A i \in 1..(1 + Len(q)) : p[i] = IF i <= 1 THEN <<e>>[i] ELSE q[i - 1]
  BY <1>1, <1>2, ConcatProperties
<1>4. Len(q) \in Nat
  BY LenProperties
<1>5. \A i \in 1..Len(q) : i + 1 \in 1..Len(p) /\ p[i + 1] = q[i]
  BY <1>3, <1>4
<1>6. \A i \in 1..Len(p) : (i = 1 /\ p[i] = e) \/ (i > 1 /\ i - 1 \in 1..Len(q) /\ p[i] = q[i - 1])
  BY <1>2, <1>3, <1>4
<1>7. 1 \in 1..Len(p) /\ p[1] = e
  BY <1>2, <1>3, <1>4
<1>8. In(p, j) <=> In(q, j) \/ j = e
  BY <1>5, <1>6, <1>7 DEF In
<1>9. ASSUME Once(q, j), j = e => ~In(q, j) PROVE Once(p, j)
  <2>1. SUFFICES ASSUME NEW n \in 1..Len(p), NEW k \in 1..Len(p), p[n] = j, p[k] = j PROVE n = k
    BY DEF Once
  <2>2. CASE j = e
    BY <1>6, <1>9, <2>1, <2>2 DEF In
  <2>3. CASE j # e
    <3>1. n - 1 \in 1..Len(q) /\ q[n - 1] = j /\ k - 1 \in 1..Len(q) /\ q[k - 1] = j
      BY <1>6, <2>1, <2>3
    <3>2. n - 1 = k - 1
      BY <1>9, <3>1 DEF Once
    <3> QED
      BY <1>3, <1>4, <3>2
  <2> QED
    BY <2>2, <2>3
<1> QED
  BY <1>1, <1>8, <1>9

\* What is left when its head is taken.
LEMMA InTail ==
    ASSUME NEW S, NEW q \in Seq(S), q # <<>>, NEW j
    PROVE  /\ In(q, Head(q))
           /\ In(Tail(q), j) => In(q, j)
           /\ Once(q, j) => Once(Tail(q), j)
           /\ Once(q, Head(q)) => ~In(Tail(q), Head(q))
<1>1. PICK p : p = Tail(q)
  OBVIOUS
<1>2. Len(p) = Len(q) - 1 /\ \A i \in 1..Len(p) : p[i] = q[i + 1]
  BY <1>1, HeadTailProperties
<1>3. Len(q) \in Nat \ {0}
  BY EmptySeq
<1>4. Head(q) = q[1] /\ 1 \in 1..Len(q)
  BY <1>3
<1>5. \A i \in 1..Len(p) : i + 1 \in 1..Len(q) /\ i + 1 # 1 /\ i \in Int
  BY <1>2, <1>3
<1>6. In(q, Head(q))
  BY <1>4 DEF In
<1>7. In(p, j) => In(q, j)
  BY <1>2, <1>5 DEF In
<1>8. ASSUME Once(q, j) PROVE Once(p, j)
  <2>1. SUFFICES ASSUME NEW n \in 1..Len(p), NEW k \in 1..Len(p), p[n] = j, p[k] = j PROVE n = k
    BY DEF Once
  <2>2. n + 1 = k + 1
    BY <1>2, <1>5, <1>8, <2>1 DEF Once
  <2> QED
    BY <1>5, <2>2
<1>9. Once(q, Head(q)) => ~In(p, Head(q))
  BY <1>2, <1>4, <1>5 DEF Once, In
<1> QED
  BY <1>1, <1>6, <1>7, <1>8, <1>9

\* At the start nothing is queued or posted.
LEMMA OnceInvInit == Init => OnceInv
<1> SUFFICES ASSUME Init PROVE OnceInv
  OBVIOUS
<1>1. Len(queue) = 0 /\ expired = {} /\ lockless = {} /\ \A w \in Workers : pc[w] = "idle"
  BY DEF Init
<1>2. \A b \in Batches : posted[b] = 0
  BY DEF Init
<1>3. \A j : ~In(queue, j) /\ Once(queue, j) /\ Nowhere(j)
  BY <1>1 DEF In, Once, Nowhere, Runs
<1>4. NoLosses
  BY <1>1 DEF Init, NobodyLost, NoLosses
<1>5. ASSUME NEW b \in Batches PROVE PostsOf(b)
  BY <1>1, <1>2, <1>3 DEF PostsOf, JobsUnique, AgainAfterFirst, FirstAlive, Holds, Runs,
         PostsLeft, NothingAgain, Nowhere, FirstDue, AgainDue
<1> QED
  BY <1>1, <1>4, <1>5, InitTInv DEF OnceInv, ParsesPost, Posting

\* A step after which no job of the batch is anywhere it was not before.
NothingNew(b) ==
    /\ \A j \in {First(b), Again(b)} :
           /\ In(queue', j) => In(queue, j)
           /\ Once(queue, j) => Once(queue', j)
           /\ \A w \in Workers : /\ Runs(w, j)' => Runs(w, j)
                                 /\ Holds(w, j)' => Holds(w, j)
                                 /\ Runs(w, j)' /\ Posting(w)' => Posting(w)
    /\ First(b) \in expired' => First(b) \in expired
    /\ posted'[b] \in {posted[b], 0}
    /\ request'[b] # "queued" => request[b] # "queued"

\* Such a step leaves the posts of the batch in order.
LEMMA PostsStay ==
    ASSUME OnceInv, NEW b \in Batches, NothingNew(b)
    PROVE  PostsOf(b)'
<1>1. PostsOf(b) /\ posted[b] \in Nat
  BY DEF OnceInv, TInv, TypeOK
<1>2. \A j \in {First(b), Again(b)} : Nowhere(j) => Nowhere(j)'
  BY DEF NothingNew, Nowhere
<1>3. FirstAlive(b)' => FirstAlive(b)
  BY DEF NothingNew, FirstAlive
<1>4. FirstDue(b)' => FirstDue(b)
  BY DEF NothingNew, FirstDue
<1>5. AgainDue(b)' => AgainDue(b)
  BY <1>3 DEF NothingNew, AgainDue
<1>6. JobsUnique(b)'
  BY <1>1 DEF NothingNew, PostsOf, JobsUnique
<1>7. AgainAfterFirst(b)'
  BY <1>1, <1>2, <1>3 DEF NothingNew, PostsOf, AgainAfterFirst
<1>8. PostsLeft(b)'
  BY <1>1, <1>4, <1>5 DEF NothingNew, PostsOf, PostsLeft
<1>9. NothingAgain(b)'
  BY <1>1, <1>2, <1>4 DEF NothingNew, PostsOf, NothingAgain, NobodyLost
<1> QED
  BY <1>6, <1>7, <1>8, <1>9 DEF PostsOf

\* A step of a request or of the processor, short of a commit: nobody takes,
\* returns or loses a job.
LEMMA WorkGoesOn ==
    ASSUME OnceInv, TInv',
           UNCHANGED <<queue, expired, lockless, job>>,
           \A w \in Workers : pc'[w] # "idle" => pc[w] # "idle",
           \A w \in Workers : Posting(w)' => Posting(w),
           \A b \in Batches : posted'[b] \in {posted[b], 0},
           \A b \in Batches : request'[b] # "queued" => request[b] # "queued",
           budget'["crash"] = budget["crash"] /\ budget'["stall"] = budget["stall"]
    PROVE  OnceInv'
<1>1. ASSUME NEW b \in Batches PROVE PostsOf(b)'
  <2>1. NothingNew(b)
    BY DEF NothingNew, Runs, Holds
  <2> QED
    BY <2>1, PostsStay
<1>2. ParsesPost' /\ NoLosses'
  BY DEF OnceInv, ParsesPost, NoLosses, NobodyLost
<1> QED
  BY <1>1, <1>2 DEF OnceInv

\* Jobs of different batches, or put back and not, are different.
LEMMA JobsDiffer ==
    /\ \A b, c : First(b) # Again(c)
    /\ \A b, c : (First(b) = First(c) => b = c) /\ (Again(b) = Again(c) => b = c)
    /\ \A j \in Jobs : j.name = "parse" => j \in {First(j.batch), Again(j.batch)}
    /\ \A b \in Batches : First(b) \in Jobs /\ Again(b) \in Jobs
<1>1. \A b, c : First(b) # Again(c)
  <2> SUFFICES ASSUME NEW b, NEW c, First(b) = Again(c) PROVE FALSE
    OBVIOUS
  <2>1. First(b).stalled = FALSE /\ Again(c).stalled = TRUE
    BY DEF First, Again
  <2> QED
    BY <2>1
<1>2. \A b, c : (First(b) = First(c) => b = c) /\ (Again(b) = Again(c) => b = c)
  <2>1. \A b : First(b).batch = b /\ Again(b).batch = b
    BY DEF First, Again
  <2> QED
    BY <2>1
<1>3. ASSUME NEW j \in Jobs, j.name = "parse" PROVE j \in {First(j.batch), Again(j.batch)}
  BY <1>3 DEF Jobs, First, Again
<1>4. \A b \in Batches : First(b) \in Jobs /\ Again(b) \in Jobs
  BY DEF Jobs, First, Again
<1> QED
  BY <1>1, <1>2, <1>3, <1>4

\* A queued request brings the first job of its batch.
LEMMA QueueParseOnce ==
    ASSUME OnceInv, NEW b \in Batches, QueueParse(b)
    PROVE  \A c \in Batches : PostsOf(c)'
<1>0. /\ queue \in Seq(Jobs) /\ First(b) \in Jobs /\ PostsOf(b)
      /\ request \in [Batches -> {"none", "inserted", "queued", "lost"}]
  BY JobsDiffer DEF OnceInv, TInv, TypeOK
<1>1. /\ queue' = Append(queue, First(b)) /\ request[b] = "inserted"
      /\ request' = [request EXCEPT ![b] = "queued"]
      /\ UNCHANGED <<expired, lockless, pc, job, posted>>
  BY DEF QueueParse, workerVars, First
<1>2. \A j : /\ In(queue', j) <=> In(queue, j) \/ j = First(b)
             /\ Once(queue, j) /\ (j = First(b) => ~In(queue, j)) => Once(queue', j)
  BY <1>0, <1>1, InAppend
<1>3. /\ Nowhere(First(b)) /\ First(b) \notin expired /\ Nowhere(Again(b)) /\ posted[b] = 0
      /\ request'[b] = "queued"
  BY <1>0, <1>1 DEF PostsOf, AgainAfterFirst
<1>4. \A w \in Workers : \A j : (Runs(w, j)' <=> Runs(w, j)) /\ (Holds(w, j)' <=> Holds(w, j))
  BY <1>1 DEF Runs, Holds
<1>5. ASSUME NEW c \in Batches, c # b PROVE PostsOf(c)'
  <2>1. First(c) # First(b) /\ Again(c) # First(b)
    BY <1>5, JobsDiffer
  <2>2. request'[c] = request[c]
    BY <1>0, <1>1, <1>5
  <2>3. NothingNew(c)
    BY <1>1, <1>2, <1>4, <2>1, <2>2 DEF NothingNew, Posting
  <2> QED
    BY <2>3, PostsStay
<1>6. PostsOf(b)'
  <2>1. First(b) # Again(b)
    BY JobsDiffer
  <2>2. JobsUnique(b)'
    BY <1>0, <1>2, <1>3, <1>4, <2>1 DEF PostsOf, JobsUnique, Nowhere
  <2>3. Nowhere(Again(b))'
    BY <1>2, <1>3, <1>4, <2>1 DEF Nowhere
  <2>4. AgainAfterFirst(b)'
    BY <1>1, <1>3, <2>3 DEF AgainAfterFirst
  <2>5. posted'[b] = 0
    BY <1>1, <1>3
  <2>6. PostsLeft(b)' /\ NothingAgain(b)'
    BY <2>3, <2>5 DEF PostsLeft, NothingAgain
  <2> QED
    BY <2>2, <2>4, <2>6 DEF PostsOf
<1> QED
  BY <1>5, <1>6

\* A worker takes a job out of the queue: now he has it, with its lock.
LEMMA TakeJobOnce ==
    ASSUME OnceInv, NEW w \in Workers, TakeJob(w)
    PROVE  \A c \in Batches : PostsOf(c)'
<1>0. queue \in Seq(Jobs) /\ queue # <<>> /\ Head(queue) \in Jobs
  BY HeadTailProperties DEF OnceInv, TInv, TypeOK, TakeJob
<1>1. PICK j \in Jobs : j = Head(queue)
  BY <1>0
<1>2. /\ pc[w] = "idle" /\ job' = [job EXCEPT ![w] = j] /\ queue' = Tail(queue)
      /\ pc' = [pc EXCEPT ![w] = IF j.name = "parse" THEN "mark" ELSE "delete"]
      /\ lockless' = lockless \ {w}
      /\ UNCHANGED <<expired, posted, request>>
  BY <1>1 DEF TakeJob, batchVars
<1>3. /\ In(queue, j)
      /\ Once(queue, j) => ~In(queue', j)
      /\ \A k : (In(queue', k) => In(queue, k)) /\ (Once(queue, k) => Once(queue', k))
  BY <1>0, <1>1, <1>2, InTail
<1>4. /\ \A k : Runs(w, k)' => k = j
      /\ \A v \in Workers \ {w} : \A k : /\ Runs(v, k)' <=> Runs(v, k)
                                         /\ Holds(v, k)' <=> Holds(v, k)
                                         /\ Posting(v)' <=> Posting(v)
  <2>1. pc \in [Workers -> {"idle", "mark", "read", "insert", "commit", "finish", "fail", "delete", "ack"}]
        /\ job \in [Workers -> Jobs \cup {NoJob}]
    BY DEF OnceInv, TInv, TypeOK
  <2> QED
    BY <1>2, <2>1 DEF Runs, Holds, Posting
<1>5. \A k : ~Runs(w, k)
  BY <1>2 DEF Runs
<1>6. ASSUME NEW c \in Batches PROVE PostsOf(c)'
  <2>0. PostsOf(c) /\ posted[c] \in Nat
    BY DEF OnceInv, TInv, TypeOK
  <2>d. First(c) # Again(c)
    BY JobsDiffer
  <2>1. CASE j \notin {First(c), Again(c)}
    <3>1. \A k \in {First(c), Again(c)} : ~Runs(w, k)' /\ ~Holds(w, k)'
      BY <1>4, <2>1 DEF Holds
    <3>2. NothingNew(c)
      BY <1>2, <1>3, <1>4, <3>1 DEF NothingNew
    <3> QED
      BY <3>2, PostsStay
  <2>2. CASE j = First(c)
    <3>1. /\ ~In(queue', First(c)) /\ \A v \in Workers : Runs(v, First(c))' => v = w
      BY <1>3, <1>4, <2>0, <2>2 DEF PostsOf, JobsUnique
    <3>2. /\ FirstAlive(c) /\ First(c) \notin expired /\ Nowhere(Again(c)) /\ request[c] = "queued"
      BY <1>3, <2>0, <2>2 DEF PostsOf, AgainAfterFirst, FirstAlive, Nowhere
    <3>3. posted[c] = 0
      BY <1>3, <2>0, <2>2, <3>2 DEF PostsOf, PostsLeft, FirstDue, AgainDue
    <3>4. \A v \in Workers : ~Runs(v, Again(c))'
      BY <1>4, <2>2, <2>d, <3>2 DEF Nowhere
    <3>5. Nowhere(Again(c))'
      BY <1>3, <3>2, <3>4 DEF Nowhere
    <3>6. JobsUnique(c)'
      BY <1>3, <2>0, <3>1, <3>4 DEF PostsOf, JobsUnique
    <3>7. AgainAfterFirst(c)'
      BY <1>2, <3>2, <3>5 DEF AgainAfterFirst
    <3>8. PostsLeft(c)' /\ NothingAgain(c)'
      BY <1>2, <3>3, <3>5 DEF PostsLeft, NothingAgain
    <3> QED
      BY <3>6, <3>7, <3>8 DEF PostsOf
  <2>3. CASE j = Again(c)
    <3>1. ~Nowhere(Again(c)) /\ AgainDue(c)
      BY <1>3, <2>3 DEF Nowhere, AgainDue
    <3>2. /\ ~FirstAlive(c) /\ First(c) \notin expired /\ request[c] = "queued"
          /\ posted[c] <= 1 /\ (FirstDue(c) => posted[c] = 0) /\ ~NobodyLost
      BY <2>0, <3>1 DEF PostsOf, AgainAfterFirst, PostsLeft, NothingAgain
    <3>3. ~In(queue', Again(c)) /\ \A v \in Workers : Runs(v, Again(c))' => v = w
      BY <1>3, <1>4, <2>0, <2>3 DEF PostsOf, JobsUnique
    <3>4. \A v \in Workers : /\ Runs(v, First(c))' => v # w /\ Runs(v, First(c))
                             /\ Holds(v, First(c))' => Holds(v, First(c))
      BY <1>4, <2>3, <2>d DEF Holds
    <3>5. ~FirstAlive(c)' /\ (FirstDue(c)' => FirstDue(c))
      BY <1>3, <1>4, <3>2, <3>4 DEF FirstAlive, FirstDue
    <3>6. JobsUnique(c)'
      BY <1>3, <2>0, <3>3, <3>4 DEF PostsOf, JobsUnique
    <3>7. AgainAfterFirst(c)' /\ NothingAgain(c)'
      BY <1>2, <3>2, <3>5 DEF AgainAfterFirst, NothingAgain, NobodyLost
    <3>8. PostsLeft(c)'
      BY <1>2, <2>0, <3>2, <3>5 DEF PostsLeft
    <3> QED
      BY <3>6, <3>7, <3>8 DEF PostsOf
  <2> QED
    BY <2>1, <2>2, <2>3
<1> QED
  BY <1>6

\* A job is lost: its worker dies, or goes on without its lock.
LEMMA LostOnce ==
    ASSUME OnceInv, NEW w \in Workers, Crash(w) \/ LockExpires(w)
    PROVE  ~NobodyLost /\ \A c \in Batches : PostsOf(c)'
<1>1. ~NobodyLost
  <2>1. budget["crash"] > 0 \/ budget["stall"] > 0
    BY DEF Crash, LockExpires, Spend
  <2>2. NobodyLost => budget["crash"] = 0 /\ budget["stall"] = 0
    BY DEF OnceInv, NoLosses
  <2> QED
    BY <2>1, <2>2
<1>2. /\ pc[w] # "idle" /\ UNCHANGED <<queue, job, posted, request>>
      /\ expired \subseteq expired'
      /\ \A j \in expired' \ expired : j = job[w] /\ w \notin lockless
      /\ lockless \subseteq lockless'
      /\ pc'[w] = "idle" \/ w \in lockless'
  <2>1. pc \in [Workers -> {"idle", "mark", "read", "insert", "commit", "finish", "fail", "delete", "ack"}]
    BY DEF OnceInv, TInv, TypeOK
  <2>2. CASE Crash(w)
    BY <2>1, <2>2 DEF Crash, batchVars
  <2>3. CASE LockExpires(w)
    BY <2>3 DEF LockExpires, batchVars
  <2> QED
    BY <2>2, <2>3
<1>3. /\ \A v \in Workers \ {w} : pc'[v] = pc[v]
      /\ pc'[w] \in {pc[w], "idle"}
  <2>1. pc \in [Workers -> {"idle", "mark", "read", "insert", "commit", "finish", "fail", "delete", "ack"}]
    BY DEF OnceInv, TInv, TypeOK
  <2> QED
    BY <2>1 DEF Crash, LockExpires
<1>4. \A v \in Workers : \A j : /\ Runs(v, j)' => Runs(v, j)
                                /\ Holds(v, j)' => Holds(v, j) /\ v # w
                                /\ Posting(v)' => Posting(v)
  BY <1>2, <1>3 DEF Runs, Holds, Posting
<1>5. \A j : In(queue', j) = In(queue, j) /\ Once(queue', j) = Once(queue, j)
  BY <1>2 DEF In, Once
<1>6. ASSUME NEW c \in Batches PROVE PostsOf(c)'
  <2>1. CASE First(c) \in expired' => First(c) \in expired
    <3>1. NothingNew(c)
      BY <1>2, <1>4, <1>5, <2>1 DEF NothingNew
    <3> QED
      BY <3>1, PostsStay
  <2>2. CASE ~(First(c) \in expired' => First(c) \in expired)
    <3>0. PostsOf(c) /\ posted[c] \in Nat
      BY DEF OnceInv, TInv, TypeOK
    <3>1. Holds(w, First(c)) /\ Runs(w, First(c))
      BY <1>2, <2>2 DEF Holds, Runs
    <3>2. /\ Nowhere(Again(c)) /\ ~In(queue, First(c)) /\ request[c] = "queued"
          /\ \A v \in Workers : Runs(v, First(c)) => v = w
      BY <3>0, <3>1 DEF PostsOf, JobsUnique, AgainAfterFirst, FirstAlive, Nowhere
    <3>3. ~FirstAlive(c)'
      BY <1>4, <1>5, <3>2 DEF FirstAlive, Holds
    <3>4. Nowhere(Again(c))'
      BY <1>4, <1>5, <3>2 DEF Nowhere
    <3>5. AgainDue(c) /\ (FirstDue(c)' => FirstDue(c))
      BY <1>4, <1>5, <3>1 DEF AgainDue, FirstAlive, FirstDue
    <3>6. JobsUnique(c)'
      BY <1>4, <1>5, <3>0 DEF PostsOf, JobsUnique
    <3>7. AgainAfterFirst(c)' /\ NothingAgain(c)'
      BY <1>1, <1>2, <3>2, <3>3, <3>4 DEF AgainAfterFirst, NothingAgain, NobodyLost
    <3>8. PostsLeft(c)'
      BY <1>2, <3>0, <3>5 DEF PostsOf, PostsLeft
    <3> QED
      BY <3>6, <3>7, <3>8 DEF PostsOf
  <2> QED
    BY <2>1, <2>2
<1> QED
  BY <1>1, <1>6

\* The check for stalled jobs puts a first job back, and drops one put back before.
LEMMA CheckStalledOnce ==
    ASSUME OnceInv, NEW j \in expired, CheckStalled(j)
    PROVE  \A c \in Batches : PostsOf(c)'
<1>0. queue \in Seq(Jobs) /\ j \in Jobs
  BY DEF OnceInv, TInv, TypeOK
<1>1. /\ expired' = expired \ {j}
      /\ UNCHANGED <<lockless, pc, job, posted, request>>
  BY DEF CheckStalled, batchVars, workerVars
<1>2. \A w \in Workers : \A k : /\ Runs(w, k)' <=> Runs(w, k)
                                /\ Holds(w, k)' <=> Holds(w, k)
                                /\ Posting(w)' <=> Posting(w)
  BY <1>1 DEF Runs, Holds, Posting
<1>3. CASE j.stalled
  <2>1. queue' = queue
    BY <1>3 DEF CheckStalled
  <2>2. ASSUME NEW c \in Batches PROVE NothingNew(c)
    BY <1>1, <1>2, <2>1 DEF NothingNew, In, Once
  <2> QED
    BY <2>2, PostsStay
<1>4. CASE ~j.stalled
  <2>0. /\ [j EXCEPT !.stalled = TRUE] \in Jobs
        /\ [j EXCEPT !.stalled = TRUE].name = j.name
        /\ [j EXCEPT !.stalled = TRUE].batch = j.batch
    BY <1>0 DEF Jobs
  <2>1. PICK e \in Jobs : e = [j EXCEPT !.stalled = TRUE] /\ e.name = j.name /\ e.batch = j.batch
    BY <2>0
  <2>2. queue' = <<e>> \o queue
    BY <1>4, <2>1 DEF CheckStalled
  <2>3. \A k : /\ In(queue', k) <=> In(queue, k) \/ k = e
               /\ Once(queue, k) /\ (k = e => ~In(queue, k)) => Once(queue', k)
    BY <1>0, <2>2, InFront
  <2>4. \A c : e # First(c)
    BY <1>0, <2>1 DEF First, Jobs
  <2>5. ASSUME NEW c \in Batches PROVE PostsOf(c)'
    <3>0. PostsOf(c) /\ posted[c] \in Nat
      BY DEF OnceInv, TInv, TypeOK
    <3>1. CASE e # Again(c)
      <4>1. NothingNew(c)
        BY <1>1, <1>2, <2>3, <2>4, <3>1 DEF NothingNew
      <4> QED
        BY <4>1, PostsStay
    <3>2. CASE e = Again(c)
      <4>1. j = First(c)
        <5>1. j.name = "parse" /\ j.batch = c
          BY <2>1, <3>2 DEF Again
        <5> QED
          BY <1>0, <1>4, <5>1 DEF First, Jobs
      <4>2. /\ First(c) \in expired /\ ~FirstAlive(c) /\ Nowhere(Again(c)) /\ request[c] = "queued"
        BY <3>0, <4>1 DEF PostsOf, AgainAfterFirst
      <4>3. ~FirstAlive(c)' /\ (FirstDue(c)' => FirstDue(c))
        BY <1>2, <2>3, <2>4, <4>2 DEF FirstAlive, FirstDue
      <4>4. AgainDue(c)
        BY <4>2 DEF AgainDue
      <4>5. JobsUnique(c)'
        BY <1>2, <2>3, <2>4, <3>0, <3>2, <4>2 DEF PostsOf, JobsUnique, Nowhere
      <4>6. First(c) \notin expired'
        BY <1>1, <4>1
      <4>7. ~NobodyLost
        BY <4>2 DEF OnceInv, NoLosses
      <4>8. AgainAfterFirst(c)' /\ NothingAgain(c)'
        BY <1>1, <4>2, <4>3, <4>6, <4>7 DEF AgainAfterFirst, NothingAgain, NobodyLost
      <4>9. PostsLeft(c)'
        BY <1>1, <3>0, <4>3, <4>4 DEF PostsOf, PostsLeft
      <4> QED
        BY <4>5, <4>8, <4>9 DEF PostsOf
    <3> QED
      BY <3>1, <3>2
  <2> QED
    BY <2>5
<1> QED
  BY <1>3, <1>4

\* A commit uses up what its job had left.
LEMMA CommitOnce ==
    ASSUME OnceInv, NEW w \in Workers, Commit(w)
    PROVE  \A c \in Batches : PostsOf(c)'
<1>0. /\ job[w] \in Jobs /\ job[w].name = "parse"
      /\ pc \in [Workers -> {"idle", "mark", "read", "insert", "commit", "finish", "fail", "delete", "ack"}]
      /\ posted \in [Batches -> Nat]
  BY DEF Commit, OnceInv, TInv, TypeOK, JobsUploaded, LiveJobs, ParsesPost, Posting
<1>1. PICK b \in Batches : b = job[w].batch
  BY <1>0 DEF Jobs
<1>2. job[w] \in {First(b), Again(b)}
  BY <1>0, <1>1, JobsDiffer
<1>3. /\ pc[w] = "commit" /\ pc' = [pc EXCEPT ![w] = "finish"]
      /\ posted' = [posted EXCEPT ![b] = @ + 1]
      /\ UNCHANGED <<queue, expired, lockless, job, request>>
  BY <1>1 DEF Commit
<1>4. \A v \in Workers : \A k : /\ Runs(v, k)' <=> Runs(v, k)
                                /\ Holds(v, k)' <=> Holds(v, k)
                                /\ Posting(v)' => Posting(v) /\ v # w
  BY <1>0, <1>3 DEF Runs, Holds, Posting
<1>5. \A k : In(queue', k) = In(queue, k) /\ Once(queue', k) = Once(queue, k)
  BY <1>3 DEF In, Once
<1>6. ASSUME NEW c \in Batches, c # b PROVE PostsOf(c)'
  <2>1. posted'[c] = posted[c]
    BY <1>0, <1>3, <1>6
  <2>2. NothingNew(c)
    BY <1>3, <1>4, <1>5, <2>1 DEF NothingNew
  <2> QED
    BY <2>2, PostsStay
<1>7. PostsOf(b)'
  <2>0. PostsOf(b) /\ posted[b] \in Nat /\ posted'[b] = posted[b] + 1
    BY <1>0, <1>3 DEF OnceInv
  <2>1. Runs(w, job[w]) /\ Posting(w)
    BY <1>3 DEF Runs, Posting
  <2>2. FirstAlive(b)' <=> FirstAlive(b)
    BY <1>4, <1>5 DEF FirstAlive
  <2>3. \A k : Nowhere(k)' <=> Nowhere(k)
    BY <1>4, <1>5 DEF Nowhere
  <2>4. request[b] = "queued"
    BY <1>2, <2>0, <2>1 DEF PostsOf, AgainAfterFirst, Nowhere
  <2>5. JobsUnique(b)'
    BY <1>4, <1>5, <2>0 DEF PostsOf, JobsUnique
  <2>6. AgainAfterFirst(b)'
    BY <1>3, <2>0, <2>2, <2>3, <2>4 DEF PostsOf, AgainAfterFirst
  <2>7. (FirstDue(b)' => FirstDue(b)) /\ (AgainDue(b)' => AgainDue(b))
    BY <1>3, <1>4, <1>5, <2>2 DEF FirstDue, AgainDue
  <2>8. CASE job[w] = First(b)
    <3>1. FirstDue(b) /\ ~FirstDue(b)'
      BY <1>4, <1>5, <2>0, <2>1, <2>8 DEF PostsOf, JobsUnique, FirstDue
    <3>2. PostsLeft(b)'
      BY <2>0, <2>7, <3>1 DEF PostsOf, PostsLeft
    <3>3. NothingAgain(b)'
      BY <2>0, <2>3, <3>1 DEF PostsOf, NothingAgain, NobodyLost
    <3> QED
      BY <2>5, <2>6, <3>2, <3>3 DEF PostsOf
  <2>9. CASE job[w] = Again(b)
    <3>1. AgainDue(b) /\ ~Nowhere(Again(b)) /\ ~In(queue, Again(b))
      BY <2>0, <2>1, <2>9 DEF PostsOf, JobsUnique, AgainDue, Nowhere
    <3>2. ~FirstAlive(b) /\ First(b) \notin expired /\ ~NobodyLost
      BY <2>0, <3>1 DEF PostsOf, AgainAfterFirst, NothingAgain
    <3>3. ~AgainDue(b)'
      BY <1>3, <1>4, <1>5, <2>0, <2>1, <2>2, <2>9, <3>1, <3>2 DEF PostsOf, JobsUnique, AgainDue
    <3>4. PostsLeft(b)' /\ NothingAgain(b)'
      BY <2>0, <2>7, <3>1, <3>2, <3>3 DEF PostsOf, PostsLeft, NothingAgain, NobodyLost
    <3> QED
      BY <2>5, <2>6, <3>4 DEF PostsOf
  <2> QED
    BY <1>2, <2>8, <2>9
<1> QED
  BY <1>6, <1>7

\* Every action keeps the posts in order.
LEMMA OnceInvNext == OnceInv /\ [Next]_vars => OnceInv'
<1> SUFFICES ASSUME OnceInv, [Next]_vars PROVE OnceInv'
  OBVIOUS
<1>0. /\ TInv' /\ TInv /\ TypeOK /\ NoLosses /\ ParsesPost
      /\ pc \in [Workers -> {"idle", "mark", "read", "insert", "commit", "finish", "fail", "delete", "ack"}]
      /\ job \in [Workers -> Jobs \cup {NoJob}] /\ budget \in [Hazards -> Nat]
      /\ posted \in [Batches -> Nat]
  BY NextTInv DEF OnceInv, TInv, TypeOK
<1>1. ASSUME NEW b \in Batches, InsertBatch(b) \/ LoseRequest(b) PROVE OnceInv'
  <2>1. /\ UNCHANGED <<queue, expired, lockless, job, pc, posted>>
        /\ request[b] # "queued" /\ \A c \in Batches : request'[c] # "queued" => request[c] # "queued"
    BY <1>0, <1>1 DEF InsertBatch, LoseRequest, workerVars, TypeOK
  <2>2. budget'["crash"] = budget["crash"] /\ budget'["stall"] = budget["stall"]
    BY <1>0, <1>1 DEF InsertBatch, LoseRequest, Spend, Hazards
  <2> QED
    BY <1>0, <2>1, <2>2, WorkGoesOn DEF Posting
<1>2. ASSUME NEW w \in Workers,
             \/ MarkProcessing(w) \/ Preload(w) \/ InsertDetails(w) \/ MarkDone(w) \/ Fault(w)
             \/ MarkFailed(w) \/ DeleteImport(w) \/ AbandonJob(w) \/ Acknowledge(w)
      PROVE  OnceInv'
  <2>1. UNCHANGED <<queue, expired, lockless, job, request>>
    BY <1>2 DEF MarkProcessing, Preload, InsertDetails, MarkDone, Fault, MarkFailed, DeleteImport,
        AbandonJob, Acknowledge, batchVars
  <2>2. budget'["crash"] = budget["crash"] /\ budget'["stall"] = budget["stall"]
    BY <1>0, <1>2 DEF MarkProcessing, Preload, InsertDetails, MarkDone, Fault, MarkFailed,
        DeleteImport, AbandonJob, Acknowledge, Spend, Hazards
  <2>3. \A b \in Batches : posted'[b] \in {posted[b], 0}
    BY <1>0, <1>2 DEF MarkProcessing, Preload, InsertDetails, MarkDone, Fault, MarkFailed,
        DeleteImport, AbandonJob, Acknowledge, batchVars
  <2>4. /\ \A v \in Workers \ {w} : pc'[v] = pc[v]
        /\ pc[w] # "idle" /\ (pc'[w] \in {"mark", "read", "insert", "commit"} => Posting(w))
    BY <1>0, <1>2 DEF MarkProcessing, Preload, InsertDetails, MarkDone, Fault, MarkFailed,
        DeleteImport, AbandonJob, Acknowledge, Posting
  <2> QED
    BY <1>0, <2>1, <2>2, <2>3, <2>4, WorkGoesOn DEF Posting
<1>3. CASE UNCHANGED vars
  BY <1>0, <1>3, WorkGoesOn DEF vars, workerVars, batchVars, Posting
<1>4. ASSUME NEW b \in Batches, RequestRollback(b) PROVE OnceInv'
  <2>1. PICK e \in Jobs : e.name = "rollback" /\ queue' = Append(queue, e)
    BY <1>4 DEF RequestRollback, Jobs
  <2>2. UNCHANGED <<expired, lockless, pc, job, posted, request>>
    BY <1>4 DEF RequestRollback, batchVars, workerVars
  <2>3. budget'["crash"] = budget["crash"] /\ budget'["stall"] = budget["stall"]
    BY <1>0, <1>4 DEF RequestRollback, Spend, Hazards
  <2>4. \A c : e # First(c) /\ e # Again(c)
    BY <2>1 DEF First, Again
  <2>5. \A j : /\ In(queue', j) <=> In(queue, j) \/ j = e
               /\ Once(queue, j) /\ (j = e => ~In(queue, j)) => Once(queue', j)
    BY <1>0, <2>1, InAppend DEF TypeOK
  <2>6. ASSUME NEW c \in Batches PROVE NothingNew(c)
    BY <2>2, <2>4, <2>5 DEF NothingNew, Runs, Holds, Posting
  <2>7. ParsesPost' /\ NoLosses'
    BY <1>0, <2>2, <2>3 DEF ParsesPost, NoLosses, Posting, NobodyLost
  <2> QED
    BY <1>0, <2>6, <2>7, PostsStay DEF OnceInv
<1>5. ASSUME NEW b \in Batches, QueueParse(b) PROVE OnceInv'
  <2>1. ParsesPost' /\ NoLosses'
    BY <1>0, <1>5 DEF QueueParse, workerVars, ParsesPost, NoLosses, Posting, NobodyLost
  <2> QED
    BY <1>0, <1>5, <2>1, QueueParseOnce DEF OnceInv
<1>6. ASSUME NEW w \in Workers, TakeJob(w) PROVE OnceInv'
  <2>1. ParsesPost'
    BY <1>0, <1>6 DEF TakeJob, ParsesPost, Posting
  <2>2. NoLosses'
    BY <1>0, <1>6 DEF TakeJob, NoLosses, NobodyLost
  <2> QED
    BY <1>0, <1>6, <2>1, <2>2, TakeJobOnce DEF OnceInv
<1>7. ASSUME NEW w \in Workers, Crash(w) \/ LockExpires(w) PROVE OnceInv'
  <2>1. ParsesPost'
    BY <1>0, <1>7 DEF Crash, LockExpires, ParsesPost, Posting
  <2>2. ~NobodyLost /\ \A c \in Batches : PostsOf(c)'
    BY <1>7, LostOnce
  <2> QED
    BY <1>0, <2>1, <2>2 DEF OnceInv, NoLosses, NobodyLost
<1>8. ASSUME NEW j \in expired, CheckStalled(j) PROVE OnceInv'
  <2>1. ParsesPost'
    BY <1>0, <1>8 DEF CheckStalled, workerVars, ParsesPost, Posting
  <2>2. NoLosses'
    BY <1>0, <1>8 DEF NoLosses, NobodyLost
  <2> QED
    BY <1>0, <1>8, <2>1, <2>2, CheckStalledOnce DEF OnceInv
<1>9. ASSUME NEW w \in Workers, Commit(w) PROVE OnceInv'
  <2>1. ParsesPost' /\ NoLosses'
    BY <1>0, <1>9 DEF Commit, ParsesPost, NoLosses, Posting, NobodyLost
  <2> QED
    BY <1>0, <1>9, <2>1, CommitOnce DEF OnceInv
<1> QED
  BY <1>1, <1>2, <1>3, <1>4, <1>5, <1>6, <1>7, <1>8, <1>9
     DEF Next, RequestStep, WorkerStep, HazardStep

\* However many workers die, stall or race each other, a file is posted twice at
\* most: a redelivery can double a manual import, and no more (BullMQ's
\* maxStalledCount and attempts, ImportService.upload).
THEOREM AtMostTwice == Spec => []PostedTwiceAtMost
<1>1. OnceInv => PostedTwiceAtMost
  BY DEF OnceInv, PostsOf, PostsLeft, PostedTwiceAtMost
<1> QED
  BY <1>1, OnceInvInit, OnceInvNext, PTL DEF Spec

\* What import.service.ts says of retries is true as long as no worker dies or
\* loses its lock, for any number of workers, faults and rollbacks.
THEOREM NoRetryUnlessLost ==
    ASSUME NobodyLost
    PROVE  Spec => []NeverBlindRetry
<1>1. OnceInv => NeverBlindRetry
  BY DEF OnceInv, PostsOf, NothingAgain, NeverBlindRetry, OfKind, Uploaded
<1> QED
  BY <1>1, OnceInvInit, OnceInvNext, PTL DEF Spec
-----------------------------------------------------------------------------
(***************************************************************************)
(* One worker implements the ledger: a commit posts the file against the   *)
(* tables of that moment, a DELETE removes the batch, and nothing else     *)
(* touches the tables.  Manual files need a worker that is never lost:     *)
(* what a redelivered parse does to them is the run ImportRedelivery.      *)
(***************************************************************************)

\* When nobody is lost, a commit posts a manual batch that holds nothing yet.
LEMMA PostedFirst ==
    ASSUME OnceInv, IInv, NobodyLost, NEW w \in Workers, Commit(w),
           NEW b \in Batches, b = job[w].batch, upload[b] \in Uploads, upload[b].kind = "manual"
    PROVE  detail[b] = NoRows
<1>1. /\ job[w] \in Jobs /\ job[w].name = "parse"
      /\ Runs(w, job[w]) /\ Posting(w)
  BY DEF Commit, OnceInv, TInv, JobsUploaded, LiveJobs, ParsesPost, Posting, Runs
<1>2. PostsOf(b)
  BY DEF OnceInv
<1>3. job[w] = First(b)
  <2>1. job[w] \in {First(b), Again(b)}
    BY <1>1, JobsDiffer
  <2>2. job[w] # Again(b)
    BY <1>1, <1>2 DEF PostsOf, NothingAgain, Nowhere
  <2> QED
    BY <2>1, <2>2
<1>4. posted[b] = 0
  BY <1>1, <1>2, <1>3 DEF PostsOf, NothingAgain, FirstDue
<1>5. b \in OfKind(upload, "manual")
  BY NoUploadNotUploads DEF OfKind, Uploaded
<1>6. detail[b] = [i \in Rows |-> posted[b] * Sheet(upload[b])[i]]
  BY <1>5 DEF IInv, WholeFiles
<1> QED
  BY <1>4, <1>6, NoneIsNoRows

\* The ledger's operators are the pipeline's.
LEMMA SameRows ==
    ASSUME NEW up, NEW det, NEW u \in Uploads
    PROVE  Ledger!ToInsert(up, det, u) = ToInsert(up, det, u)
<1>1. \A S : Ledger!Cardinality(S) = Cardinality(S)
  BY Zenon DEF Ledger!Cardinality, Cardinality
<1>2. \A i : Ledger!Held(up, det, u, i) = Held(up, det, u, i)
  BY <1>1, Zenon DEF Ledger!Held, Held, Ledger!Copies, Copies, Ledger!RowSet, RowSet,
     Ledger!Uploaded, Uploaded, Ledger!SameTable, SameTable, Ledger!NoUpload, NoUpload
<1>3. \A m, n : Ledger!NewCopies(m, n) = NewCopies(m, n)
  BY <1>1, Zenon DEF Ledger!NewCopies, NewCopies
<1>4. Ledger!Sheet(u) = Sheet(u)
  BY Zenon DEF Ledger!Sheet, Sheet
<1>5. Ledger!ToInsert(up, det, u) = ToInsert(up, det, u)
  <2>1. u.kind \in {"manual", "portal", "grab"}
    BY KindsAssumption DEF Uploads, AllKinds
  <2>2. CASE u.kind = "manual"
    BY <1>4, <2>2 DEF Ledger!ToInsert, ToInsert
  <2>3. CASE u.kind = "portal"
    <3>1. Ledger!ToInsert(up, det, u) = [i \in Rows |-> Ledger!NewCopies(Ledger!Sheet(u)[i], Ledger!Held(up, det, u, i))]
      BY <2>3 DEF Ledger!ToInsert
    <3>2. ToInsert(up, det, u) = [i \in Rows |-> NewCopies(Sheet(u)[i], Held(up, det, u, i))]
      BY <2>3 DEF ToInsert
    <3>3. QED
      BY <1>2, <1>3, <1>4, <3>1, <3>2, Zenon
  <2>4. CASE u.kind = "grab"
    <3>1. Ledger!ToInsert(up, det, u) =
            [i \in Rows |-> IF Ledger!Sheet(u)[i] > 0 /\ Ledger!Held(up, det, u, i) = 0 THEN 1 ELSE 0]
      BY <2>4 DEF Ledger!ToInsert
    <3>2. ToInsert(up, det, u) = [i \in Rows |-> IF Sheet(u)[i] > 0 /\ Held(up, det, u, i) = 0 THEN 1 ELSE 0]
      BY <2>4 DEF ToInsert
    <3>3. QED
      BY <1>2, <1>4, <3>1, <3>2
  <2>5. QED
    BY <2>1, <2>2, <2>3, <2>4
<1>6. QED
  BY <1>5

\* And so are its empty table, its missing upload and its requests.
LEMMA SameData ==
    /\ Ledger!NoRows = NoRows
    /\ Ledger!NoUpload = NoUpload
    /\ Ledger!Requests = Requests
BY Zenon DEF Ledger!NoRows, NoRows, Ledger!NoUpload, NoUpload, Ledger!Requests, Requests,
   Ledger!Uploads, Uploads

\* Every step of the only worker, and of the requests, is a step of the ledger or
\* changes nothing in it.
LEMMA StepRefines ==
    ASSUME "manual" \notin Kinds \/ NobodyLost, SerialInv, OnceInv, [Next]_vars
    PROVE  [Ledger!Next]_(Ledger!vars)
<1> DEFINE removed == {b \in Batches : status[b] = "deleted"}
<1>0. TInv /\ TypeOK /\ NoOrphanRows /\ ParentHeld /\ PlansFresh
  BY DEF SerialInv, IInv, TInv
<1>1. ASSUME UNCHANGED <<upload, detail>>,
             \A b \in Batches : status'[b] = "deleted" <=> status[b] = "deleted"
      PROVE  UNCHANGED Ledger!vars
  BY <1>1 DEF Ledger!vars
<1>2. ASSUME NEW b \in Batches, InsertBatch(b)
      PROVE  Ledger!Next
  <2>1. upload[b] = NoUpload /\ status[b] = "absent" /\ status' = [status EXCEPT ![b] = "pending"]
    BY <1>0, <1>2 DEF InsertBatch, TInv, RequestsMatch
  <2>2. removed' = removed
    BY <1>0, <2>1 DEF TypeOK
  <2>3. UNCHANGED detail /\ \E u \in Requests : upload' = [upload EXCEPT ![b] = u]
    BY <1>2 DEF InsertBatch
  <2>4. Ledger!Receive(b)
    BY <2>1, <2>2, <2>3, SameData DEF Ledger!Receive
  <2>5. QED
    BY <2>4 DEF Ledger!Next
<1>3. ASSUME NEW w \in Workers, Commit(w)
      PROVE  Ledger!Next \/ UNCHANGED Ledger!vars
  <2>1. PICK b \in Batches : b = job[w].batch /\ upload[b] \in Uploads
    BY <1>0, <1>3 DEF Commit, TInv, JobsUploaded, LiveJobs, Jobs
  <2>2. PICK u \in Uploads : u = upload[b]
    BY <2>1
  <2>3. PICK p \in Bags : p = plan[w]
    BY <1>0 DEF TypeOK
  <2>4. pc[w] = "commit" /\ detail' = [detail EXCEPT ![b] = Plus(@, p)] /\ UNCHANGED <<upload, status>>
    BY <1>3, <2>1, <2>3 DEF Commit
  <2>5. CASE p = NoRows
    <3>1. detail[b] \in Bags
      BY <1>0 DEF TypeOK
    <3>2. Plus(detail[b], NoRows) = detail[b]
      BY <3>1 DEF Plus, NoRows, Bags
    <3>3. UNCHANGED detail
      BY <1>0, <2>4, <2>5, <3>2 DEF TypeOK
    <3>4. QED
      BY <1>1, <2>4, <3>3
  <2>6. CASE p # NoRows
    <3>1. status[b] # "deleted"
      BY <2>1, <2>3, <2>4, <2>6, <1>0 DEF ParentHeld, HoldsParent, Exists
    <3>2. p = ToInsert(upload, detail, u)
      BY <1>0, <2>1, <2>2, <2>3, <2>4 DEF PlansFresh, FreshPlan
    <3>3. upload[b] # NoUpload /\ (u.kind = "manual" => detail[b] = NoRows)
      <4>1. upload[b] # NoUpload /\ (u.kind = "manual" => NobodyLost)
        BY <2>2, NoUploadNotUploads DEF Uploads
      <4>2. IInv
        BY DEF SerialInv
      <4> QED
        BY <1>3, <2>1, <2>2, <4>1, <4>2, PostedFirst
    <3>4. removed' = removed /\ b \notin removed
      BY <2>4, <3>1
    <3>5. detail' = [detail EXCEPT ![b] = Ledger!Plus(@, Ledger!ToInsert(upload, detail, upload[b]))]
      BY <2>2, <2>4, <3>2, SameRows DEF Ledger!Plus, Plus
    <3>6. Ledger!Post(b)
      BY <2>2, <2>4, <3>3, <3>4, <3>5, SameData DEF Ledger!Post
    <3>7. QED
      BY <3>6 DEF Ledger!Next
  <2>7. QED
    BY <2>5, <2>6
<1>4. ASSUME NEW w \in Workers, DeleteImport(w)
      PROVE  Ledger!Next \/ UNCHANGED Ledger!vars
  <2>1. PICK b \in Batches : b = job[w].batch /\ upload[b] \in Uploads
    BY <1>0, <1>4 DEF DeleteImport, TInv, JobsUploaded, LiveJobs, Jobs
  <2>2. CASE Exists(b)
    <3>1. /\ status' = [status EXCEPT ![b] = "deleted"]
          /\ detail' = [detail EXCEPT ![b] = NoRows]
          /\ UNCHANGED upload
      BY <1>4, <2>1, <2>2 DEF DeleteImport
    <3>2. removed' = removed \cup {b}
      BY <1>0, <3>1 DEF TypeOK
    <3>3. upload[b] # NoUpload
      BY <2>1, NoUploadNotUploads
    <3>4. Ledger!Remove(b)
      BY <3>1, <3>2, <3>3, SameData DEF Ledger!Remove
    <3>5. QED
      BY <3>4 DEF Ledger!Next
  <2>3. CASE ~Exists(b)
    BY <1>1, <1>4, <2>1, <2>3 DEF DeleteImport
  <2>4. QED
    BY <2>2, <2>3
<1>5. ASSUME NEW w \in Workers, MarkProcessing(w) \/ MarkDone(w) \/ MarkFailed(w)
      PROVE  UNCHANGED Ledger!vars
  <2>1. PICK b \in Batches : b = job[w].batch
    BY <1>0, <1>5 DEF MarkProcessing, MarkDone, MarkFailed, TInv, JobsUploaded, LiveJobs, Jobs
  <2>2. \E s \in {"processing", "done", "failed"} : SetStatus(b, s)
    BY <1>5, <2>1 DEF MarkProcessing, MarkDone, MarkFailed
  <2>3. \A c \in Batches : status'[c] = "deleted" <=> status[c] = "deleted"
    BY <1>0, <2>2 DEF SetStatus, Exists, TypeOK
  <2>4. QED
    BY <1>1, <1>5, <2>3 DEF MarkProcessing, MarkDone, MarkFailed
<1>6. ASSUME UNCHANGED <<upload, detail, status>>
      PROVE  UNCHANGED Ledger!vars
  BY <1>1, <1>6
<1>7. QED
  BY <1>2, <1>3, <1>4, <1>5, <1>6
     DEF Next, RequestStep, WorkerStep, HazardStep, QueueParse, LoseRequest, RequestRollback,
         TakeJob, Crash, LockExpires, CheckStalled, Preload, InsertDetails, Fault, AbandonJob,
         Acknowledge, batchVars, vars

\* With one worker the pipeline implements the ledger: whatever is redelivered,
\* rolled back or crashes on the way, the tables change as if every file were posted
\* in one step, with the rows they lack then.  Manual files are posted once, as the
\* ledger does, if the worker is never lost.
THEOREM PipelineImplementsLedger ==
    ASSUME OneWorker, "manual" \notin Kinds \/ NobodyLost
    PROVE  Spec => LedgerSpec
<1>1. Init => Ledger!Init
  BY SameData DEF Init, Ledger!Init
<1>2. SerialInv /\ OnceInv /\ [Next]_vars => [Ledger!Next]_(Ledger!vars)
  BY StepRefines
<1>3. SerialInv /\ [Next]_vars => SerialInv'
  BY NextSerialInv
<1>4. QED
  BY <1>1, <1>2, <1>3, InitSerialInv, OnceInvInit, OnceInvNext, PTL DEF Spec, LedgerSpec, Ledger!Spec
=============================================================================
