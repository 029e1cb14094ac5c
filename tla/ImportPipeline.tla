--------------------------- MODULE ImportPipeline ---------------------------
(***************************************************************************)
(* The spreadsheet import pipeline: an HTTP handler (or the portal sync)   *)
(* stores a batch row and queues a `parse' job, BullMQ workers parse the   *)
(* file inside one database transaction, and a `rollback' job deletes the  *)
(* batch with the detail rows hanging off it.  Several service instances   *)
(* share the queue and the database, so several workers run at once.       *)
(*                                                                         *)
(* The model covers one (year, month) period: batches of different periods *)
(* live in different partitions and never read each other's rows.          *)
(***************************************************************************)
EXTENDS ImportRows, Sequences

CONSTANTS
    Workers,    \* BullMQ workers, one per service instance
    Budget      \* how many times each hazard may strike

Hazards == {"crash", "stall", "fault", "outage", "lostRequest", "rollback"}

ASSUME BudgetAssumption == Budget \in [Hazards -> Nat]

VARIABLES
    status,     \* batch |-> status column; "absent" before the INSERT, "deleted" after the DELETE
    upload,     \* batch |-> what its parse job carries: kind, file and date window
    detail,     \* batch |-> committed detail rows, as a bag of identities
    recorded,   \* batch |-> totalRows, told apart by identity
    request,    \* batch |-> progress of the request that creates it
    queue,      \* waiting jobs, next one first
    expired,    \* active jobs whose worker lock expired
    lockless,   \* workers still running a job whose lock they lost
    pc,         \* worker |-> where it is in the processor
    job,        \* worker |-> the job it runs
    plan,       \* worker |-> the rows its transaction inserts
    budget,     \* what is left of Budget
    posted      \* history: batch |-> how often a transaction posted its file

vars == <<status, upload, detail, recorded, request, queue, expired,
          lockless, pc, job, plan, budget, posted>>
batchVars  == <<status, upload, detail, recorded, request, posted>>
workerVars == <<lockless, pc, job, plan>>

-----------------------------------------------------------------------------
(* Data *)

Statuses == {"absent", "pending", "processing", "done", "failed", "deleted"}
Jobs     == [name : {"parse", "rollback"}, batch : Batches, stalled : BOOLEAN]
NoJob    == [name |-> "none"]

\* The batch row exists in fleet_imports / grab_imports.
Exists(b) == status[b] \in {"pending", "processing", "done", "failed"}

Spend(h) == budget[h] > 0 /\ budget' = [budget EXCEPT ![h] = @ - 1]

-----------------------------------------------------------------------------
(* The requests that create batches and ask for rollbacks *)

\* upload() and createPortalImport(): the file is in storage, the batch row is
\* inserted as pending; the job is queued by a later round trip.
InsertBatch(b) ==
    /\ request[b] = "none"
    /\ \E u \in Requests : upload' = [upload EXCEPT ![b] = u]
    /\ status' = [status EXCEPT ![b] = "pending"]
    /\ request' = [request EXCEPT ![b] = "inserted"]
    /\ UNCHANGED <<detail, recorded, posted, queue, expired, workerVars, budget>>

\* queue.add('parse', ..., attempts: 1)
QueueParse(b) ==
    /\ request[b] = "inserted"
    /\ request' = [request EXCEPT ![b] = "queued"]
    /\ queue' = Append(queue, [name |-> "parse", batch |-> b, stalled |-> FALSE])
    /\ UNCHANGED <<status, upload, detail, recorded, posted, expired, workerVars, budget>>

\* The instance dies, or Redis refuses the job, between the INSERT and the add.
LoseRequest(b) ==
    /\ request[b] = "inserted"
    /\ Spend("lostRequest")
    /\ request' = [request EXCEPT ![b] = "lost"]
    /\ UNCHANGED <<status, upload, detail, recorded, posted, queue, expired, workerVars>>

\* requestRollback(): 404 unless the batch exists, whatever its status.
RequestRollback(b) ==
    /\ Exists(b)
    /\ Spend("rollback")
    /\ queue' = Append(queue, [name |-> "rollback", batch |-> b, stalled |-> FALSE])
    /\ UNCHANGED <<batchVars, expired, workerVars>>

-----------------------------------------------------------------------------
(* BullMQ *)

TakeJob(w) ==
    /\ pc[w] = "idle"
    /\ queue # <<>>
    /\ job' = [job EXCEPT ![w] = Head(queue)]
    /\ queue' = Tail(queue)
    /\ pc' = [pc EXCEPT ![w] = IF Head(queue).name = "parse" THEN "mark" ELSE "delete"]
    /\ lockless' = lockless \ {w}
    /\ UNCHANGED <<batchVars, expired, plan, budget>>

\* The instance dies: its open transaction aborts and its job is left active
\* without anybody renewing the lock, unless it lost that lock before.
Crash(w) ==
    /\ pc[w] # "idle"
    /\ Spend("crash")
    /\ pc' = [pc EXCEPT ![w] = "idle"]
    /\ expired' = IF w \in lockless THEN expired ELSE expired \cup {job[w]}
    /\ UNCHANGED <<batchVars, queue, lockless, job, plan>>

\* A worker too busy to renew its lock loses it, and keeps working.
LockExpires(w) ==
    /\ pc[w] # "idle" /\ w \notin lockless
    /\ Spend("stall")
    /\ expired' = expired \cup {job[w]}
    /\ lockless' = lockless \cup {w}
    /\ UNCHANGED <<batchVars, queue, pc, job, plan>>

\* The stalled-job check: a job is put back once (maxStalledCount 1), in front
\* of the waiting ones; found stalled again, it is dropped.
CheckStalled(j) ==
    /\ j \in expired
    /\ expired' = expired \ {j}
    /\ queue' = IF j.stalled THEN queue
                ELSE <<[j EXCEPT !.stalled = TRUE]>> \o queue
    /\ UNCHANGED <<batchVars, workerVars, budget>>

-----------------------------------------------------------------------------
(* ImportProcessor *)

\* An UPDATE of a batch row that was deleted meanwhile touches nothing.
SetStatus(b, s) == status' = IF Exists(b) THEN [status EXCEPT ![b] = s] ELSE status

MarkProcessing(w) ==
    /\ pc[w] = "mark"
    /\ SetStatus(job[w].batch, "processing")
    /\ pc' = [pc EXCEPT ![w] = "read"]
    /\ UNCHANGED <<upload, detail, recorded, request, posted, queue, expired, lockless, job, plan, budget>>

\* ensureDetailPartition and storage.read, then the transaction opens and the
\* preload sees what is committed at that moment (READ COMMITTED).
Preload(w) ==
    /\ pc[w] = "read"
    /\ plan' = [plan EXCEPT ![w] = IF upload[job[w].batch].file.header
                                   THEN ToInsert(upload, detail, upload[job[w].batch])
                                   ELSE NoRows]
    /\ pc' = [pc EXCEPT ![w] = "insert"]
    /\ UNCHANGED <<batchVars, queue, expired, lockless, job, budget>>

\* Mutant: no foreign key ties a detail row to its batch.
InsertOrphans(w) ==
    /\ pc[w] = "insert"
    /\ pc' = [pc EXCEPT ![w] = IF upload[job[w].batch].file.header THEN "commit" ELSE "fail"]
    /\ UNCHANGED <<batchVars, queue, expired, lockless, job, plan, budget>>

\* The inserts: a detail row needs its parent (foreign key), and takes a lock
\* on it until the commit.  A file without a header is rejected at the end.
InsertDetails(w) ==
    LET b == job[w].batch IN
    /\ pc[w] = "insert"
    /\ pc' = [pc EXCEPT ![w] =
                IF upload[b].file.header /\ (plan[w] = NoRows \/ Exists(b))
                THEN "commit" ELSE "fail"]
    /\ UNCHANGED <<batchVars, queue, expired, lockless, job, plan, budget>>

Commit(w) ==
    LET b == job[w].batch IN
    /\ pc[w] = "commit"
    /\ detail' = [detail EXCEPT ![b] = Plus(@, plan[w])]
    /\ posted' = [posted EXCEPT ![b] = @ + 1]
    /\ pc' = [pc EXCEPT ![w] = "finish"]
    /\ UNCHANGED <<status, upload, recorded, request, queue, expired, lockless, job, plan, budget>>

MarkDone(w) ==
    LET b == job[w].batch IN
    /\ pc[w] = "finish"
    /\ SetStatus(b, "done")
    /\ recorded' = IF Exists(b) THEN [recorded EXCEPT ![b] = plan[w]] ELSE recorded
    /\ pc' = [pc EXCEPT ![w] = "ack"]
    /\ UNCHANGED <<upload, detail, request, posted, queue, expired, lockless, job, plan, budget>>

\* Mutant: the batches of inserts commit one by one, so that a late fault
\* leaves the earlier ones behind.
FaultKeepsRows(w) ==
    LET b == job[w].batch IN
    /\ pc[w] \in {"mark", "read", "insert", "commit", "finish"}
    /\ Spend("fault")
    /\ \E i \in Rows :
        detail' = IF pc[w] = "commit" /\ plan[w][i] > 0
                  THEN [detail EXCEPT ![b][i] = @ + 1] ELSE detail
    /\ pc' = [pc EXCEPT ![w] = "fail"]
    /\ UNCHANGED <<status, upload, recorded, request, posted, queue, expired, lockless, job, plan>>

\* A statement or the storage fails: the catch block of parse().
Fault(w) ==
    /\ pc[w] \in {"mark", "read", "insert", "commit", "finish"}
    /\ Spend("fault")
    /\ pc' = [pc EXCEPT ![w] = "fail"]
    /\ UNCHANGED <<batchVars, queue, expired, lockless, job, plan>>

\* Mutant: the catch block swallows the error.
SwallowError(w) ==
    /\ pc[w] = "fail"
    /\ pc' = [pc EXCEPT ![w] = "ack"]
    /\ UNCHANGED <<batchVars, queue, expired, lockless, job, plan, budget>>

MarkFailed(w) ==
    /\ pc[w] = "fail"
    /\ SetStatus(job[w].batch, "failed")
    /\ pc' = [pc EXCEPT ![w] = "ack"]
    /\ UNCHANGED <<upload, detail, recorded, request, posted, queue, expired, lockless, job, plan, budget>>

\* rollback(): one DELETE; the foreign key cascades to the detail rows.  It
\* waits for the transactions holding a lock on the batch row.
HoldsParent(v, b) == pc[v] = "commit" /\ job[v].batch = b /\ plan[v] # NoRows

\* Mutant: the batch is deleted, its detail rows are left to a later clean-up.
DeleteParentOnly(w) ==
    LET b == job[w].batch IN
    /\ pc[w] = "delete"
    /\ \A v \in Workers : ~HoldsParent(v, b)
    /\ status' = IF Exists(b) THEN [status EXCEPT ![b] = "deleted"] ELSE status
    /\ pc' = [pc EXCEPT ![w] = "ack"]
    /\ UNCHANGED <<upload, detail, recorded, request, posted, queue, expired, lockless, job, plan, budget>>

DeleteImport(w) ==
    LET b == job[w].batch IN
    /\ pc[w] = "delete"
    /\ \A v \in Workers : ~HoldsParent(v, b)
    /\ status' = IF Exists(b) THEN [status EXCEPT ![b] = "deleted"] ELSE status
    /\ detail' = IF Exists(b) THEN [detail EXCEPT ![b] = NoRows] ELSE detail
    /\ posted' = [posted EXCEPT ![b] = 0]
    /\ pc' = [pc EXCEPT ![w] = "ack"]
    /\ UNCHANGED <<upload, recorded, request, queue, expired, lockless, job, plan, budget>>

\* An error nothing catches (the UPDATE of the catch block, the DELETE): BullMQ
\* fails the job, and with attempts: 1 that is the end of it.
AbandonJob(w) ==
    /\ pc[w] \in {"fail", "delete"}
    /\ Spend("outage")
    /\ pc' = [pc EXCEPT ![w] = "ack"]
    /\ UNCHANGED <<batchVars, queue, expired, lockless, job, plan>>

\* The processor returned or threw: BullMQ takes the job off the active list.
Acknowledge(w) ==
    /\ pc[w] = "ack"
    /\ pc' = [pc EXCEPT ![w] = "idle"]
    /\ UNCHANGED <<batchVars, queue, expired, lockless, job, plan, budget>>

-----------------------------------------------------------------------------

Init ==
    /\ status   = [b \in Batches |-> "absent"]
    /\ upload   = [b \in Batches |-> NoUpload]
    /\ detail   = [b \in Batches |-> NoRows]
    /\ recorded = [b \in Batches |-> NoRows]
    /\ request  = [b \in Batches |-> "none"]
    /\ queue    = <<>>
    /\ expired  = {}
    /\ lockless = {}
    /\ pc       = [w \in Workers |-> "idle"]
    /\ job      = [w \in Workers |-> NoJob]
    /\ plan     = [w \in Workers |-> NoRows]
    /\ budget   = Budget
    /\ posted   = [b \in Batches |-> 0]

\* What a live worker does next with the job it holds, or by taking one.
WorkerStep(w) ==
    \/ TakeJob(w) \/ MarkProcessing(w) \/ Preload(w) \/ InsertDetails(w)
    \/ Commit(w) \/ MarkDone(w) \/ MarkFailed(w) \/ DeleteImport(w)
    \/ Acknowledge(w)

RequestStep(b) ==
    InsertBatch(b) \/ QueueParse(b) \/ LoseRequest(b) \/ RequestRollback(b)

HazardStep(w) == Crash(w) \/ LockExpires(w) \/ Fault(w) \/ AbandonJob(w)

Next ==
    \/ \E b \in Batches : RequestStep(b)
    \/ \E w \in Workers : WorkerStep(w) \/ HazardStep(w)
    \/ \E j \in expired : CheckStalled(j)

Spec == Init /\ [][Next]_vars

\* A running instance keeps working its jobs and BullMQ keeps looking for
\* stalled ones.  Nothing forces a user or a hazard.
Fairness ==
    /\ \A w \in Workers : WF_vars(WorkerStep(w))
    /\ WF_vars(\E j \in expired : CheckStalled(j))

FairSpec == Spec /\ Fairness

-----------------------------------------------------------------------------
(* Properties *)

\* Every variable keeps its shape; the queue and the lock table only hold jobs
\* of batches that were uploaded.
TypeOK ==
    /\ status \in [Batches -> Statuses]
    /\ upload \in [Batches -> Uploads \cup {NoUpload}]
    /\ detail \in [Batches -> Bags]
    /\ recorded \in [Batches -> Bags]
    /\ request \in [Batches -> {"none", "inserted", "queued", "lost"}]
    /\ queue \in Seq(Jobs)
    /\ expired \in SUBSET Jobs
    /\ lockless \in SUBSET Workers
    /\ pc \in [Workers -> {"idle", "mark", "read", "insert", "commit",
                           "finish", "fail", "delete", "ack"}]
    /\ job \in [Workers -> Jobs \cup {NoJob}]
    /\ plan \in [Workers -> Bags]
    /\ budget \in [Hazards -> Nat]
    /\ posted \in [Batches -> Nat]

\* Detail rows never outlive their batch: a rollback racing a parse, in
\* whatever order they run, leaves no rows of a deleted batch.
NoOrphanRows == \A b \in Batches : ~Exists(b) => detail[b] = NoRows

\* The rows of a manual batch are whole applications of its file: a crash, a
\* fault or a redelivery at any point never leaves part of a file behind
\* (one transaction per file in parse()).
WholeFiles ==
    \A b \in OfKind(upload, "manual") :
        detail[b] = [i \in Rows |-> posted[b] * Sheet(upload[b])[i]]

\* Skipping known rows loses none: while nothing of the period was rolled
\* back, a done batch's rows are all in its table, whichever batch holds them.
Promised(u, i) == IF u.kind = "grab" /\ Sheet(u)[i] > 0 THEN 1 ELSE Sheet(u)[i]
DoneIsCovered ==
    (\A b \in Batches : status[b] # "deleted") =>
        \A b \in Batches : status[b] = "done" =>
            \A i \in Rows : Held(upload, detail, upload[b], i) >= Promised(upload[b], i)

\* Overlapping portal pulls never double-count a deposit: the portal batches
\* together hold no more copies of a row than some pull has seen of it, and the
\* Grab batches never hold a row twice.
SeenAtOnce(n, i) == n = 0 \/ \E b \in OfKind(upload, "portal") : n <= Sheet(upload[b])[i]
NeverDoubleCounts ==
    \A i \in Rows :
        /\ SeenAtOnce(Copies(detail, OfKind(upload, "portal"), i), i)
        /\ Copies(detail, OfKind(upload, "grab"), i) <= 1

\* "failed imports roll back, never blind-retry" (import.service.ts, where the
\* job is queued): a manual file is in the table at most once.
NeverBlindRetry ==
    \A b \in OfKind(upload, "manual") : posted[b] <= 1

\* The totals shown for a done batch are the rows it holds, when its file was
\* posted by one transaction (after a redelivery they are those of the last).
TotalsMatchRows ==
    \A b \in Batches : status[b] = "done" /\ posted[b] = 1 => recorded[b] = detail[b]

\* "Done" means what it says: the period has the file's rows, and the totals shown
\* are those of the rows the batch holds.
DoneIsTrue == DoneIsCovered /\ TotalsMatchRows

\* The tables change as if every file were posted in one step against the
\* tables of that moment, and every rollback ran in one step.
Ledger == INSTANCE ImportLedger WITH
              removed <- {b \in Batches : status[b] = "deleted"}
LedgerSpec == Ledger!Spec

\* A batch whose job was queued is settled in the end.
Settled(b) == status[b] \in {"done", "failed", "deleted"}
QueuedBatchesSettle == \A b \in Batches : request[b] = "queued" ~> Settled(b)
=============================================================================
