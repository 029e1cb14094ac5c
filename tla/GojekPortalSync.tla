-------------------------- MODULE GojekPortalSync --------------------------
(***************************************************************************)
(* The daily pull of the Gojek partner portal: a repeatable tick decides   *)
(* whether today's run is due and executes it, an admin may ask for a run  *)
(* at any time, and every run waits for the import batches it creates.     *)
(*                                                                         *)
(* Time passes in units (Advance, 30 minutes in the instance checked); what *)
(* a live worker or request can do at once never waits for the next unit.  *)
(* The day is compressed: DayLength only has to leave room for a retry     *)
(* after the last allowed attempt.                                         *)
(***************************************************************************)
EXTENDS Integers, FiniteSets, Sequences

CONSTANTS
    Workers,        \* sync workers, one per service instance
    Requesters,     \* HTTP requests of "Jalankan sekarang" in flight at once
    Slots,          \* run rows kept: 1..Slots (finished ones are forgotten and reused)
    DayLength, RunAt, TickEvery,        \* the day, its scheduled time, the tick
    PullTime, ImportWait, StaleAge,     \* the time limits of a run
    MaxSlices,      \* months a range may straddle
    Disturbances    \* how many admin requests, settings changes, crashes, lost locks and calls

\* A pull ends within seven minutes (the client's time limits), the wait for its
\* imports after 15, and a run is stale after 45.
ASSUME TimesAssumption ==
    /\ {DayLength, TickEvery, Slots, MaxSlices} \subseteq Nat \ {0}
    /\ {RunAt, PullTime, ImportWait, StaleAge, Disturbances} \subseteq Nat
    /\ PullTime + ImportWait <= StaleAge

ASSUME WorkersAssumption == IsFiniteSet(Workers)

VARIABLES
    clock,      \* time of day
    enabled,    \* settings.isEnabled; the account and the cipher key are configured
    runs,       \* slot |-> run row: trigger, status, age, whether it started today, and
                \* (history) whether two workers were executing it at once
    imports,    \* worker |-> the states of the batches its execution waits for
    queue,      \* waiting jobs, next one first
    request,    \* requester |-> progress of requestRun()
    pc,         \* worker |-> where it is in the processor
    job,        \* worker |-> the job it runs
    run,        \* worker |-> the run it executes
    left,       \* worker |-> time left in its current wait
    disturbances

vars == <<clock, enabled, runs, imports, queue, request, pc, job, run, left, disturbances>>
workerVars == <<pc, job, run, left>>

-----------------------------------------------------------------------------
(* Data *)

MAX_SCHEDULED_ATTEMPTS_PER_DAY == 3

RunIds    == 1..Slots
NoRun     == 0
EmptyRow  == [trigger |-> "manual", status |-> "none", age |-> 0, today |-> FALSE,
              overlapped |-> FALSE]
Rows      == [trigger : {"schedule", "manual"},
              status : {"none", "running", "success", "failed"},
              age : 0..(StaleAge + 1), today : BOOLEAN, overlapped : BOOLEAN]
Jobs      == [name : {"tick", "run"}, run : RunIds \cup {NoRun}, stalled : BOOLEAN]
TickJob   == [name |-> "tick", run |-> NoRun, stalled |-> FALSE]

Running(r)  == runs[r].status = "running"
Finished(r) == runs[r].status \in {"success", "failed"}

\* The runs some job, worker or request still works on.
Referenced ==
    {j.run : j \in {queue[n] : n \in 1..Len(queue)}}
    \cup {run[w] : w \in Workers} \cup {job[w].run : w \in Workers}
    \cup {request[h].run : h \in Requesters}

\* Rows the rest of the day does not depend on.
FreeSlots ==
    {r \in RunIds \ Referenced :
        runs[r].status = "none" \/ (Finished(r) /\ ~runs[r].today)}

FreeSlot == CHOOSE r \in FreeSlots : TRUE

NewRow(trigger) ==
    [trigger |-> trigger, status |-> "running", age |-> 0, today |-> trigger = "schedule",
     overlapped |-> FALSE]

Settled(row, s) == [row EXCEPT !.status = s, !.age = 0]

SetStatus(rows, r, s) == [rows EXCEPT ![r] = Settled(@, s)]

Disturb == disturbances > 0 /\ disturbances' = disturbances - 1

-----------------------------------------------------------------------------
(* Rules *)

\* reapStaleRuns(): a run still running after StaleAge is failed.
Reaped ==
    [r \in RunIds |-> IF Running(r) /\ runs[r].age > StaleAge
                      THEN Settled(runs[r], "failed") ELSE runs[r]]

AnyRunning(rows) == \E r \in RunIds : rows[r].status = "running"

\* scheduledStatusesToday()
ScheduledToday(rows) ==
    {r \in RunIds : rows[r].trigger = "schedule" /\ rows[r].today}

\* Mutant: the cap lets one attempt more through.
DecideCapOff(rows) ==
    /\ clock >= RunAt
    /\ \A r \in ScheduledToday(rows) : rows[r].status = "failed"
    /\ Cardinality(ScheduledToday(rows)) <= MAX_SCHEDULED_ATTEMPTS_PER_DAY

\* decideSchedule()
Due(rows) ==
    /\ clock >= RunAt
    /\ \A r \in ScheduledToday(rows) : rows[r].status \notin {"success", "running"}
    /\ Cardinality(ScheduledToday(rows)) < MAX_SCHEDULED_ATTEMPTS_PER_DAY

-----------------------------------------------------------------------------
(* The HTTP side *)

\* requestRun() up to its conflict check: 409 while a run is running.
RequestRun(h) ==
    /\ request[h].at = "none"
    /\ Disturb
    /\ runs' = Reaped
    /\ request' = [request EXCEPT ![h].at = IF AnyRunning(Reaped) THEN "none" ELSE "checked"]
    /\ UNCHANGED <<clock, enabled, imports, queue, workerVars>>

\* createRun('manual')
RecordRequest(h) ==
    /\ request[h].at = "checked"
    /\ FreeSlots # {}
    /\ LET r == FreeSlot IN
        /\ runs' = [runs EXCEPT ![r] = NewRow("manual")]
        /\ request' = [request EXCEPT ![h] = [at |-> "recorded", run |-> r]]
    /\ UNCHANGED <<clock, enabled, imports, queue, workerVars, disturbances>>

\* queue.add('run', ..., attempts: 1)
QueueRequest(h) ==
    /\ request[h].at = "recorded"
    /\ queue' = Append(queue, [name |-> "run", run |-> request[h].run, stalled |-> FALSE])
    /\ request' = [request EXCEPT ![h] = [at |-> "none", run |-> NoRun]]
    /\ UNCHANGED <<clock, enabled, runs, imports, workerVars, disturbances>>

\* The instance dies, or Redis refuses the job, after the row was inserted.
LoseRequest(h) ==
    /\ request[h].at = "recorded"
    /\ Disturb
    /\ request' = [request EXCEPT ![h] = [at |-> "none", run |-> NoRun]]
    /\ UNCHANGED <<clock, enabled, runs, imports, queue, workerVars>>

\* saveSettings() switching the schedule on or off.
SaveSettings ==
    /\ Disturb
    /\ enabled' = ~enabled
    /\ UNCHANGED <<clock, runs, imports, queue, request, workerVars>>

-----------------------------------------------------------------------------
(* The worker *)

Goto(w, place) == pc' = [pc EXCEPT ![w] = place]

TakeJob(w) ==
    /\ pc[w] = "idle"
    /\ queue # <<>>
    /\ job' = [job EXCEPT ![w] = Head(queue)]
    /\ run' = [run EXCEPT ![w] = Head(queue).run]
    /\ queue' = Tail(queue)
    /\ Goto(w, IF Head(queue).name = "tick" THEN "tick" ELSE "execute")
    /\ UNCHANGED <<clock, enabled, runs, imports, request, left, disturbances>>

\* Mutant: a disabled schedule returns before the stale runs are reaped.
TickUnlessDisabled(w) ==
    /\ pc[w] = "tick"
    /\ runs' = IF enabled THEN Reaped ELSE runs
    /\ Goto(w, IF enabled /\ ~AnyRunning(Reaped) /\ Due(Reaped) THEN "create" ELSE "ack")
    /\ UNCHANGED <<clock, enabled, imports, queue, request, job, run, left, disturbances>>

\* runScheduledTick() up to its decision; stale runs are reaped even when the
\* schedule is disabled.
Tick(w) ==
    /\ pc[w] = "tick"
    /\ runs' = Reaped
    /\ Goto(w, IF enabled /\ ~AnyRunning(Reaped) /\ Due(Reaped) THEN "create" ELSE "ack")
    /\ UNCHANGED <<clock, enabled, imports, queue, request, job, run, left, disturbances>>

\* createRun('schedule'): the row is inserted by a round trip of its own.
CreateScheduled(w) ==
    /\ pc[w] = "create"
    /\ FreeSlots # {}
    /\ LET r == FreeSlot IN
        /\ runs' = [runs EXCEPT ![r] = NewRow("schedule")]
        /\ run' = [run EXCEPT ![w] = r]
    /\ Goto(w, "execute")
    /\ UNCHANGED <<clock, enabled, imports, queue, request, job, left, disturbances>>

\* Workers that execute run r now.
Executing(r) ==
    {w \in Workers : run[w] = r /\ pc[w] \in {"pull", "wait", "succeeded", "failed"}}

\* Worker w joins those that execute its run.
StartPull(w) ==
    /\ runs' = [runs EXCEPT ![run[w]].overlapped = @ \/ Executing(run[w]) # {}]
    /\ Goto(w, "pull")
    /\ left' = [left EXCEPT ![w] = PullTime]

\* Mutant: a redelivered job runs again whatever became of its run.
ExecuteAgain(w) ==
    /\ pc[w] = "execute"
    /\ StartPull(w)
    /\ UNCHANGED <<clock, enabled, imports, queue, request, job, run, disturbances>>

\* execute() of a run that was reaped or already finished returns at once; the
\* status is not looked at again after this.
Execute(w) ==
    /\ pc[w] = "execute"
    /\ IF Running(run[w]) THEN StartPull(w) ELSE Goto(w, "ack") /\ UNCHANGED <<runs, left>>
    /\ UNCHANGED <<clock, enabled, imports, queue, request, job, run, disturbances>>

\* The report arrived: one import batch per month of the range.
CreateImports(w) ==
    /\ pc[w] = "pull"
    /\ \E n \in 1..MaxSlices :
        imports' = [imports EXCEPT ![w] = [s \in 1..n |-> "pending"]]
    /\ Goto(w, "wait")
    /\ left' = [left EXCEPT ![w] = ImportWait]
    /\ UNCHANGED <<clock, enabled, runs, queue, request, job, run, disturbances>>

\* The portal, the storage or the database refused.
PullFails(w) ==
    /\ pc[w] = "pull"
    /\ Goto(w, "failed")
    /\ UNCHANGED <<clock, enabled, runs, imports, queue, request, job, run, left, disturbances>>

\* waitForImports(): a deleted batch is never "there", so only the deadline ends it.
States(w)  == {imports[w][s] : s \in 1..Len(imports[w])}
Awaited(w) == States(w) \cap {"pending", "deleted"} # {}

Poll(w) ==
    /\ pc[w] = "wait"
    /\ Awaited(w) => left[w] = 0
    /\ Goto(w, IF Awaited(w) \/ "failed" \in States(w) THEN "failed" ELSE "succeeded")
    /\ imports' = [imports EXCEPT ![w] = <<>>]
    /\ left' = [left EXCEPT ![w] = 0]
    /\ UNCHANGED <<clock, enabled, runs, queue, request, job, run, disturbances>>

\* The last updateRun() of execute(), unconditional on the status.
Finish(w) ==
    /\ pc[w] \in {"succeeded", "failed"}
    /\ runs' = SetStatus(runs, run[w], IF pc[w] = "succeeded" THEN "success" ELSE "failed")
    /\ Goto(w, "ack")
    /\ UNCHANGED <<clock, enabled, imports, queue, request, job, run, left, disturbances>>

\* BullMQ takes the finished job off the active list.
Acknowledge(w) ==
    /\ pc[w] = "ack"
    /\ Goto(w, "idle")
    /\ job' = [job EXCEPT ![w] = TickJob]
    /\ run' = [run EXCEPT ![w] = NoRun]
    /\ left' = [left EXCEPT ![w] = 0]
    /\ UNCHANGED <<clock, enabled, runs, imports, queue, request, disturbances>>

\* A job whose lock ran out goes back to the front of the queue, once; its worker
\* keeps it, marked as given away.
Stalled(j) == [j EXCEPT !.stalled = TRUE]
GivenBack(w) == IF job[w].stalled THEN queue ELSE <<Stalled(job[w])>> \o queue

\* A live worker fails to renew its lock (its event loop is blocked, or Redis out
\* of reach): the stalled check gives its job to whoever asks next, and the worker
\* goes on as if nothing had happened.
LockExpires(w) ==
    /\ pc[w] \notin {"idle", "down"}
    /\ ~job[w].stalled
    /\ Disturb
    /\ queue' = GivenBack(w)
    /\ job' = [job EXCEPT ![w] = Stalled(@)]
    /\ UNCHANGED <<clock, enabled, runs, imports, request, pc, run, left>>

\* The instance dies; the stalled check puts its job back, unless it did before.
Crash(w) ==
    /\ pc[w] \notin {"idle", "down"}
    /\ Disturb
    /\ queue' = GivenBack(w)
    /\ Goto(w, "down")
    /\ imports' = [imports EXCEPT ![w] = <<>>]
    /\ job' = [job EXCEPT ![w] = TickJob]
    /\ run' = [run EXCEPT ![w] = NoRun]
    /\ left' = [left EXCEPT ![w] = 0]
    /\ UNCHANGED <<clock, enabled, runs, request>>

Restart(w) ==
    /\ pc[w] = "down"
    /\ Goto(w, "idle")
    /\ UNCHANGED <<clock, enabled, runs, imports, queue, request, job, run, left, disturbances>>

-----------------------------------------------------------------------------
(* The environment: import batches and time *)

\* The import pipeline settles a batch, or an admin rolls one back (a
\* disturbance).
SettleImport(w, s) ==
    /\ imports[w][s] = "pending"
    /\ \E outcome \in {"done", "failed"} : imports' = [imports EXCEPT ![w][s] = outcome]
    /\ UNCHANGED <<clock, enabled, runs, queue, request, workerVars, disturbances>>

RollBackImport(w, s) ==
    /\ imports[w][s] \in {"pending", "done"}
    /\ Disturb
    /\ imports' = [imports EXCEPT ![w][s] = "deleted"]
    /\ UNCHANGED <<clock, enabled, runs, queue, request, workerVars>>

\* A worker is waiting for something that may take time.
Patient(w) ==
    \/ pc[w] = "down" \/ (pc[w] = "idle" /\ queue = <<>>)
    \/ pc[w] = "pull" /\ left[w] > 0
    \/ pc[w] = "wait" /\ left[w] > 0 /\ Awaited(w)

\* The next unit of time; the tick is queued when none is waiting.
Advance ==
    /\ \A w \in Workers : Patient(w)
    /\ \A h \in Requesters : request[h].at = "none"
    /\ clock' = (clock + 1) % DayLength
    /\ runs' = [r \in RunIds |->
                    [runs[r] EXCEPT !.age = IF Running(r) /\ @ <= StaleAge THEN @ + 1 ELSE @,
                                    !.today = @ /\ clock' # 0]]
    /\ left' = [w \in Workers |-> IF left[w] > 0 THEN left[w] - 1 ELSE 0]
    /\ queue' = IF clock' % TickEvery = 0
                   /\ \A n \in 1..Len(queue) : queue[n].name # "tick"
                THEN Append(queue, TickJob) ELSE queue
    /\ UNCHANGED <<enabled, imports, request, pc, job, run, disturbances>>

-----------------------------------------------------------------------------

Init ==
    /\ clock = 0
    /\ enabled \in BOOLEAN
    /\ runs = [r \in RunIds |-> EmptyRow]
    /\ imports = [w \in Workers |-> <<>>]
    /\ queue = <<>>
    /\ request = [h \in Requesters |-> [at |-> "none", run |-> NoRun]]
    /\ pc = [w \in Workers |-> "idle"]
    /\ job = [w \in Workers |-> TickJob]
    /\ run = [w \in Workers |-> NoRun]
    /\ left = [w \in Workers |-> 0]
    /\ disturbances = Disturbances

WorkerStep(w) ==
    \/ TakeJob(w) \/ Tick(w) \/ CreateScheduled(w) \/ Execute(w) \/ CreateImports(w)
    \/ PullFails(w) \/ Poll(w) \/ Finish(w) \/ Acknowledge(w) \/ Restart(w)

RequestStep(h) == RecordRequest(h) \/ QueueRequest(h)

ImportStep(w) ==
    \E s \in 1..Len(imports[w]) : SettleImport(w, s) \/ RollBackImport(w, s)

Next ==
    \/ \E w \in Workers : WorkerStep(w) \/ LockExpires(w) \/ Crash(w) \/ ImportStep(w)
    \/ \E h \in Requesters : RequestRun(h) \/ RequestStep(h) \/ LoseRequest(h)
    \/ SaveSettings
    \/ Advance

Spec == Init /\ [][Next]_vars

\* Instances that died are restarted, live ones keep working, and time passes.
\* Nothing obliges the portal, the import pipeline or an admin.
Fairness ==
    /\ \A w \in Workers : WF_vars(WorkerStep(w))
    /\ \A h \in Requesters : WF_vars(RequestStep(h))
    /\ WF_vars(Advance)

FairSpec == Spec /\ Fairness

-----------------------------------------------------------------------------
(* Properties *)

\* A failing day is retried at most three times, whatever crashes and whoever
\* asks for runs of their own meanwhile (decideSchedule). Two instances that
\* handle two ticks at once both read the attempts before either records one:
\* each instance but the first may add one attempt to the cap.
AttemptsCapped ==
    Cardinality(ScheduledToday(runs))
        <= MAX_SCHEDULED_ATTEMPTS_PER_DAY + Cardinality(Workers) - 1

\* The schedule succeeds once a day, or once for each instance that decided at
\* that moment: no retry is started, and none that was reaped comes back, after
\* an attempt succeeded.
OneScheduledSuccess ==
    Cardinality({r \in ScheduledToday(runs) : runs[r].status = "success"})
        <= Cardinality(Workers)

\* One day's schedule, against crashes, retries, reaping and manual runs.
ScheduleBounded == AttemptsCapped /\ OneScheduledSuccess

\* An outcome an operator has seen is not overwritten by the other one, although the
\* last update of a run looks at nothing. A scheduled run keeps its verdict whatever
\* crashes, is reaped, or loses its lock. A manual one keeps a success through crash
\* and redelivery, unless its lock was lost while it was executed and a second worker
\* executed it at the same time: then the later verdict replaces the earlier one. (A
\* manual run that waited long in the queue can also be reaped while it executes; its
\* last update replaces the reaper's failure.)
OutcomeIsFinal ==
    [][\A r \in RunIds :
        Finished(r) =>
            \/ runs'[r].status \in {runs[r].status, "running"}
            \/ /\ runs[r].trigger = "manual"
               /\ runs[r].status = "failed" \/ runs[r].overlapped]_vars

\* A run never stays running: a lost job or a dead worker is made good by the
\* tick, even while the schedule is disabled (reapStaleRuns).
RunsFinish == \A r \in RunIds : Running(r) ~> ~Running(r)
=============================================================================
