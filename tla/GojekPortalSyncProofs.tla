----------------------- MODULE GojekPortalSyncProofs -----------------------
(***************************************************************************)
(* The daily schedule is bounded and its outcomes are final, for any number *)
(* of instances, requests and disturbances, and any lengths of time.       *)
(***************************************************************************)
EXTENDS GojekPortalSync, FiniteSetTheorems, SequenceTheorems, TLAPS

Places == {"idle", "tick", "create", "execute", "pull", "wait", "succeeded", "failed",
           "ack", "down"}

\* Where a worker is at work on its run.
Started == {"pull", "wait", "succeeded", "failed"}

RunRows == [trigger : {"schedule", "manual"},
            status : {"none", "running", "success", "failed"},
            age : Nat, today : BOOLEAN, overlapped : BOOLEAN]

TypeInv ==
    /\ runs \in [RunIds -> RunRows]
    /\ queue \in Seq(Jobs)
    /\ request \in [Requesters -> [at : {"none", "checked", "recorded"},
                                   run : RunIds \cup {NoRun}]]
    /\ pc \in [Workers -> Places]
    /\ job \in [Workers -> Jobs]
    /\ run \in [Workers -> RunIds \cup {NoRun}]
    /\ left \in [Workers -> Nat]

\* A tick carries no run, any other job does.
Sound(j) == j.name = "tick" <=> j.run = NoRun

\* What a worker holds: the run of its job, or the one its tick created.
HoldsInv ==
    /\ \A n \in 1..Len(queue) : Sound(queue[n])
    /\ \A w \in Workers :
        /\ Sound(job[w])
        /\ job[w].name = "run" => run[w] = job[w].run
        /\ pc[w] \in {"idle", "down", "tick", "create"} => job[w].name = "tick" /\ run[w] = NoRun
        /\ pc[w] \in {"execute"} \cup Started => run[w] \in RunIds
    /\ \A h \in Requesters : request[h].at # "recorded" => request[h].run = NoRun
    /\ \A h \in Requesters : request[h].at = "recorded" => request[h].run # NoRun

\* One worker at most works on a scheduled run; of a manual one, two that execute it at
\* once are on record.
OneHolder ==
    \A v, w \in Workers :
        v # w /\ run[v] # NoRun /\ runs[run[v]].trigger = "schedule" => run[v] # run[w]

OverlapInv ==
    \A v, w \in Workers :
        v # w /\ {pc[v], pc[w]} \subseteq Started /\ run[v] = run[w] => runs[run[v]].overlapped

\* Only admins' runs travel as jobs of their own.
ManualInv ==
    /\ \A n \in 1..Len(queue) : queue[n].run # NoRun => runs[queue[n].run].trigger = "manual"
    /\ \A w \in Workers : job[w].run # NoRun => runs[job[w].run].trigger = "manual"
    /\ \A h \in Requesters : request[h].run # NoRun => runs[request[h].run].trigger = "manual"

\* A scheduled run is executed where it was created and ends before it is stale. A
\* manual one may have been reaped, but nobody has finished it, unless two workers
\* executed it at once.
Progress(w) ==
    pc[w] \in {"execute"} \cup Started =>
        /\ pc[w] # "execute" => 
            runs[run[w]].status \in {"running", "failed"} \/ runs[run[w]].overlapped
        /\ runs[run[w]].trigger = "schedule" =>
            /\ runs[run[w]].status = "running"
            /\ pc[w] = "execute" => runs[run[w]].age = 0
            /\ pc[w] = "pull" => runs[run[w]].age + left[w] <= PullTime
            /\ pc[w] = "wait" => runs[run[w]].age + left[w] <= PullTime + ImportWait
            /\ runs[run[w]].age <= PullTime + ImportWait

\* Instances that decided to create today's run and have not done so yet.
Creating == {w \in Workers : pc[w] = "create"}

\* Today's scheduled runs that keep a tick from starting another one.
Blocking == {r \in ScheduledToday(runs) : runs[r].status \in {"running", "success"}}

\* What the last decision that found a run due left room for.
CountInv ==
    /\ Cardinality(ScheduledToday(runs)) + Cardinality(Creating)
        <= MAX_SCHEDULED_ATTEMPTS_PER_DAY - 1 + Cardinality(Workers)
    /\ Cardinality(Blocking) + Cardinality(Creating) <= Cardinality(Workers)

OwnInv == TypeInv /\ HoldsInv /\ OneHolder /\ ManualInv

SyncInv ==
    /\ OwnInv
    /\ OverlapInv
    /\ \A w \in Workers : Progress(w)
    /\ CountInv
-----------------------------------------------------------------------------
(* Queues and rows *)

\* A job joins the end of the queue.
LEMMA Appended ==
    ASSUME NEW q \in Seq(Jobs), NEW j \in Jobs
    PROVE  /\ Append(q, j) \in Seq(Jobs)
           /\ \A n \in 1..Len(Append(q, j)) :
                \/ n \in 1..Len(q) /\ Append(q, j)[n] = q[n]
                \/ n = Len(q) + 1 /\ Append(q, j)[n] = j
  OBVIOUS

\* A job that stalled goes back to its front.
LEMMA PutBack ==
    ASSUME NEW q \in Seq(Jobs), NEW j \in Jobs
    PROVE  /\ <<j>> \o q \in Seq(Jobs)
           /\ \A n \in 1..Len(<<j>> \o q) :
                \/ n = 1 /\ (<<j>> \o q)[n] = j
                \/ n - 1 \in 1..Len(q) /\ (<<j>> \o q)[n] = q[n - 1]
  <1>1. <<j>> \in Seq(Jobs) /\ Len(<<j>>) = 1 /\ <<j>>[1] = j
    OBVIOUS
  <1> QED
    BY <1>1

\* The next job leaves it.
LEMMA Taken ==
    ASSUME NEW q \in Seq(Jobs), q # <<>>
    PROVE  /\ Tail(q) \in Seq(Jobs)
           /\ 1 \in 1..Len(q) /\ Head(q) = q[1] /\ Head(q) \in Jobs
           /\ \A n \in 1..Len(Tail(q)) :
                n + 1 \in 1..Len(q) /\ n + 1 # 1 /\ Tail(q)[n] = q[n + 1]
  OBVIOUS

\* A new row takes a slot nobody refers to.
LEMMA FreeSlotIsFree ==
    ASSUME FreeSlots # {}
    PROVE  /\ FreeSlot \in RunIds
           /\ FreeSlot # NoRun
           /\ \A n \in 1..Len(queue) : queue[n].run # FreeSlot
           /\ \A w \in Workers : run[w] # FreeSlot /\ job[w].run # FreeSlot
           /\ \A h \in Requesters : request[h].run # FreeSlot
           /\ runs[FreeSlot].status = "none" \/ (Finished(FreeSlot) /\ ~runs[FreeSlot].today)
  <1>1. FreeSlot \in FreeSlots
    BY DEF FreeSlot
  <1> QED
    BY <1>1 DEF FreeSlots, Referenced, RunIds, NoRun

LEMMA NoRunIsNoRow == NoRun \notin RunIds
  BY DEF NoRun, RunIds

\* A row with another age or day is a row, and otherwise the same.
LEMMA WithAge ==
    ASSUME NEW x \in RunRows, NEW a \in Nat
    PROVE  /\ [x EXCEPT !.age = a] \in RunRows /\ [x EXCEPT !.age = a].age = a
           /\ [x EXCEPT !.age = a].trigger = x.trigger
           /\ [x EXCEPT !.age = a].status = x.status
           /\ [x EXCEPT !.age = a].today = x.today
           /\ [x EXCEPT !.age = a].overlapped = x.overlapped
  BY DEF RunRows

LEMMA WithToday ==
    ASSUME NEW x \in RunRows, NEW t \in BOOLEAN
    PROVE  /\ [x EXCEPT !.today = t] \in RunRows /\ [x EXCEPT !.today = t].today = t
           /\ [x EXCEPT !.today = t].trigger = x.trigger
           /\ [x EXCEPT !.today = t].status = x.status
           /\ [x EXCEPT !.today = t].age = x.age
           /\ [x EXCEPT !.today = t].overlapped = x.overlapped
  BY DEF RunRows

\* A settled row has its outcome, and is otherwise the same row.
LEMMA SettledRow ==
    ASSUME NEW x \in RunRows, NEW s \in {"success", "failed"}
    PROVE  /\ Settled(x, s) \in RunRows /\ Settled(x, s).status = s
           /\ Settled(x, s).trigger = x.trigger /\ Settled(x, s).today = x.today
           /\ Settled(x, s).overlapped = x.overlapped
  BY DEF Settled, RunRows

\* The last update of a run settles its row and no other.
LEMMA SettledRows ==
    ASSUME TypeInv, NEW r \in RunIds, NEW s \in {"success", "failed"},
           runs' = SetStatus(runs, r, s)
    PROVE  /\ runs' \in [RunIds -> RunRows]
           /\ runs'[r].status = s
           /\ runs'[r].trigger = runs[r].trigger /\ runs'[r].today = runs[r].today
           /\ runs'[r].overlapped = runs[r].overlapped
           /\ \A q \in RunIds : q # r => runs'[q] = runs[q]
  BY SettledRow DEF TypeInv, SetStatus

\* Reaping leaves triggers and days alone, and settled rows altogether.
LEMMA ReapedRows ==
    ASSUME TypeInv
    PROVE  /\ Reaped \in [RunIds -> RunRows]
           /\ \A r \in RunIds :
                /\ Reaped[r].trigger = runs[r].trigger /\ Reaped[r].today = runs[r].today
                /\ Reaped[r].overlapped = runs[r].overlapped
                /\ Reaped[r] = runs[r] \/ (runs[r].status = "running" /\ runs[r].age > StaleAge
                                           /\ Reaped[r].status = "failed")
  BY SettledRow DEF Reaped, TypeInv, Running

-----------------------------------------------------------------------------
(* Types *)

\* The new row of either kind of run, at a free slot.
LEMMA CreatedRows ==
    ASSUME TypeInv, NEW trigger \in {"schedule", "manual"}, FreeSlots # {},
           runs' = [runs EXCEPT ![FreeSlot] = NewRow(trigger)]
    PROVE  /\ runs' \in [RunIds -> RunRows]
           /\ runs'[FreeSlot].trigger = trigger
           /\ runs'[FreeSlot].status = "running"
           /\ runs'[FreeSlot].age = 0
           /\ \A r \in RunIds : r # FreeSlot => runs'[r] = runs[r]
  <1>1. NewRow(trigger) \in RunRows
    BY DEF NewRow, RunRows
  <1> QED
    BY <1>1, FreeSlotIsFree DEF TypeInv, NewRow

\* A worker that starts on its run changes nothing but the record of overlaps.
LEMMA JoinedRows ==
    ASSUME TypeInv, NEW w \in Workers, run[w] \in RunIds, StartPull(w)
    PROVE  /\ runs' \in [RunIds -> RunRows]
           /\ \A r \in RunIds :
                /\ runs'[r].trigger = runs[r].trigger /\ runs'[r].status = runs[r].status
                /\ runs'[r].age = runs[r].age /\ runs'[r].today = runs[r].today
                /\ runs[r].overlapped => runs'[r].overlapped
           /\ Executing(run[w]) # {} => runs'[run[w]].overlapped
  <1> DEFINE mark == runs[run[w]].overlapped \/ Executing(run[w]) # {}
             row  == [runs[run[w]] EXCEPT !.overlapped = mark]
  <1>1. runs[run[w]] \in RunRows /\ mark \in BOOLEAN
    BY DEF TypeInv, RunRows
  <1>2. (runs[run[w]].overlapped => mark) /\ (Executing(run[w]) # {} => mark)
    OBVIOUS
  <1>3. runs' = [runs EXCEPT ![run[w]] = row]
    BY DEF StartPull
  <1> HIDE DEF mark
  <1>4. /\ row \in RunRows /\ row.overlapped = mark
        /\ row.trigger = runs[run[w]].trigger /\ row.status = runs[run[w]].status
        /\ row.age = runs[run[w]].age /\ row.today = runs[run[w]].today
    BY <1>1 DEF RunRows
  <1> HIDE DEF row
  <1> QED
    BY <1>2, <1>3, <1>4 DEF TypeInv

\* A job that is given back goes to the front, or nowhere.
LEMMA GivenBackQueue ==
    ASSUME TypeInv, NEW w \in Workers
    PROVE  /\ Stalled(job[w]) \in Jobs
           /\ Stalled(job[w]).name = job[w].name /\ Stalled(job[w]).run = job[w].run
           /\ GivenBack(w) \in Seq(Jobs)
           /\ \A n \in 1..Len(GivenBack(w)) :
                \/ GivenBack(w)[n] = Stalled(job[w])
                \/ \E m \in 1..Len(queue) : GivenBack(w)[n] = queue[m]
  <1>1. /\ Stalled(job[w]) \in Jobs
        /\ Stalled(job[w]).name = job[w].name /\ Stalled(job[w]).run = job[w].run
    BY DEF TypeInv, Stalled, Jobs
  <1>2. queue \in Seq(Jobs)
    BY DEF TypeInv
  <1>3. CASE job[w].stalled
    BY <1>1, <1>2, <1>3 DEF GivenBack
  <1>4. CASE ~job[w].stalled
    <2>1. GivenBack(w) = <<Stalled(job[w])>> \o queue
      BY <1>4 DEF GivenBack
    <2> QED
      BY <1>1, <1>2, <2>1, PutBack
  <1> QED
    BY <1>3, <1>4

\* Time ages the running rows, and at midnight no row is today's any more.
LEMMA AgedRows ==
    ASSUME TypeInv, Advance
    PROVE  /\ runs' \in [RunIds -> RunRows]
           /\ \A r \in RunIds :
                /\ runs'[r].trigger = runs[r].trigger
                /\ runs'[r].status = runs[r].status
                /\ runs'[r].today => runs[r].today
                /\ runs'[r].age <= runs[r].age + 1
                /\ runs'[r].overlapped = runs[r].overlapped
  <1> DEFINE row(r) == [runs[r] EXCEPT !.age = IF Running(r) /\ runs[r].age <= StaleAge
                                               THEN runs[r].age + 1 ELSE runs[r].age,
                                       !.today = runs[r].today /\ clock' # 0]
  <1>1. runs' = [r \in RunIds |-> row(r)]
    BY DEF Advance
  <1>2. ASSUME NEW r \in RunIds
        PROVE  /\ row(r) \in RunRows
               /\ row(r).trigger = runs[r].trigger
               /\ row(r).status = runs[r].status
               /\ row(r).today => runs[r].today
               /\ row(r).age <= runs[r].age + 1
               /\ row(r).overlapped = runs[r].overlapped
    <2> DEFINE a == IF Running(r) /\ runs[r].age <= StaleAge
                    THEN runs[r].age + 1 ELSE runs[r].age
               t == runs[r].today /\ clock' # 0
               older == [runs[r] EXCEPT !.age = a]
    <2>1. runs[r] \in RunRows
      BY DEF TypeInv
    <2>2. a \in Nat /\ a <= runs[r].age + 1
      BY <2>1 DEF RunRows
    <2>3. t \in BOOLEAN /\ (t => runs[r].today)
      OBVIOUS
    <2> HIDE DEF a, t
    <2>4. /\ older \in RunRows /\ older.age = a /\ older.trigger = runs[r].trigger
          /\ older.status = runs[r].status /\ older.overlapped = runs[r].overlapped
      BY <2>1, <2>2, WithAge
    <2>5. row(r) = [older EXCEPT !.today = t]
      BY DEF a, t
    <2> HIDE DEF older, row
    <2> QED
      BY <2>2, <2>3, <2>4, <2>5, WithToday
  <1> HIDE DEF row
  <1> QED
    BY <1>1, <1>2

LEMMA TypeInvInit == Init => TypeInv
  BY TimesAssumption DEF Init, TypeInv, RunRows, EmptyRow, TickJob, Jobs, Places, RunIds, NoRun

LEMMA TypeInvNext == TypeInv /\ HoldsInv /\ [Next]_vars => TypeInv'
  <1> SUFFICES ASSUME TypeInv, HoldsInv, [Next]_vars PROVE TypeInv'
    OBVIOUS
  <1> USE DEF TypeInv
  <1>0. TickJob \in Jobs /\ NoRun \in RunIds \cup {NoRun} /\ PullTime \in Nat /\ ImportWait \in Nat
    BY TimesAssumption DEF TickJob, Jobs
  <1>1. ASSUME NEW w \in Workers, TakeJob(w) PROVE TypeInv'
    <2>1. Tail(queue) \in Seq(Jobs) /\ Head(queue) \in Jobs
      BY <1>1, Taken DEF TakeJob
    <2>2. Head(queue).run \in RunIds \cup {NoRun}
      BY <2>1 DEF Jobs
    <2> QED
      BY <1>1, <2>1, <2>2 DEF TakeJob, Goto, Places
  <1>2. ASSUME NEW w \in Workers, Tick(w) PROVE TypeInv'
    BY <1>2, ReapedRows DEF Tick, Goto, Places
  <1>3. ASSUME NEW w \in Workers, CreateScheduled(w) PROVE TypeInv'
    BY <1>3, CreatedRows, FreeSlotIsFree DEF CreateScheduled, Goto, Places
  <1>4. ASSUME NEW w \in Workers, Execute(w) PROVE TypeInv'
    <2>1. CASE StartPull(w)
      <3>1. run[w] \in RunIds
        BY <1>4 DEF Execute, HoldsInv
      <3>2. runs' \in [RunIds -> RunRows]
        BY <2>1, <3>1, JoinedRows
      <3> QED
        BY <1>0, <1>4, <2>1, <3>2 DEF Execute, StartPull, Goto, Places
    <2>2. CASE Goto(w, "ack") /\ UNCHANGED <<runs, left>>
      BY <1>4, <2>2 DEF Execute, Goto, Places
    <2> QED
      BY <1>4, <2>1, <2>2 DEF Execute
  <1>5. ASSUME NEW w \in Workers, CreateImports(w) PROVE TypeInv'
    BY <1>0, <1>5 DEF CreateImports, Goto, Places
  <1>6. ASSUME NEW w \in Workers, PullFails(w) PROVE TypeInv'
    BY <1>6 DEF PullFails, Goto, Places
  <1>7. ASSUME NEW w \in Workers, Poll(w) PROVE TypeInv'
    BY <1>7 DEF Poll, Goto, Places
  <1>8. ASSUME NEW w \in Workers, Finish(w) PROVE TypeInv'
    <2>1. runs' \in [RunIds -> RunRows]
      BY <1>8, SettledRows DEF Finish, HoldsInv, Started
    <2> QED
      BY <1>8, <2>1 DEF Finish, Goto, Places
  <1>9. ASSUME NEW w \in Workers, Acknowledge(w) PROVE TypeInv'
    BY <1>0, <1>9 DEF Acknowledge, Goto, Places
  <1>10. ASSUME NEW w \in Workers, Restart(w) PROVE TypeInv'
    BY <1>10 DEF Restart, Goto, Places
  <1>11. ASSUME NEW w \in Workers, Crash(w) PROVE TypeInv'
    <2>2. queue' \in Seq(Jobs)
      BY <1>11, GivenBackQueue DEF Crash
    <2> QED
      BY <1>0, <1>11, <2>2 DEF Crash, Goto, Places
  <1>12. ASSUME NEW h \in Requesters, RequestRun(h) PROVE TypeInv'
    BY <1>12, ReapedRows DEF RequestRun, workerVars
  <1>13. ASSUME NEW h \in Requesters, RecordRequest(h) PROVE TypeInv'
    BY <1>13, CreatedRows, FreeSlotIsFree DEF RecordRequest, workerVars
  <1>14. ASSUME NEW h \in Requesters, QueueRequest(h) PROVE TypeInv'
    <2>1. [name |-> "run", run |-> request[h].run, stalled |-> FALSE] \in Jobs
      BY DEF Jobs
    <2> QED
      BY <1>0, <1>14, <2>1, Appended DEF QueueRequest, workerVars
  <1>15. ASSUME NEW h \in Requesters, LoseRequest(h) PROVE TypeInv'
    BY <1>0, <1>15 DEF LoseRequest, workerVars
  <1>16. ASSUME NEW w \in Workers, ImportStep(w) PROVE TypeInv'
    BY <1>16 DEF ImportStep, SettleImport, RollBackImport, workerVars
  <1>17. CASE SaveSettings
    BY <1>17 DEF SaveSettings, workerVars
  <1>18. CASE Advance
    <2>1. queue' \in Seq(Jobs)
      BY <1>0, <1>18, Appended DEF Advance
    <2>2. left' = [w \in Workers |-> IF left[w] > 0 THEN left[w] - 1 ELSE 0]
      BY <1>18 DEF Advance
    <2>3. left' \in [Workers -> Nat]
      BY <2>2
    <2> QED
      BY <1>18, <2>1, <2>3, AgedRows DEF Advance
  <1>19. CASE UNCHANGED vars
    BY <1>19 DEF vars
  <1>20. ASSUME NEW w \in Workers, LockExpires(w) PROVE TypeInv'
    BY <1>20, GivenBackQueue DEF LockExpires
  <1> QED
    BY <1>1, <1>2, <1>3, <1>4, <1>5, <1>6, <1>7, <1>8, <1>9, <1>10, <1>11, <1>12, <1>13,
       <1>14, <1>15, <1>16, <1>17, <1>18, <1>19, <1>20 DEF Next, WorkerStep, RequestStep
-----------------------------------------------------------------------------
(* Who holds which run *)

LEMMA OwnInvInit == Init => OwnInv
  <1> SUFFICES ASSUME Init PROVE OwnInv
    OBVIOUS
  <1>1. TypeInv
    BY TypeInvInit
  <1>2. \A n \in 1..Len(queue) : FALSE
    BY DEF Init
  <1>3. /\ \A w \in Workers : pc[w] = "idle" /\ job[w] = TickJob /\ run[w] = NoRun
        /\ \A h \in Requesters : request[h].at = "none" /\ request[h].run = NoRun
    BY DEF Init
  <1>4. HoldsInv
    BY <1>2, <1>3 DEF HoldsInv, Sound, TickJob, Started
  <1>5. OneHolder
    BY <1>2, <1>3 DEF OneHolder
  <1>6. ManualInv
    BY <1>2, <1>3 DEF ManualInv, TickJob
  <1> QED
    BY <1>1, <1>4, <1>5, <1>6 DEF OwnInv

\* Runs in the queue, at a worker or in a request are rows, or no run.
LEMMA HeldRunsAreRows ==
    ASSUME TypeInv
    PROVE  /\ \A n \in 1..Len(queue) : queue[n] \in Jobs /\ queue[n].run \in RunIds \cup {NoRun}
           /\ \A w \in Workers : job[w].run \in RunIds \cup {NoRun} /\ run[w] \in RunIds \cup {NoRun}
           /\ \A h \in Requesters : request[h].run \in RunIds \cup {NoRun}
  <1>1. \A j \in Jobs : j.run \in RunIds \cup {NoRun}
    BY DEF Jobs
  <1>2. \A n \in 1..Len(queue) : queue[n] \in Jobs
    BY DEF TypeInv
  <1>3. \A h \in Requesters : request[h].run \in RunIds \cup {NoRun}
    BY DEF TypeInv
  <1> QED
    BY <1>1, <1>2, <1>3 DEF TypeInv

\* A step that moves nothing from one holder to another.
LEMMA SameHolders ==
    ASSUME OwnInv, UNCHANGED <<queue, job, run>>,
           \A h \in Requesters : request'[h].run = request[h].run,
           \A r \in RunIds : runs'[r].trigger = runs[r].trigger
    PROVE  OneHolder' /\ ManualInv'
  <1>1. OneHolder'
    BY HeldRunsAreRows DEF OwnInv, OneHolder
  <1>2. ManualInv'
    BY HeldRunsAreRows DEF OwnInv, ManualInv
  <1> QED
    BY <1>1, <1>2

LEMMA TakeJobOwn ==
    ASSUME OwnInv, TypeInv', NEW w \in Workers, TakeJob(w)
    PROVE  HoldsInv' /\ OneHolder' /\ ManualInv'
  <1>1. /\ 1 \in 1..Len(queue) /\ Head(queue) = queue[1] /\ Head(queue) \in Jobs
        /\ \A n \in 1..Len(queue') :
             n + 1 \in 1..Len(queue) /\ n + 1 # 1 /\ queue'[n] = queue[n + 1]
    BY Taken DEF TakeJob, OwnInv, TypeInv
  <1>2. /\ job' = [job EXCEPT ![w] = queue[1]] /\ run' = [run EXCEPT ![w] = queue[1].run]
        /\ pc' = [pc EXCEPT ![w] = IF queue[1].name = "tick" THEN "tick" ELSE "execute"]
        /\ pc[w] = "idle" /\ UNCHANGED <<runs, request>>
    BY <1>1 DEF TakeJob, Goto
  <1>3. /\ job'[w] = queue[1] /\ run'[w] = queue[1].run
        /\ pc'[w] = IF queue[1].name = "tick" THEN "tick" ELSE "execute"
        /\ \A v \in Workers : v # w => job'[v] = job[v] /\ run'[v] = run[v] /\ pc'[v] = pc[v]
    BY <1>2 DEF OwnInv, TypeInv
  <1>4. Sound(queue[1]) /\ queue[1].run \in RunIds \cup {NoRun} /\ queue[1].name \in {"tick", "run"}
    BY <1>1 DEF OwnInv, HoldsInv, Jobs
  <1>5. HoldsInv'
    <2>1. \A n \in 1..Len(queue') : Sound(queue'[n])
      BY <1>1 DEF OwnInv, HoldsInv
    <2>2. /\ Sound(job'[w])
          /\ job'[w].name = "run" => run'[w] = job'[w].run
          /\ pc'[w] \in {"idle", "down", "tick", "create"} => job'[w].name = "tick" /\ run'[w] = NoRun
          /\ pc'[w] \in {"execute"} \cup Started => run'[w] \in RunIds
      BY <1>3, <1>4 DEF Sound, Started
    <2> QED
      BY <1>2, <1>3, <2>1, <2>2 DEF OwnInv, HoldsInv
  <1>6. OneHolder'
    <2>1. queue[1].run # NoRun => runs[queue[1].run].trigger = "manual"
      BY <1>1 DEF OwnInv, ManualInv
    <2>2. ASSUME NEW u \in Workers, NEW v \in Workers, u # v, run'[u] # NoRun,
                 runs'[run'[u]].trigger = "schedule"
          PROVE  run'[u] # run'[v]
      <3>1. u # w
        BY <1>2, <1>3, <2>1, <2>2
      <3>2. CASE v = w
        BY <1>2, <1>3, <2>1, <2>2, <3>1, <3>2
      <3>3. CASE v # w
        BY <1>2, <1>3, <2>2, <3>1, <3>3 DEF OwnInv, OneHolder
      <3> QED
        BY <3>2, <3>3
    <2> QED
      BY <2>2 DEF OneHolder
  <1>7. ManualInv'
    BY <1>1, <1>2, <1>3 DEF OwnInv, ManualInv
  <1> QED
    BY <1>5, <1>6, <1>7

\* A job that is given back, by a worker that dies or by one that goes on.
LEMMA GiveBackOwn ==
    ASSUME OwnInv, NEW w \in Workers, queue' = GivenBack(w), UNCHANGED <<runs, request>>,
           \A v \in Workers : v # w => job'[v] = job[v] /\ run'[v] = run[v] /\ pc'[v] = pc[v],
           \/ job'[w] = TickJob /\ run'[w] = NoRun /\ pc'[w] = "down"
           \/ job'[w] = Stalled(job[w]) /\ run'[w] = run[w] /\ pc'[w] = pc[w]
    PROVE  HoldsInv' /\ OneHolder' /\ ManualInv'
  <1>1. /\ Stalled(job[w]).name = job[w].name /\ Stalled(job[w]).run = job[w].run
        /\ \A n \in 1..Len(queue') :
                \/ queue'[n] = Stalled(job[w])
                \/ \E m \in 1..Len(queue) : queue'[n] = queue[m]
    BY GivenBackQueue DEF OwnInv
  <1>2. Sound(Stalled(job[w])) /\ Sound(TickJob)
    BY <1>1 DEF OwnInv, HoldsInv, Sound, TickJob
  <1>3. HoldsInv'
    <2>1. \A n \in 1..Len(queue') : Sound(queue'[n])
      BY <1>1, <1>2 DEF OwnInv, HoldsInv
    <2>2. /\ Sound(job'[w])
          /\ job'[w].name = "run" => run'[w] = job'[w].run
          /\ pc'[w] \in {"idle", "down", "tick", "create"} => job'[w].name = "tick" /\ run'[w] = NoRun
          /\ pc'[w] \in {"execute"} \cup Started => run'[w] \in RunIds
      BY <1>1, <1>2 DEF OwnInv, HoldsInv, TickJob, Started
    <2> QED
      BY <2>1, <2>2 DEF OwnInv, HoldsInv
  <1>4. OneHolder'
    BY DEF OwnInv, OneHolder
  <1>5. ManualInv'
    <2>1. job'[w].run # NoRun => runs[job'[w].run].trigger = "manual"
      BY <1>1 DEF OwnInv, ManualInv, TickJob
    <2>2. \A n \in 1..Len(queue') :
            queue'[n].run # NoRun => runs[queue'[n].run].trigger = "manual"
      BY <1>1 DEF OwnInv, ManualInv
    <2> QED
      BY <2>1, <2>2 DEF OwnInv, ManualInv
  <1> QED
    BY <1>3, <1>4, <1>5

LEMMA CrashOwn ==
    ASSUME OwnInv, NEW w \in Workers, Crash(w) \/ LockExpires(w)
    PROVE  HoldsInv' /\ OneHolder' /\ ManualInv'
  <1>1. /\ queue' = GivenBack(w) /\ UNCHANGED <<runs, request>>
        /\ \A v \in Workers : v # w => job'[v] = job[v] /\ run'[v] = run[v] /\ pc'[v] = pc[v]
    BY DEF Crash, LockExpires, Goto, OwnInv, TypeInv
  <1>2. \/ job'[w] = TickJob /\ run'[w] = NoRun /\ pc'[w] = "down"
        \/ job'[w] = Stalled(job[w]) /\ run'[w] = run[w] /\ pc'[w] = pc[w]
    BY DEF Crash, LockExpires, Goto, OwnInv, TypeInv
  <1> QED
    BY <1>1, <1>2, GiveBackOwn

LEMMA QueueRequestOwn ==
    ASSUME OwnInv, TypeInv', NEW h \in Requesters, QueueRequest(h)
    PROVE  HoldsInv' /\ OneHolder' /\ ManualInv'
  <1> DEFINE new == [name |-> "run", run |-> request[h].run, stalled |-> FALSE]
  <1>1. new \in Jobs /\ new.name = "run" /\ new.run = request[h].run /\ new.run # NoRun
    BY DEF OwnInv, TypeInv, HoldsInv, Jobs, QueueRequest
  <1> HIDE DEF new
  <1>2. /\ queue' = Append(queue, new)
        /\ request' = [request EXCEPT ![h] = [at |-> "none", run |-> NoRun]]
        /\ UNCHANGED <<runs, job, run, pc>>
    BY DEF QueueRequest, workerVars, new
  <1>3. \A n \in 1..Len(queue') :
            \/ n \in 1..Len(queue) /\ queue'[n] = queue[n]
            \/ n = Len(queue) + 1 /\ queue'[n] = new
    BY <1>1, <1>2, Appended DEF OwnInv, TypeInv
  <1>4. /\ request'[h].at = "none" /\ request'[h].run = NoRun
        /\ \A g \in Requesters : g # h => request'[g] = request[g]
    BY <1>2 DEF OwnInv, TypeInv
  <1>5. HoldsInv'
    BY <1>1, <1>2, <1>3, <1>4 DEF OwnInv, HoldsInv, Sound
  <1>6. OneHolder'
    BY <1>2 DEF OwnInv, OneHolder
  <1>7. ManualInv'
    BY <1>1, <1>2, <1>3, <1>4 DEF OwnInv, ManualInv
  <1> QED
    BY <1>5, <1>6, <1>7

LEMMA AdvanceOwn ==
    ASSUME OwnInv, TypeInv', Advance
    PROVE  HoldsInv' /\ OneHolder' /\ ManualInv'
  <1>1. queue' = queue \/ queue' = Append(queue, TickJob)
    BY DEF Advance
  <1>2. UNCHANGED <<request, pc, job, run>>
    BY DEF Advance
  <1>3. \A n \in 1..Len(queue') :
            \/ n \in 1..Len(queue) /\ queue'[n] = queue[n]
            \/ queue'[n] = TickJob
    BY <1>1, Appended DEF OwnInv, TypeInv, TickJob, Jobs
  <1>4. TickJob.run = NoRun /\ Sound(TickJob)
    BY DEF TickJob, Sound
  <1>5. HoldsInv'
    BY <1>2, <1>3, <1>4 DEF OwnInv, HoldsInv
  <1>6. OneHolder'
    BY <1>2, AgedRows, HeldRunsAreRows DEF OwnInv, OneHolder
  <1>7. ManualInv'
    BY <1>2, <1>3, <1>4, AgedRows, HeldRunsAreRows DEF OwnInv, ManualInv
  <1> QED
    BY <1>5, <1>6, <1>7

LEMMA CreateScheduledOwn ==
    ASSUME OwnInv, TypeInv', NEW w \in Workers, CreateScheduled(w)
    PROVE  HoldsInv' /\ OneHolder' /\ ManualInv'
  <1>1. /\ FreeSlots # {} /\ runs' = [runs EXCEPT ![FreeSlot] = NewRow("schedule")]
        /\ run' = [run EXCEPT ![w] = FreeSlot] /\ pc' = [pc EXCEPT ![w] = "execute"]
        /\ pc[w] = "create" /\ UNCHANGED <<queue, request, job>>
    BY DEF CreateScheduled, Goto
  <1>2. /\ run'[w] = FreeSlot /\ pc'[w] = "execute"
        /\ \A v \in Workers : v # w => run'[v] = run[v] /\ pc'[v] = pc[v]
    BY <1>1 DEF OwnInv, TypeInv
  <1>3. \A r \in RunIds : r # FreeSlot => runs'[r] = runs[r]
    BY <1>1, CreatedRows DEF OwnInv
  <1>4. HoldsInv'
    BY <1>1, <1>2, FreeSlotIsFree DEF OwnInv, HoldsInv, Started
  <1>5. OneHolder'
    BY <1>1, <1>2, <1>3, FreeSlotIsFree, HeldRunsAreRows DEF OwnInv, OneHolder
  <1>6. ManualInv'
    BY <1>1, <1>3, FreeSlotIsFree, HeldRunsAreRows DEF OwnInv, ManualInv
  <1> QED
    BY <1>4, <1>5, <1>6

LEMMA RecordRequestOwn ==
    ASSUME OwnInv, TypeInv', NEW h \in Requesters, RecordRequest(h)
    PROVE  HoldsInv' /\ OneHolder' /\ ManualInv'
  <1>1. /\ FreeSlots # {} /\ runs' = [runs EXCEPT ![FreeSlot] = NewRow("manual")]
        /\ request' = [request EXCEPT ![h] = [at |-> "recorded", run |-> FreeSlot]]
        /\ UNCHANGED <<queue, pc, job, run>>
    BY DEF RecordRequest, workerVars
  <1>2. /\ request'[h].at = "recorded" /\ request'[h].run = FreeSlot
        /\ \A g \in Requesters : g # h => request'[g] = request[g]
    BY <1>1 DEF OwnInv, TypeInv
  <1>3. runs'[FreeSlot].trigger = "manual" /\ \A r \in RunIds : r # FreeSlot => runs'[r] = runs[r]
    BY <1>1, CreatedRows DEF OwnInv
  <1>4. HoldsInv'
    BY <1>1, <1>2, FreeSlotIsFree DEF OwnInv, HoldsInv
  <1>5. OneHolder'
    BY <1>1, <1>3, FreeSlotIsFree, HeldRunsAreRows DEF OwnInv, OneHolder
  <1>6. ManualInv'
    BY <1>1, <1>2, <1>3, FreeSlotIsFree, HeldRunsAreRows DEF OwnInv, ManualInv
  <1> QED
    BY <1>4, <1>5, <1>6

\* A step of a worker that keeps its job and its run.
LEMMA WorkerMovesOwn ==
    ASSUME OwnInv, NEW w \in Workers, NEW place \in Places,
           pc' = [pc EXCEPT ![w] = place], UNCHANGED <<queue, request, job, run>>,
           \A r \in RunIds : runs'[r].trigger = runs[r].trigger,
           place \in {"idle", "down", "tick", "create"}
                => pc[w] \in {"idle", "down", "tick", "create"},
           place \in {"execute"} \cup Started => pc[w] \in {"execute"} \cup Started
    PROVE  HoldsInv' /\ OneHolder' /\ ManualInv'
  <1>1. pc'[w] = place /\ \A v \in Workers : v # w => pc'[v] = pc[v]
    BY DEF OwnInv, TypeInv
  <1>2. HoldsInv'
    BY <1>1 DEF OwnInv, HoldsInv
  <1> QED
    BY <1>2, SameHolders

LEMMA AcknowledgeOwn ==
    ASSUME OwnInv, NEW w \in Workers, Acknowledge(w)
    PROVE  HoldsInv' /\ OneHolder' /\ ManualInv'
  <1>1. /\ job'[w] = TickJob /\ run'[w] = NoRun /\ pc'[w] = "idle"
        /\ \A v \in Workers : v # w => job'[v] = job[v] /\ run'[v] = run[v] /\ pc'[v] = pc[v]
        /\ UNCHANGED <<runs, queue, request>>
    BY DEF Acknowledge, Goto, OwnInv, TypeInv
  <1>2. HoldsInv'
    BY <1>1 DEF OwnInv, HoldsInv, Sound, TickJob, Started
  <1>3. OneHolder'
    BY <1>1 DEF OwnInv, OneHolder
  <1>4. ManualInv'
    BY <1>1 DEF OwnInv, ManualInv, TickJob
  <1> QED
    BY <1>2, <1>3, <1>4

LEMMA OwnInvNext == OwnInv /\ [Next]_vars => OwnInv'
  <1> SUFFICES ASSUME OwnInv, [Next]_vars PROVE OwnInv'
    OBVIOUS
  <1> USE DEF OwnInv
  <1>0. TypeInv'
    BY TypeInvNext
  <1>1. ASSUME NEW w \in Workers, TakeJob(w) PROVE OwnInv'
    BY <1>0, <1>1, TakeJobOwn
  <1>2. ASSUME NEW w \in Workers, Tick(w) PROVE OwnInv'
    BY <1>0, <1>2, WorkerMovesOwn, ReapedRows DEF Tick, Goto, Places, Started
  <1>3. ASSUME NEW w \in Workers, CreateScheduled(w) PROVE OwnInv'
    BY <1>0, <1>3, CreateScheduledOwn
  <1>4. ASSUME NEW w \in Workers, Execute(w) PROVE OwnInv'
    <2>1. \A r \in RunIds : runs'[r].trigger = runs[r].trigger
      BY <1>4, JoinedRows DEF Execute, HoldsInv
    <2> QED
      BY <1>0, <1>4, <2>1, WorkerMovesOwn DEF Execute, StartPull, Goto, Places, Started
  <1>5. ASSUME NEW w \in Workers, CreateImports(w) PROVE OwnInv'
    BY <1>0, <1>5, WorkerMovesOwn DEF CreateImports, Goto, Places, Started
  <1>6. ASSUME NEW w \in Workers, PullFails(w) PROVE OwnInv'
    BY <1>0, <1>6, WorkerMovesOwn DEF PullFails, Goto, Places, Started
  <1>7. ASSUME NEW w \in Workers, Poll(w) PROVE OwnInv'
    BY <1>0, <1>7, WorkerMovesOwn DEF Poll, Goto, Places, Started
  <1>8. ASSUME NEW w \in Workers, Finish(w) PROVE OwnInv'
    <2>1. \A r \in RunIds : runs'[r].trigger = runs[r].trigger
      BY <1>8, SettledRows DEF Finish, HoldsInv, Started
    <2> QED
      BY <1>0, <1>8, <2>1, WorkerMovesOwn DEF Finish, Goto, Places, Started
  <1>9. ASSUME NEW w \in Workers, Acknowledge(w) PROVE OwnInv'
    BY <1>0, <1>9, AcknowledgeOwn
  <1>10. ASSUME NEW w \in Workers, Restart(w) PROVE OwnInv'
    BY <1>0, <1>10, WorkerMovesOwn DEF Restart, Goto, Places, Started
  <1>11. ASSUME NEW w \in Workers, Crash(w) PROVE OwnInv'
    BY <1>0, <1>11, CrashOwn
  <1>12. ASSUME NEW h \in Requesters, RequestRun(h) PROVE OwnInv'
    <2>1. \A g \in Requesters :
            /\ request'[g].run = request[g].run
            /\ request'[g].at = "recorded" <=> request[g].at = "recorded"
      BY <1>12 DEF RequestRun, TypeInv
    <2>2. OneHolder' /\ ManualInv'
      BY <1>12, <2>1, SameHolders, ReapedRows DEF RequestRun, workerVars
    <2>3. HoldsInv'
      BY <1>12, <2>1 DEF RequestRun, workerVars, HoldsInv
    <2> QED
      BY <1>0, <2>2, <2>3
  <1>13. ASSUME NEW h \in Requesters, RecordRequest(h) PROVE OwnInv'
    BY <1>0, <1>13, RecordRequestOwn
  <1>14. ASSUME NEW h \in Requesters, QueueRequest(h) PROVE OwnInv'
    BY <1>0, <1>14, QueueRequestOwn
  <1>15. ASSUME NEW h \in Requesters, LoseRequest(h) PROVE OwnInv'
    <2>1. /\ request'[h].at = "none" /\ request'[h].run = NoRun
          /\ \A g \in Requesters : g # h => request'[g] = request[g]
          /\ UNCHANGED <<runs, queue, pc, job, run>>
      BY <1>15 DEF LoseRequest, workerVars, TypeInv
    <2> QED
      BY <1>0, <2>1 DEF HoldsInv, OneHolder, ManualInv
  <1>16. ASSUME NEW w \in Workers, ImportStep(w) PROVE OwnInv'
    <2>1. UNCHANGED <<runs, queue, request, pc, job, run>>
      BY <1>16 DEF ImportStep, SettleImport, RollBackImport, workerVars
    <2> QED
      BY <1>0, <2>1 DEF HoldsInv, OneHolder, ManualInv
  <1>17. CASE SaveSettings
    <2>1. UNCHANGED <<runs, queue, request, pc, job, run>>
      BY <1>17 DEF SaveSettings, workerVars
    <2> QED
      BY <1>0, <2>1 DEF HoldsInv, OneHolder, ManualInv
  <1>18. CASE Advance
    BY <1>0, <1>18, AdvanceOwn
  <1>19. CASE UNCHANGED vars
    BY <1>0, <1>19 DEF vars, HoldsInv, OneHolder, ManualInv
  <1>20. ASSUME NEW w \in Workers, LockExpires(w) PROVE OwnInv'
    BY <1>0, <1>20, CrashOwn
  <1> QED
    BY <1>1, <1>2, <1>3, <1>4, <1>5, <1>6, <1>7, <1>8, <1>9, <1>10, <1>11, <1>12, <1>13,
       <1>14, <1>15, <1>16, <1>17, <1>18, <1>19, <1>20 DEF Next, WorkerStep, RequestStep
-----------------------------------------------------------------------------
(* Two workers on one run *)

\* Nobody starts, and no row that is worked on loses its record.
LEMMA OverlapKept ==
    ASSUME OwnInv, OverlapInv,
           \A v \in Workers : pc'[v] \in Started => pc[v] \in Started /\ run'[v] = run[v],
           \A v \in Workers : pc[v] \in Started /\ runs[run[v]].overlapped
                => runs'[run[v]].overlapped
    PROVE  OverlapInv'
  <1> SUFFICES ASSUME NEW v \in Workers, NEW w \in Workers, v # w, pc'[v] \in Started,
                      pc'[w] \in Started, run'[v] = run'[w]
               PROVE  runs'[run'[v]].overlapped
    BY DEF OverlapInv
  <1> QED
    BY DEF OverlapInv

LEMMA OverlapNext == OwnInv /\ OverlapInv /\ [Next]_vars => OverlapInv'
  <1> SUFFICES ASSUME OwnInv, OverlapInv, [Next]_vars PROVE OverlapInv'
    OBVIOUS
  <1>0. /\ pc \in [Workers -> Places] /\ run \in [Workers -> RunIds \cup {NoRun}]
        /\ TypeInv /\ runs \in [RunIds -> RunRows]
        /\ \A v \in Workers : pc[v] \in Started => run[v] \in RunIds
    BY DEF OwnInv, TypeInv, HoldsInv
  <1>1. ASSUME NEW w \in Workers, Execute(w) PROVE OverlapInv'
    <2>1. /\ pc[w] = "execute" /\ run' = run /\ run[w] \in RunIds
          /\ \A v \in Workers : v # w => pc'[v] = pc[v]
      BY <1>0, <1>1 DEF Execute, StartPull, Goto, OwnInv, HoldsInv
    <2>2. CASE StartPull(w)
      <3>1. /\ \A r \in RunIds : runs[r].overlapped => runs'[r].overlapped
            /\ Executing(run[w]) # {} => runs'[run[w]].overlapped
        BY <1>0, <2>1, <2>2, JoinedRows
      <3>2. \A v \in Workers : v # w /\ pc'[v] \in Started /\ run[v] = run[w]
                => v \in Executing(run[w])
        BY <2>1 DEF Executing, Started
      <3> SUFFICES ASSUME NEW u \in Workers, NEW v \in Workers, u # v, pc'[u] \in Started,
                          pc'[v] \in Started, run[u] = run[v]
                   PROVE  runs'[run[u]].overlapped
        BY <2>1 DEF OverlapInv
      <3>3. CASE u = w
        BY <3>1, <3>2, <3>3
      <3>4. CASE v = w
        BY <3>1, <3>2, <3>4
      <3>5. CASE u # w /\ v # w
        BY <1>0, <2>1, <3>1, <3>5 DEF OverlapInv
      <3> QED
        BY <3>3, <3>4, <3>5
    <2>3. CASE Goto(w, "ack") /\ UNCHANGED <<runs, left>>
      <3>1. pc'[w] = "ack" /\ runs' = runs
        BY <1>0, <2>3 DEF Goto
      <3> QED
        BY <2>1, <3>1, OverlapKept DEF Started
    <2> QED
      BY <1>1, <2>2, <2>3 DEF Execute
  <1>2. ASSUME NEW w \in Workers, Finish(w) PROVE OverlapInv'
    <2>1. /\ pc[w] \in Started /\ run' = run /\ pc'[w] = "ack"
          /\ \A v \in Workers : v # w => pc'[v] = pc[v]
      BY <1>0, <1>2 DEF Finish, Goto, Started
    <2>2. \A r \in RunIds : runs'[r].overlapped = runs[r].overlapped
      BY <1>0, <1>2, <2>1, SettledRows DEF Finish
    <2> QED
      BY <1>0, <2>1, <2>2, OverlapKept DEF Started
  <1>3. ASSUME NEW w \in Workers,
               \/ TakeJob(w) \/ Acknowledge(w) \/ Restart(w) \/ Crash(w) \/ LockExpires(w)
               \/ CreateImports(w) \/ PullFails(w) \/ Poll(w) \/ ImportStep(w)
        PROVE  OverlapInv'
    <2>1. /\ runs' = runs
          /\ \A v \in Workers : v # w => pc'[v] = pc[v] /\ run'[v] = run[v]
      BY <1>0, <1>3 DEF TakeJob, Acknowledge, Restart, Crash, LockExpires, CreateImports,
         PullFails, Poll, ImportStep, SettleImport, RollBackImport, workerVars, Goto
    <2>2. pc'[w] \in Started => pc[w] \in Started /\ run'[w] = run[w]
      BY <1>0, <1>3 DEF TakeJob, Acknowledge, Restart, Crash, LockExpires, CreateImports,
         PullFails, Poll, ImportStep, SettleImport, RollBackImport, workerVars, Goto, Started
    <2> QED
      BY <2>1, <2>2, OverlapKept
  <1>4. ASSUME NEW w \in Workers, Tick(w) PROVE OverlapInv'
    <2>1. /\ runs' = Reaped /\ run' = run /\ pc'[w] \in {"create", "ack"}
          /\ \A v \in Workers : v # w => pc'[v] = pc[v]
      BY <1>0, <1>4 DEF Tick, Goto
    <2> QED
      BY <1>0, <2>1, OverlapKept, ReapedRows DEF Started
  <1>5. ASSUME NEW w \in Workers, CreateScheduled(w) PROVE OverlapInv'
    <2>1. /\ FreeSlots # {} /\ runs' = [runs EXCEPT ![FreeSlot] = NewRow("schedule")]
          /\ pc'[w] = "execute"
          /\ \A v \in Workers : v # w => pc'[v] = pc[v] /\ run'[v] = run[v]
      BY <1>0, <1>5 DEF CreateScheduled, Goto
    <2>2. \A v \in Workers : pc[v] \in Started => runs'[run[v]] = runs[run[v]]
      BY <1>0, <2>1, CreatedRows, FreeSlotIsFree
    <2> QED
      BY <2>1, <2>2, OverlapKept DEF Started
  <1>6. ASSUME NEW h \in Requesters, RequestRun(h) PROVE OverlapInv'
    BY <1>0, <1>6, OverlapKept, ReapedRows DEF RequestRun, workerVars
  <1>7. ASSUME NEW h \in Requesters, RecordRequest(h) PROVE OverlapInv'
    <2>1. /\ FreeSlots # {} /\ runs' = [runs EXCEPT ![FreeSlot] = NewRow("manual")]
          /\ UNCHANGED <<pc, run>>
      BY <1>7 DEF RecordRequest, workerVars
    <2>2. \A v \in Workers : pc[v] \in Started => runs'[run[v]] = runs[run[v]]
      BY <1>0, <2>1, CreatedRows, FreeSlotIsFree
    <2> QED
      BY <2>1, <2>2, OverlapKept
  <1>8. CASE Advance
    <2>1. UNCHANGED <<pc, run>>
      BY <1>8 DEF Advance
    <2> QED
      BY <1>0, <1>8, <2>1, OverlapKept, AgedRows
  <1>9. CASE UNCHANGED <<runs, pc, run>>
    BY <1>9, OverlapKept
  <1>10. ASSUME NEW h \in Requesters, QueueRequest(h) \/ LoseRequest(h)
         PROVE  UNCHANGED <<runs, pc, run>>
    BY <1>10 DEF QueueRequest, LoseRequest, workerVars
  <1>11. CASE SaveSettings
    BY <1>9, <1>11 DEF SaveSettings, workerVars
  <1>12. CASE UNCHANGED vars
    BY <1>9, <1>12 DEF vars
  <1> QED
    BY <1>1, <1>2, <1>3, <1>4, <1>5, <1>6, <1>7, <1>8, <1>9, <1>10, <1>11, <1>12
       DEF Next, WorkerStep, RequestStep
-----------------------------------------------------------------------------
(* Scheduled runs end in time *)

\* A worker that does not move keeps its progress unless its own row changes.
LEMMA ProgressKept ==
    ASSUME NEW w \in Workers, Progress(w), pc'[w] = pc[w], run'[w] = run[w],
           left'[w] = left[w], runs'[run[w]] = runs[run[w]]
    PROVE  Progress(w)'
  BY DEF Progress, Started

\* Reaping fails manual runs only, of those somebody works on.
LEMMA ReapedProgress ==
    ASSUME OwnInv, NEW w \in Workers, Progress(w), runs' = Reaped,
           pc'[w] = pc[w], run'[w] = run[w], left'[w] = left[w]
    PROVE  Progress(w)'
  <1>1. CASE pc[w] \notin {"execute"} \cup Started
    BY <1>1 DEF Progress
  <1>2. CASE pc[w] \in {"execute"} \cup Started
    <2>1. run[w] \in RunIds
      BY <1>2 DEF OwnInv, HoldsInv
    <2>2. runs[run[w]].age \in Nat /\ PullTime + ImportWait <= StaleAge
          /\ PullTime \in Nat /\ ImportWait \in Nat /\ StaleAge \in Nat
      BY <2>1, TimesAssumption DEF OwnInv, TypeInv, RunRows
    <2>3. /\ Reaped[run[w]].trigger = runs[run[w]].trigger
          /\ \/ Reaped[run[w]] = runs[run[w]]
             \/ runs[run[w]].age > StaleAge /\ Reaped[run[w]].status = "failed"
      BY <2>1, ReapedRows DEF OwnInv
    <2> QED
      BY <1>2, <2>2, <2>3 DEF Progress
  <1> QED
    BY <1>1, <1>2

\* A step of one worker keeps the progress of the others: they work on other rows, or
\* together on a manual one that is marked as such.
LEMMA OthersProgress ==
    ASSUME OwnInv, OverlapInv, \A v \in Workers : Progress(v), NEW w \in Workers,
           \A v \in Workers : v # w => pc'[v] = pc[v] /\ run'[v] = run[v] /\ left'[v] = left[v],
           \/ runs' = runs
           \/ /\ run[w] \in RunIds /\ pc[w] \in Started
              /\ \A r \in RunIds : r # run[w] => runs'[r] = runs[r]
              /\ runs'[run[w]].trigger = runs[run[w]].trigger
              /\ runs'[run[w]].overlapped = runs[run[w]].overlapped,
           Progress(w)'
    PROVE  \A v \in Workers : Progress(v)'
  <1> SUFFICES ASSUME NEW v \in Workers, v # w PROVE Progress(v)'
    OBVIOUS
  <1>1. CASE pc[v] \notin {"execute"} \cup Started
    BY <1>1 DEF Progress
  <1>2. CASE pc[v] \in {"execute"} \cup Started /\ (runs' = runs \/ run[v] # run[w])
    <2>1. run[v] \in RunIds
      BY <1>2, NoRunIsNoRow DEF OwnInv, HoldsInv
    <2> QED
      BY <1>2, <2>1, ProgressKept
  <1>3. CASE pc[v] \in {"execute"} \cup Started /\ runs' # runs /\ run[v] = run[w]
    <2>1. run[w] # NoRun /\ runs[run[w]].trigger # "schedule"
      BY <1>3, NoRunIsNoRow DEF OwnInv, OneHolder
    <2>2. pc[v] \in Started => runs[run[w]].overlapped
      BY <1>3 DEF OverlapInv
    <2> QED
      BY <1>3, <2>1, <2>2 DEF Progress, Started
  <1> QED
    BY <1>1, <1>2, <1>3

\* A new row is nobody's yet.
LEMMA CreatedProgress ==
    ASSUME OwnInv, NEW w \in Workers, Progress(w), FreeSlots # {},
           NEW trigger \in {"schedule", "manual"},
           runs' = [runs EXCEPT ![FreeSlot] = NewRow(trigger)],
           pc'[w] = pc[w], run'[w] = run[w], left'[w] = left[w]
    PROVE  Progress(w)'
  <1>1. CASE pc[w] \notin {"execute"} \cup Started
    BY <1>1 DEF Progress
  <1>2. CASE pc[w] \in {"execute"} \cup Started
    <2>1. run[w] \in RunIds /\ run[w] # FreeSlot
      BY <1>2, FreeSlotIsFree DEF OwnInv, HoldsInv
    <2> QED
      BY <2>1, CreatedRows, ProgressKept DEF OwnInv
  <1> QED
    BY <1>1, <1>2

\* Time passes for a worker only while it may wait, and then its wait gets shorter.
LEMMA AdvanceProgress ==
    ASSUME OwnInv, NEW w \in Workers, Progress(w), Advance
    PROVE  Progress(w)'
  <1>1. UNCHANGED <<pc, run>> /\ Patient(w)
    BY DEF Advance
  <1>2. left' = [v \in Workers |-> IF left[v] > 0 THEN left[v] - 1 ELSE 0]
    BY DEF Advance
  <1>3. CASE pc[w] \notin {"execute"} \cup Started
    BY <1>1, <1>3 DEF Progress
  <1>4. CASE pc[w] \in {"execute"} \cup Started
    <2>1. pc[w] \in {"pull", "wait"} /\ left[w] > 0
      BY <1>1, <1>4 DEF Patient, Started
    <2>2. left'[w] = left[w] - 1 /\ left[w] \in Nat
      BY <1>2, <2>1 DEF OwnInv, TypeInv
    <2>3. run[w] \in RunIds
      BY <1>4 DEF OwnInv, HoldsInv
    <2>4. /\ runs[run[w]].age \in Nat /\ runs'[run[w]].age \in Nat
          /\ runs'[run[w]].age <= runs[run[w]].age + 1
          /\ runs'[run[w]].trigger = runs[run[w]].trigger
          /\ runs'[run[w]].status = runs[run[w]].status
          /\ runs'[run[w]].overlapped = runs[run[w]].overlapped
      BY <2>3, AgedRows DEF OwnInv, TypeInv, RunRows
    <2>5. PullTime \in Nat /\ ImportWait \in Nat
      BY TimesAssumption
    <2> QED
      BY <1>1, <1>4, <2>1, <2>2, <2>4, <2>5 DEF Progress
  <1> QED
    BY <1>3, <1>4

LEMMA ProgressNext ==
    OwnInv /\ OverlapInv /\ (\A w \in Workers : Progress(w)) /\ [Next]_vars
        => \A w \in Workers : Progress(w)'
  <1> SUFFICES ASSUME OwnInv, OverlapInv, \A w \in Workers : Progress(w), [Next]_vars
               PROVE  \A w \in Workers : Progress(w)'
    OBVIOUS
  <1>0. /\ pc \in [Workers -> Places] /\ run \in [Workers -> RunIds \cup {NoRun}]
        /\ left \in [Workers -> Nat] /\ runs \in [RunIds -> RunRows]
        /\ PullTime \in Nat /\ ImportWait \in Nat
    BY TimesAssumption DEF OwnInv, TypeInv
  <1>1. ASSUME NEW w \in Workers, TakeJob(w) PROVE \A v \in Workers : Progress(v)'
    <2>1. /\ pc'[w] = IF Head(queue).name = "tick" THEN "tick" ELSE "execute"
          /\ run'[w] = Head(queue).run /\ UNCHANGED <<left, runs>> /\ run[w] = NoRun
          /\ \A v \in Workers : v # w => pc'[v] = pc[v] /\ run'[v] = run[v]
      BY <1>0, <1>1 DEF TakeJob, Goto, OwnInv, HoldsInv
    <2>2. /\ Head(queue) = queue[1] /\ 1 \in 1..Len(queue) /\ Head(queue) \in Jobs
      BY <1>1, Taken DEF TakeJob, OwnInv, TypeInv
    <2>3. pc'[w] = "execute" => runs[run'[w]].trigger = "manual"
      BY <2>1, <2>2 DEF OwnInv, HoldsInv, ManualInv, Sound
    <2>4. Progress(w)'
      BY <2>1, <2>3 DEF Progress, Started
    <2> QED
      BY <2>1, <2>4, OthersProgress
  <1>2. ASSUME NEW w \in Workers, Tick(w) PROVE \A v \in Workers : Progress(v)'
    <2>1. /\ runs' = Reaped /\ UNCHANGED <<run, left>> /\ pc'[w] \in {"create", "ack"}
          /\ \A v \in Workers : v # w => pc'[v] = pc[v]
      BY <1>0, <1>2 DEF Tick, Goto
    <2>2. Progress(w)'
      BY <2>1 DEF Progress, Started
    <2> QED
      BY <2>1, <2>2, ReapedProgress
  <1>3. ASSUME NEW w \in Workers, CreateScheduled(w) PROVE \A v \in Workers : Progress(v)'
    <2>1. /\ FreeSlots # {} /\ runs' = [runs EXCEPT ![FreeSlot] = NewRow("schedule")]
          /\ run'[w] = FreeSlot /\ pc'[w] = "execute" /\ UNCHANGED left
          /\ \A v \in Workers : v # w => pc'[v] = pc[v] /\ run'[v] = run[v]
      BY <1>0, <1>3 DEF CreateScheduled, Goto
    <2>2. Progress(w)'
      BY <1>0, <2>1, CreatedRows DEF Progress, OwnInv
    <2> QED
      BY <2>1, <2>2, CreatedProgress
  <1>4. ASSUME NEW w \in Workers, Execute(w) PROVE \A v \in Workers : Progress(v)'
    <2>1. /\ pc[w] = "execute" /\ run[w] \in RunIds /\ run' = run
          /\ \A v \in Workers : v # w => pc'[v] = pc[v] /\ left'[v] = left[v]
      BY <1>0, <1>4 DEF Execute, StartPull, Goto, OwnInv, HoldsInv
    <2>2. CASE Running(run[w]) /\ StartPull(w)
      <3>1. pc'[w] = "pull" /\ left'[w] = PullTime
        BY <1>0, <2>2 DEF StartPull, Goto
      <3>2. \A r \in RunIds :
              /\ runs'[r].trigger = runs[r].trigger /\ runs'[r].status = runs[r].status
              /\ runs'[r].age = runs[r].age
              /\ runs[r].overlapped => runs'[r].overlapped
        BY <1>0, <2>1, <2>2, JoinedRows DEF OwnInv
      <3>3. Progress(w)'
        BY <1>0, <2>1, <2>2, <3>1, <3>2 DEF Progress, Started, Running
      <3>4. ASSUME NEW v \in Workers, v # w PROVE Progress(v)'
        <4>1. CASE pc[v] \notin {"execute"} \cup Started
          BY <2>1, <3>4, <4>1 DEF Progress
        <4>2. CASE pc[v] \in {"execute"} \cup Started
          <5>1. run[v] \in RunIds
            BY <4>2 DEF OwnInv, HoldsInv
          <5> QED
            BY <2>1, <3>2, <3>4, <5>1 DEF Progress
        <4> QED
          BY <4>1, <4>2
      <3> QED
        BY <3>3, <3>4
    <2>3. CASE Goto(w, "ack") /\ UNCHANGED <<runs, left>>
      <3>1. pc'[w] = "ack" /\ runs' = runs
        BY <1>0, <2>3 DEF Goto
      <3>2. Progress(w)'
        BY <3>1 DEF Progress, Started
      <3> QED
        BY <2>1, <3>1, <3>2, OthersProgress
    <2> QED
      BY <1>4, <2>2, <2>3 DEF Execute
  <1>5. ASSUME NEW w \in Workers, CreateImports(w) PROVE \A v \in Workers : Progress(v)'
    <2>1. /\ UNCHANGED <<runs, run>> /\ pc[w] = "pull" /\ pc'[w] = "wait" /\ left'[w] = ImportWait
          /\ \A v \in Workers : v # w => pc'[v] = pc[v] /\ left'[v] = left[v]
      BY <1>0, <1>5 DEF CreateImports, Goto
    <2>2. run[w] \in RunIds /\ runs[run[w]].age \in Nat /\ left[w] \in Nat
      BY <1>0, <2>1 DEF OwnInv, HoldsInv, Started, RunRows
    <2>3. Progress(w)'
      BY <1>0, <2>1, <2>2 DEF Progress, Started
    <2> QED
      BY <2>1, <2>3, OthersProgress
  <1>6. ASSUME NEW w \in Workers, PullFails(w) \/ Poll(w) PROVE \A v \in Workers : Progress(v)'
    <2>1. /\ UNCHANGED <<runs, run>> /\ pc[w] \in {"pull", "wait"}
          /\ pc'[w] \in {"succeeded", "failed"}
          /\ \A v \in Workers : v # w => pc'[v] = pc[v] /\ left'[v] = left[v]
      BY <1>0, <1>6 DEF PullFails, Poll, Goto
    <2>2. Progress(w)'
      BY <2>1 DEF Progress, Started
    <2> QED
      BY <2>1, <2>2, OthersProgress
  <1>7. ASSUME NEW w \in Workers, Finish(w) PROVE \A v \in Workers : Progress(v)'
    <2>1. /\ UNCHANGED <<run, left>> /\ pc[w] \in {"succeeded", "failed"} /\ pc'[w] = "ack"
          /\ \A v \in Workers : v # w => pc'[v] = pc[v]
      BY <1>0, <1>7 DEF Finish, Goto
    <2>2. run[w] \in RunIds
      BY <2>1 DEF OwnInv, HoldsInv, Started
    <2>3. /\ \A r \in RunIds : r # run[w] => runs'[r] = runs[r]
          /\ runs'[run[w]].trigger = runs[run[w]].trigger
          /\ runs'[run[w]].overlapped = runs[run[w]].overlapped
      BY <1>7, <2>2, SettledRows DEF Finish, OwnInv
    <2>4. Progress(w)'
      BY <2>1 DEF Progress, Started
    <2> QED
      BY <2>1, <2>2, <2>3, <2>4, OthersProgress DEF Started
  <1>8. ASSUME NEW w \in Workers, Acknowledge(w) \/ Restart(w) \/ Crash(w)
        PROVE  \A v \in Workers : Progress(v)'
    <2>1. /\ UNCHANGED runs /\ pc'[w] \in {"idle", "down"}
          /\ \A v \in Workers : v # w => pc'[v] = pc[v] /\ run'[v] = run[v] /\ left'[v] = left[v]
      BY <1>0, <1>8 DEF Acknowledge, Restart, Crash, Goto
    <2>2. Progress(w)'
      BY <2>1 DEF Progress, Started
    <2> QED
      BY <2>1, <2>2, OthersProgress
  <1>9. ASSUME NEW h \in Requesters, RequestRun(h) PROVE \A v \in Workers : Progress(v)'
    BY <1>9, ReapedProgress DEF RequestRun, workerVars
  <1>10. ASSUME NEW h \in Requesters, RecordRequest(h) PROVE \A v \in Workers : Progress(v)'
    BY <1>10, CreatedProgress DEF RecordRequest, workerVars
  <1>11. CASE Advance
    BY <1>11, AdvanceProgress
  <1>12. CASE UNCHANGED <<runs, pc, run, left>>
    BY <1>12 DEF Progress
  <1>13. ASSUME NEW h \in Requesters, QueueRequest(h) \/ LoseRequest(h)
         PROVE  UNCHANGED <<runs, pc, run, left>>
    BY <1>13 DEF QueueRequest, LoseRequest, workerVars
  <1>14. ASSUME NEW w \in Workers, ImportStep(w) \/ LockExpires(w)
         PROVE  UNCHANGED <<runs, pc, run, left>>
    BY <1>14 DEF ImportStep, SettleImport, RollBackImport, LockExpires, workerVars
  <1>15. CASE SaveSettings
    BY <1>12, <1>15 DEF SaveSettings, workerVars
  <1>16. CASE UNCHANGED vars
    BY <1>12, <1>16 DEF vars
  <1> QED
    BY <1>1, <1>2, <1>3, <1>4, <1>5, <1>6, <1>7, <1>8, <1>9, <1>10, <1>11, <1>12, <1>13,
       <1>14, <1>15, <1>16 DEF Next, WorkerStep, RequestStep
-----------------------------------------------------------------------------
(* Counting *)

\* Today's scheduled runs and the workers are finitely many.
LEMMA FiniteCounts ==
    /\ IsFiniteSet(ScheduledToday(runs)) /\ IsFiniteSet(Blocking) /\ IsFiniteSet(Creating)
    /\ Cardinality(ScheduledToday(runs)) \in Nat /\ Cardinality(Blocking) \in Nat
    /\ Cardinality(Creating) \in Nat /\ Cardinality(Workers) \in Nat
    /\ Cardinality(Creating) <= Cardinality(Workers)
  <1>1. IsFiniteSet(RunIds)
    BY TimesAssumption, FS_Interval DEF RunIds
  <1>2. ScheduledToday(runs) \in SUBSET RunIds /\ Blocking \in SUBSET RunIds
    BY DEF ScheduledToday, Blocking
  <1>3. Creating \in SUBSET Workers
    BY DEF Creating
  <1>4. IsFiniteSet(ScheduledToday(runs)) /\ IsFiniteSet(Blocking)
    BY <1>1, <1>2, FS_Subset
  <1>5. IsFiniteSet(Creating) /\ Cardinality(Creating) <= Cardinality(Workers)
    BY <1>3, FS_Subset, WorkersAssumption
  <1> QED
    BY <1>4, <1>5, FS_CardinalityType, WorkersAssumption

\* A step after which no more runs and no more undecided workers count.
LEMMA CountShrinks ==
    ASSUME CountInv, ScheduledToday(runs)' \subseteq ScheduledToday(runs),
           Blocking' \subseteq Blocking, Creating' \subseteq Creating
    PROVE  CountInv'
  <1>1. /\ Cardinality(ScheduledToday(runs)') <= Cardinality(ScheduledToday(runs))
        /\ IsFiniteSet(ScheduledToday(runs)')
    BY FiniteCounts, FS_Subset
  <1>2. Cardinality(Blocking') <= Cardinality(Blocking) /\ IsFiniteSet(Blocking')
    BY FiniteCounts, FS_Subset
  <1>3. Cardinality(Creating') <= Cardinality(Creating) /\ IsFiniteSet(Creating')
    BY FiniteCounts, FS_Subset
  <1>4. /\ Cardinality(ScheduledToday(runs)') \in Nat /\ Cardinality(Blocking') \in Nat
        /\ Cardinality(Creating') \in Nat
    BY <1>1, <1>2, <1>3, FS_CardinalityType
  <1> QED
    BY <1>1, <1>2, <1>3, <1>4, FiniteCounts DEF CountInv, MAX_SCHEDULED_ATTEMPTS_PER_DAY

\* Rows change, but none becomes one of today's, or blocks again.
LEMMA RowsShrink ==
    ASSUME CountInv, Creating' \subseteq Creating,
           \A r \in RunIds :
             /\ runs'[r].trigger = "schedule" /\ runs'[r].today
                  => runs[r].trigger = "schedule" /\ runs[r].today
             /\ runs'[r].trigger = "schedule" /\ runs'[r].today
                  /\ runs'[r].status \in {"running", "success"}
                  => runs[r].status \in {"running", "success"}
    PROVE  CountInv'
  <1>1. ScheduledToday(runs)' \subseteq ScheduledToday(runs)
    BY DEF ScheduledToday
  <1>2. Blocking' \subseteq Blocking
    BY DEF Blocking, ScheduledToday
  <1> QED
    BY <1>1, <1>2, CountShrinks

\* A decision: no scheduled run of today blocks it, and fewer than the cap are there.
LEMMA TickCounts ==
    ASSUME OwnInv, CountInv, NEW w \in Workers, Tick(w)
    PROVE  CountInv'
  <1>1. /\ runs' = Reaped /\ pc[w] = "tick"
        /\ pc' = [pc EXCEPT ![w] = IF enabled /\ ~AnyRunning(Reaped) /\ Due(Reaped)
                                   THEN "create" ELSE "ack"]
    BY DEF Tick, Goto
  <1>2. CASE ~(enabled /\ ~AnyRunning(Reaped) /\ Due(Reaped))
    <2>1. Creating' \subseteq Creating
      BY <1>1, <1>2 DEF Creating, OwnInv, TypeInv
    <2> QED
      BY <1>1, <2>1, RowsShrink, ReapedRows DEF OwnInv
  <1>3. CASE Due(Reaped)
    <2>1. ScheduledToday(runs)' = ScheduledToday(Reaped)
      BY <1>1 DEF ScheduledToday
    <2>2. Blocking' = {}
      BY <1>1, <1>3, <2>1 DEF Blocking, Due, ScheduledToday
    <2>3. Cardinality(ScheduledToday(runs)') < MAX_SCHEDULED_ATTEMPTS_PER_DAY
      BY <1>3, <2>1 DEF Due
    <2>4. Creating' \in SUBSET Workers
      BY DEF Creating
    <2>5. Cardinality(Creating') <= Cardinality(Workers) /\ IsFiniteSet(Creating')
      BY <2>4, FS_Subset, WorkersAssumption
    <2>6. ScheduledToday(Reaped) \in SUBSET RunIds /\ IsFiniteSet(RunIds)
      BY TimesAssumption, FS_Interval DEF ScheduledToday, RunIds
    <2>7. Cardinality(ScheduledToday(Reaped)) \in Nat
      BY <2>6, FS_Subset, FS_CardinalityType
    <2>8. Cardinality(Creating') \in Nat /\ Cardinality({}) = 0
      BY <2>5, FS_CardinalityType, FS_EmptySet
    <2> QED
      BY <2>1, <2>2, <2>3, <2>5, <2>7, <2>8, FiniteCounts
         DEF CountInv, MAX_SCHEDULED_ATTEMPTS_PER_DAY
  <1> QED
    BY <1>2, <1>3

\* Part of a set and of one more element is at most one element larger.
LEMMA OneMoreAtMost ==
    ASSUME NEW S, IsFiniteSet(S), NEW x, NEW T \in SUBSET (S \cup {x})
    PROVE  Cardinality(T) \in Nat /\ Cardinality(T) <= Cardinality(S) + 1
  <1>1. IsFiniteSet(S \cup {x}) /\ Cardinality(S) \in Nat
    BY FS_AddElement, FS_CardinalityType
  <1>2. Cardinality(S \cup {x}) = IF x \in S THEN Cardinality(S) ELSE Cardinality(S) + 1
    BY FS_AddElement
  <1>3. IsFiniteSet(T) /\ Cardinality(T) <= Cardinality(S \cup {x})
    BY <1>1, FS_Subset
  <1>4. Cardinality(T) \in Nat
    BY <1>3, FS_CardinalityType
  <1> QED
    BY <1>1, <1>2, <1>3, <1>4

\* One undecided worker less, one run more.
LEMMA CreateCounts ==
    ASSUME OwnInv, CountInv, NEW w \in Workers, CreateScheduled(w)
    PROVE  CountInv'
  <1>1. /\ FreeSlots # {} /\ runs' = [runs EXCEPT ![FreeSlot] = NewRow("schedule")]
        /\ pc[w] = "create" /\ pc' = [pc EXCEPT ![w] = "execute"]
    BY DEF CreateScheduled, Goto
  <1>2. Creating' = Creating \ {w} /\ w \in Creating
    BY <1>1 DEF Creating, OwnInv, TypeInv
  <1>3. Cardinality(Creating') = Cardinality(Creating) - 1
    BY <1>2, FiniteCounts, FS_RemoveElement
  <1>4. /\ ScheduledToday(runs)' \in SUBSET (ScheduledToday(runs) \cup {FreeSlot})
        /\ Blocking' \in SUBSET (Blocking \cup {FreeSlot})
    BY <1>1, CreatedRows DEF ScheduledToday, Blocking, OwnInv
  <1>5. /\ Cardinality(ScheduledToday(runs)') \in Nat /\ Cardinality(Blocking') \in Nat
        /\ Cardinality(ScheduledToday(runs)') <= Cardinality(ScheduledToday(runs)) + 1
        /\ Cardinality(Blocking') <= Cardinality(Blocking) + 1
    BY <1>4, FiniteCounts, OneMoreAtMost
  <1> QED
    BY <1>3, <1>5, FiniteCounts DEF CountInv, MAX_SCHEDULED_ATTEMPTS_PER_DAY

\* The run a worker finishes blocked before, if it is one of today's schedule.
LEMMA FinishCounts ==
    ASSUME OwnInv, CountInv, NEW w \in Workers, Progress(w), Finish(w)
    PROVE  CountInv'
  <1>1. run[w] \in RunIds /\ pc[w] \in {"succeeded", "failed"}
    BY DEF Finish, OwnInv, HoldsInv, Started
  <1>2. /\ runs'[run[w]].trigger = runs[run[w]].trigger
        /\ runs'[run[w]].today = runs[run[w]].today
        /\ \A r \in RunIds : r # run[w] => runs'[r] = runs[r]
    BY <1>1, SettledRows DEF Finish, OwnInv
  <1>3. runs[run[w]].trigger = "schedule" => runs[run[w]].status = "running"
    BY <1>1 DEF Progress, Started
  <1>4. Creating' \subseteq Creating
    BY DEF Finish, Goto, Creating, OwnInv, TypeInv
  <1> QED
    BY <1>2, <1>3, <1>4, RowsShrink

LEMMA CountInvInit == Init => CountInv
  <1> SUFFICES ASSUME Init PROVE CountInv
    OBVIOUS
  <1>1. ScheduledToday(runs) = {} /\ Blocking = {} /\ Creating = {}
    BY DEF Init, ScheduledToday, Blocking, Creating, EmptyRow
  <1> QED
    BY <1>1, FiniteCounts, FS_EmptySet DEF CountInv, MAX_SCHEDULED_ATTEMPTS_PER_DAY

LEMMA CountInvNext == SyncInv /\ [Next]_vars => CountInv'
  <1> SUFFICES ASSUME OwnInv, \A w \in Workers : Progress(w), CountInv, [Next]_vars PROVE CountInv'
    BY DEF SyncInv
  <1>0. pc \in [Workers -> Places]
    BY DEF OwnInv, TypeInv
  <1>1. ASSUME NEW w \in Workers, Tick(w) PROVE CountInv'
    BY <1>1, TickCounts
  <1>2. ASSUME NEW w \in Workers, CreateScheduled(w) PROVE CountInv'
    BY <1>2, CreateCounts
  <1>3. ASSUME NEW w \in Workers, Finish(w) PROVE CountInv'
    BY <1>3, FinishCounts
  <1>4. ASSUME NEW w \in Workers,
               \/ TakeJob(w) \/ CreateImports(w) \/ PullFails(w) \/ Poll(w)
               \/ Acknowledge(w) \/ Restart(w) \/ Crash(w)
        PROVE  CountInv'
    <2>1. runs' = runs /\ \E place \in Places : place # "create" /\ pc' = [pc EXCEPT ![w] = place]
      BY <1>4 DEF TakeJob, CreateImports, PullFails, Poll, Acknowledge, Restart, Crash,
                  Goto, Places
    <2>2. Creating' \subseteq Creating
      BY <1>0, <2>1 DEF Creating
    <2> QED
      BY <2>1, <2>2, RowsShrink
  <1>5. ASSUME NEW h \in Requesters, RequestRun(h) PROVE CountInv'
    <2>1. runs' = Reaped /\ Creating' = Creating
      BY <1>5 DEF RequestRun, workerVars, Creating
    <2> QED
      BY <2>1, RowsShrink, ReapedRows DEF OwnInv
  <1>6. ASSUME NEW h \in Requesters, RecordRequest(h) PROVE CountInv'
    <2>1. /\ FreeSlots # {} /\ runs' = [runs EXCEPT ![FreeSlot] = NewRow("manual")]
          /\ Creating' = Creating
      BY <1>6 DEF RecordRequest, workerVars, Creating
    <2> QED
      BY <2>1, RowsShrink, CreatedRows DEF OwnInv
  <1>7. CASE Advance
    <2>1. Creating' = Creating
      BY <1>7 DEF Advance, Creating
    <2> QED
      BY <1>7, <2>1, RowsShrink, AgedRows DEF OwnInv
  <1>8. CASE UNCHANGED <<runs, pc>>
    BY <1>8, RowsShrink DEF Creating
  <1>9. ASSUME NEW h \in Requesters, QueueRequest(h) \/ LoseRequest(h) PROVE UNCHANGED <<runs, pc>>
    BY <1>9 DEF QueueRequest, LoseRequest, workerVars
  <1>10. ASSUME NEW w \in Workers, ImportStep(w) \/ LockExpires(w) PROVE UNCHANGED <<runs, pc>>
    BY <1>10 DEF ImportStep, SettleImport, RollBackImport, LockExpires, workerVars
  <1>11. CASE SaveSettings
    BY <1>8, <1>11 DEF SaveSettings, workerVars
  <1>12. CASE UNCHANGED vars
    BY <1>8, <1>12 DEF vars
  <1>13. ASSUME NEW w \in Workers, Execute(w) PROVE CountInv'
    <2>1. \A r \in RunIds :
            /\ runs'[r].trigger = runs[r].trigger /\ runs'[r].today = runs[r].today
            /\ runs'[r].status = runs[r].status
      BY <1>13, JoinedRows DEF Execute, OwnInv, HoldsInv
    <2>2. \E place \in Places : place # "create" /\ pc' = [pc EXCEPT ![w] = place]
      BY <1>13 DEF Execute, StartPull, Goto, Places
    <2>3. Creating' \subseteq Creating
      BY <1>0, <2>2 DEF Creating
    <2> QED
      BY <2>1, <2>3, RowsShrink
  <1> QED
    BY <1>1, <1>2, <1>3, <1>4, <1>5, <1>6, <1>7, <1>8, <1>9, <1>10, <1>11, <1>12, <1>13
       DEF Next, WorkerStep, RequestStep

-----------------------------------------------------------------------------
(* Theorems *)

\* The instance that counts today's attempts, the run it then executes and the row that
\* run has stay together: the inductive invariant of the sync holds.
THEOREM SyncInvariant == Spec => []SyncInv
  <1>1. Init => SyncInv
    <2>1. Init => OverlapInv /\ \A w \in Workers : Progress(w)
      BY DEF Init, OverlapInv, Progress, Started
    <2> QED
      BY <2>1, OwnInvInit, CountInvInit DEF SyncInv
  <1>2. SyncInv /\ [Next]_vars => SyncInv'
    BY OwnInvNext, OverlapNext, ProgressNext, CountInvNext DEF SyncInv
  <1> QED
    BY <1>1, <1>2, PTL DEF Spec

\* decideSchedule: a day has at most three scheduled attempts and one success, and one
\* of each more for every further instance that may decide at the same moment.
THEOREM ScheduleIsBounded == Spec => []ScheduleBounded
  <1>1. SyncInv => ScheduleBounded
    <2> SUFFICES ASSUME SyncInv PROVE ScheduleBounded
      OBVIOUS
    <2> DEFINE successes == {r \in ScheduledToday(runs) : runs[r].status = "success"}
    <2>1. successes \in SUBSET Blocking
      BY DEF Blocking
    <2>2. Cardinality(successes) <= Cardinality(Blocking) /\ Cardinality(successes) \in Nat
      BY <2>1, FiniteCounts, FS_Subset, FS_CardinalityType
    <2> HIDE DEF successes
    <2>3. Cardinality(successes) <= Cardinality(Workers)
      BY <2>2, FiniteCounts DEF SyncInv, CountInv
    <2>4. AttemptsCapped
      BY FiniteCounts DEF SyncInv, CountInv, AttemptsCapped, MAX_SCHEDULED_ATTEMPTS_PER_DAY
    <2> QED
      BY <2>3, <2>4 DEF ScheduleBounded, OneScheduledSuccess, successes
  <1> QED
    BY <1>1, SyncInvariant, PTL

\* The outcome of a run is final, whatever locks are lost: what the worker of a scheduled
\* run, or the reaper, wrote is not overwritten by the other, and a success of a manual
\* run is taken back only where two workers executed the run at once.
THEOREM OutcomesAreFinal == Spec => OutcomeIsFinal
  <1> DEFINE Final(r) ==
        Finished(r) =>
            \/ runs'[r].status \in {runs[r].status, "running"}
            \/ /\ runs[r].trigger = "manual"
               /\ runs[r].status = "failed" \/ runs[r].overlapped
  <1>1. ASSUME SyncInv, Next, NEW r \in RunIds, Finished(r) PROVE Final(r)
    <2>0. OwnInv /\ TypeInv /\ runs[r].status \in {"success", "failed"}
      BY <1>1 DEF SyncInv, OwnInv, Finished
    <2>1. CASE runs' = runs
      BY <2>1
    <2>2. CASE runs' = Reaped
      BY <2>0, <2>2, ReapedRows
    <2>3. CASE \E trigger \in {"schedule", "manual"} :
                 FreeSlots # {} /\ runs' = [runs EXCEPT ![FreeSlot] = NewRow(trigger)]
      BY <2>0, <2>3, CreatedRows
    <2>4. CASE Advance
      BY <2>0, <2>4, AgedRows
    <2>5. ASSUME NEW w \in Workers, Finish(w) PROVE Final(r)
      <3>1. run[w] \in RunIds /\ pc[w] \in {"succeeded", "failed"}
        BY <2>0, <2>5 DEF Finish, OwnInv, HoldsInv, Started
      <3>2. \A q \in RunIds : q # run[w] => runs'[q] = runs[q]
        BY <2>0, <2>5, <3>1, SettledRows DEF Finish
      <3>3. /\ runs[run[w]].status \in {"running", "failed"} \/ runs[run[w]].overlapped
            /\ runs[run[w]].trigger = "schedule" => runs[run[w]].status = "running"
        BY <1>1, <3>1 DEF SyncInv, Progress, Started
      <3>4. runs[run[w]].trigger \in {"schedule", "manual"}
        BY <2>0, <3>1 DEF TypeInv, RunRows
      <3> QED
        BY <2>0, <3>2, <3>3, <3>4
    <2>6. ASSUME NEW w \in Workers, Execute(w) PROVE Final(r)
      <3>1. run[w] \in RunIds
        BY <2>0, <2>6 DEF Execute, OwnInv, HoldsInv
      <3>2. runs'[r].status = runs[r].status
        BY <2>0, <2>6, <3>1, JoinedRows DEF Execute
      <3> QED
        BY <3>2
    <2>8. ASSUME NEW w \in Workers, WorkerStep(w) \/ Crash(w) \/ LockExpires(w) \/ ImportStep(w),
                 ~Finish(w), ~Execute(w)
          PROVE  Final(r)
      BY <2>1, <2>2, <2>3, <2>8 DEF WorkerStep, TakeJob, Tick, CreateScheduled,
         CreateImports, PullFails, Poll, Acknowledge, Restart, Crash, LockExpires,
         ImportStep, SettleImport, RollBackImport
    <2>7. ASSUME NEW h \in Requesters, RequestRun(h) \/ RequestStep(h) \/ LoseRequest(h)
          PROVE  Final(r)
      BY <2>1, <2>2, <2>3, <2>7 DEF RequestStep, RequestRun, RecordRequest, QueueRequest,
         LoseRequest
    <2>9. CASE SaveSettings
      BY <2>1, <2>9 DEF SaveSettings
    <2> HIDE DEF Final
    <2> QED
      BY <1>1, <2>4, <2>5, <2>6, <2>7, <2>8, <2>9 DEF Next
  <1>2. SyncInv /\ [Next]_vars => [\A r \in RunIds : Final(r)]_vars
    <2>1. ASSUME SyncInv, Next, NEW r \in RunIds PROVE Final(r)
      BY <1>1, <2>1
    <2> HIDE DEF Final
    <2> QED
      BY <2>1
  <1> QED
    BY <1>2, SyncInvariant, PTL DEF Spec, OutcomeIsFinal
=============================================================================
