-------------------------------- MODULE Jobs --------------------------------
(***************************************************************************)
(* The job runner of the serve-engine: packages/serve-engine/app/services/ *)
(* jobs.py, the job rows of app/db.py and the startup hook of app/main.py. *)
(*                                                                         *)
(* Actors: the asyncio event loop, which runs start_job without an await   *)
(* (one start_job at a time); one worker thread per executor, which runs   *)
(* runner(); a timer thread per job, which flushes a throttled progress    *)
(* update; threadpool threads, which run request_cancel, acquire_lease and *)
(* release_lease; the operating system, which kills the process.           *)
(*                                                                         *)
(* Time is abstracted: whether a progress update is throttled and when a   *)
(* lease expires are choices.                                              *)
(***************************************************************************)
EXTENDS Naturals, Sequences

CONSTANTS
  Job,          \* job ids (uuids: each is used for one start_job)
  KindOf,       \* the kind each job is submitted with
  LeaseId,      \* ids of the external benches (the controller's run ids)
  NoLease,      \* the value of _lease while it is None
  NoJob,        \* an executor without a running job
  Faults,       \* which I/O may raise: "log" (the log file), "row" (sqlite)
  MaxRestarts   \* bound on the restarts of the process

ASSUME JobsAssumption ==
  /\ NoJob \notin Job
  /\ NoLease \notin LeaseId
  /\ KindOf \in [Job -> STRING]
  /\ Faults \subseteq {"log", "row"}
  /\ MaxRestarts \in Nat

ASSUME LeaseAssumption == NoLease \notin [id : LeaseId, active : BOOLEAN]

VARIABLES
  up,         \* the process serves requests
  restarts,   \* how often it was restarted
  row,        \* row[j]: status column of the job, "none" without a row
  live,       \* the keys of _cancel_events and _live_kinds
  flag,       \* flag[j]: the job's cancel event is set
  stage,      \* stage[j]: where start_job or runner() stands
  superseded, \* superseded[j]: the loads a stop job found live
  queue,      \* queue[c]: work the executor of class c has not picked up
  current,    \* current[c]: the job the worker of class c runs
  closed,     \* closed[j]: st["closed"]
  pending,    \* pending[j]: st["pending"] holds an update
  timer,      \* timer[j]: the flush timer's thread
  shown,      \* shown[j]: the row carries the last update fn reported
  lease,      \* _lease
  cancelReq   \* cancelReq[j]: a request_cancel between its reads

procVars == <<up, restarts>>
startVars == <<superseded, queue>>
progVars == <<closed, pending, timer, shown>>
vars == <<up, restarts, row, live, flag, stage, superseded, queue, current,
          closed, pending, timer, shown, lease, cancelReq>>

Class == {"lifecycle", "stop", "bench"}
Unfinished == {"queued", "running"}
Terminal == {"completed", "failed", "cancelled"}

job_class(kind) == IF kind = "stop" THEN "stop"
                   ELSE IF kind = "serve" THEN "lifecycle" ELSE "bench"
ClassOf(j) == job_class(KindOf[j])

\* Inside start_job (the event loop runs one at a time), ...
Starting == {"superseding", "opening", "inserting", "submitting"}
\* ... on an executor, ...
InRunner == {"entered", "running", "completing", "completed", "cancelling",
             "failing", "popping"}
\* ... and the rest: not submitted, waiting, raised out of start_job, done.
Stage == {"new", "queued", "leaked", "ended"} \cup Starting \cup InRunner

\* Mistake: a job counts as live only while it is on a worker.
IsOnWorker(j) == current[ClassOf(j)] = j

IsLive(j) == j \in live
LeaseIs(l) == lease # NoLease /\ lease.id = l
ActiveLease(l) == LeaseIs(l) /\ lease.active
LeaseHeld == \E l \in LeaseId : ActiveLease(l)
LiveOfClass(c) == {j \in live : ClassOf(j) = c}

TypeOK ==
  /\ up \in BOOLEAN
  /\ restarts \in 0..MaxRestarts
  /\ row \in [Job -> {"none"} \cup Unfinished \cup Terminal]
  /\ live \subseteq Job
  /\ flag \in [Job -> BOOLEAN]
  /\ stage \in [Job -> Stage]
  /\ superseded \in [Job -> SUBSET Job]
  /\ queue \in [Class -> Seq(Job)]
  /\ current \in [Class -> Job \cup {NoJob}]
  /\ closed \in [Job -> BOOLEAN]
  /\ pending \in [Job -> BOOLEAN]
  /\ timer \in [Job -> {"none", "armed", "fired"}]
  /\ shown \in [Job -> BOOLEAN]
  /\ lease \in [id : LeaseId, active : BOOLEAN] \cup {NoLease}
  /\ cancelReq \in [Job -> {"idle", "missed", "stale"}]

Init ==
  /\ up = TRUE
  /\ restarts = 0
  /\ row = [j \in Job |-> "none"]
  /\ live = {}
  /\ flag = [j \in Job |-> FALSE]
  /\ stage = [j \in Job |-> "new"]
  /\ superseded = [j \in Job |-> {}]
  /\ queue = [c \in Class |-> <<>>]
  /\ current = [c \in Class |-> NoJob]
  /\ closed = [j \in Job |-> FALSE]
  /\ pending = [j \in Job |-> FALSE]
  /\ timer = [j \in Job |-> "none"]
  /\ shown = [j \in Job |-> TRUE]
  /\ lease = NoLease
  /\ cancelReq = [j \in Job |-> "idle"]
-----------------------------------------------------------------------------
(* start_job.  No await: the event loop finishes one call before the next. *)

LoopFree == \A k \in Job : stage[k] \notin Starting

\* Mistake: the lease is not looked at.
RegisterUnderLease(j) ==
  /\ up /\ stage[j] = "new" /\ LoopFree
  /\ live' = live \cup {j}
  /\ stage' = [stage EXCEPT ![j] = "superseding"]
  /\ superseded' = [superseded EXCEPT ![j] =
       IF ClassOf(j) = "stop" THEN LiveOfClass("lifecycle") ELSE {}]
  /\ UNCHANGED <<procVars, row, flag, queue, current, progVars, lease, cancelReq>>

\* Under _state_lock: a bench is refused while a lease is active; a stop
\* notes the loads that are queued or running.
Register(j) ==
  /\ up /\ stage[j] = "new" /\ LoopFree
  /\ ClassOf(j) = "bench" => ~LeaseHeld
  /\ live' = live \cup {j}
  /\ stage' = [stage EXCEPT ![j] = "superseding"]
  /\ superseded' = [superseded EXCEPT ![j] =
       IF ClassOf(j) = "stop" THEN LiveOfClass("lifecycle") ELSE {}]
  /\ UNCHANGED <<procVars, row, flag, queue, current, progVars, lease, cancelReq>>

\* After the lock: one event at a time, while the workers go on.
FlagSuperseded(j, k) ==
  /\ stage[j] = "superseding"
  /\ k \in superseded[j] /\ k \in live /\ ~flag[k]
  /\ flag' = [flag EXCEPT ![k] = TRUE]
  /\ UNCHANGED <<procVars, row, live, stage, startVars, current, progVars,
                 lease, cancelReq>>

SupersededDone(j) ==
  /\ stage[j] = "superseding"
  /\ \A k \in superseded[j] : k \in live => flag[k]
  /\ stage' = [stage EXCEPT ![j] = "opening"]
  /\ UNCHANGED <<procVars, row, live, flag, startVars, current, progVars,
                 lease, cancelReq>>

\* log = JobLog(job_id)
OpenLog(j) ==
  /\ stage[j] = "opening"
  /\ stage' = [stage EXCEPT ![j] = "inserting"]
  /\ UNCHANGED <<procVars, row, live, flag, startVars, current, progVars,
                 lease, cancelReq>>

\* write("queued", 0, "queued")
InsertRow(j) ==
  /\ stage[j] = "inserting"
  /\ row' = [row EXCEPT ![j] = "queued"]
  /\ stage' = [stage EXCEPT ![j] = "submitting"]
  /\ UNCHANGED <<procVars, live, flag, startVars, current, progVars, lease,
                 cancelReq>>

\* One of the two raised: start_job ends, nothing takes the job out of live.
StartRaises(j) ==
  /\ \/ stage[j] = "opening" /\ "log" \in Faults
     \/ stage[j] = "inserting" /\ "row" \in Faults
  /\ stage' = [stage EXCEPT ![j] = "leaked"]
  /\ UNCHANGED <<procVars, row, live, flag, startVars, current, progVars,
                 lease, cancelReq>>

\* loop.run_in_executor(_executors[cls], runner)
Submit(j) ==
  /\ stage[j] = "submitting"
  /\ queue' = [queue EXCEPT ![ClassOf(j)] = Append(@, j)]
  /\ stage' = [stage EXCEPT ![j] = "queued"]
  /\ UNCHANGED <<procVars, row, live, flag, superseded, current, progVars,
                 lease, cancelReq>>
-----------------------------------------------------------------------------
(* runner(), on the single worker of the job's executor.                   *)

Pick(c) ==
  /\ current[c] = NoJob /\ queue[c] # <<>>
  /\ LET j == Head(queue[c]) IN
       /\ current' = [current EXCEPT ![c] = j]
       /\ stage' = [stage EXCEPT ![j] = "entered"]
  /\ queue' = [queue EXCEPT ![c] = Tail(@)]
  /\ UNCHANGED <<procVars, row, live, flag, superseded, progVars, lease, cancelReq>>

Goto(j, s) == stage' = [stage EXCEPT ![j] = s]

\* close_progress(): no later update is written, an armed timer is cancelled
\* (a timer that fired is already waiting for the lock).  The terminal write
\* supersedes what fn reported last.
CloseProgress(j) ==
  /\ closed' = [closed EXCEPT ![j] = TRUE]
  /\ timer' = [timer EXCEPT ![j] = IF @ = "armed" THEN "none" ELSE @]
  /\ shown' = [shown EXCEPT ![j] = TRUE]
  /\ UNCHANGED pending

\* if cancel.is_set(): raise JobCancelled
SkipCancelled(j) ==
  /\ stage[j] = "entered" /\ flag[j]
  /\ Goto(j, "cancelling")
  /\ CloseProgress(j)
  /\ UNCHANGED <<procVars, row, live, flag, startVars, current, lease, cancelReq>>

\* Mistake: the cancel flag is not looked at before fn is called.
StartFnUnchecked(j) ==
  /\ stage[j] = "entered"
  /\ row' = [row EXCEPT ![j] = "running"]
  /\ Goto(j, "running")
  /\ UNCHANGED <<procVars, live, flag, startVars, current, progVars, lease, cancelReq>>

\* write("running", 0, "started"), under plock; then fn is called.
StartFn(j) ==
  /\ stage[j] = "entered" /\ ~flag[j]
  /\ row' = [row EXCEPT ![j] = "running"]
  /\ Goto(j, "running")
  /\ UNCHANGED <<procVars, live, flag, startVars, current, progVars, lease, cancelReq>>

\* progress(p, msg) past the throttle interval: written at once.
ProgressNow(j) ==
  /\ stage[j] = "running" /\ ~closed[j]
  /\ row' = [row EXCEPT ![j] = "running"]
  /\ pending' = [pending EXCEPT ![j] = FALSE]
  /\ shown' = [shown EXCEPT ![j] = TRUE]
  /\ UNCHANGED <<procVars, live, flag, stage, startVars, current, closed,
                 timer, lease, cancelReq>>

\* progress(p, msg) within the interval: held, and a timer will write it.
ProgressLater(j) ==
  /\ stage[j] = "running" /\ ~closed[j]
  /\ pending' = [pending EXCEPT ![j] = TRUE]
  /\ shown' = [shown EXCEPT ![j] = FALSE]
  /\ timer' = [timer EXCEPT ![j] = IF @ = "none" THEN "armed" ELSE @]
  /\ UNCHANGED <<procVars, row, live, flag, stage, startVars, current, closed,
                 lease, cancelReq>>

\* The interval is over: the timer's thread goes for plock.
TimerFires(j) ==
  /\ timer[j] = "armed"
  /\ timer' = [timer EXCEPT ![j] = "fired"]
  /\ UNCHANGED <<procVars, row, live, flag, stage, startVars, current, closed,
                 pending, shown, lease, cancelReq>>

\* Mistake: _flush() writes although the progress is closed.
FlushAfterClose(j) ==
  /\ timer[j] = "fired"
  /\ timer' = [timer EXCEPT ![j] = "none"]
  /\ IF pending[j]
       THEN /\ row' = [row EXCEPT ![j] = "running"]
            /\ pending' = [pending EXCEPT ![j] = FALSE]
            /\ shown' = [shown EXCEPT ![j] = TRUE]
       ELSE UNCHANGED <<row, pending, shown>>
  /\ UNCHANGED <<procVars, live, flag, stage, startVars, current, closed,
                 lease, cancelReq>>

\* _flush(), under plock.
Flush(j) ==
  /\ timer[j] = "fired"
  /\ timer' = [timer EXCEPT ![j] = "none"]
  /\ IF ~closed[j] /\ pending[j]
       THEN /\ row' = [row EXCEPT ![j] = "running"]
            /\ pending' = [pending EXCEPT ![j] = FALSE]
            /\ shown' = [shown EXCEPT ![j] = TRUE]
       ELSE UNCHANGED <<row, pending, shown>>
  /\ UNCHANGED <<procVars, live, flag, stage, startVars, current, closed,
                 lease, cancelReq>>

\* _flush() whose sqlite write raised: the update is gone.
FlushRaises(j) ==
  /\ timer[j] = "fired" /\ ~closed[j] /\ pending[j] /\ "row" \in Faults
  /\ timer' = [timer EXCEPT ![j] = "none"]
  /\ pending' = [pending EXCEPT ![j] = FALSE]
  /\ UNCHANGED <<procVars, row, live, flag, stage, startVars, current, closed,
                 shown, lease, cancelReq>>

\* fn returns, notices its cancel flag, or raises.
FnReturns(j) ==
  /\ stage[j] = "running"
  /\ Goto(j, "completing")
  /\ CloseProgress(j)
  /\ UNCHANGED <<procVars, row, live, flag, startVars, current, lease, cancelReq>>

\* Mistake: a cancelled runner returns without a terminal write.
FnCancelledSilently(j) ==
  /\ stage[j] = "running" /\ flag[j]
  /\ Goto(j, "popping")
  /\ CloseProgress(j)
  /\ UNCHANGED <<procVars, row, live, flag, startVars, current, lease, cancelReq>>

FnCancelled(j) ==
  /\ stage[j] = "running" /\ flag[j]
  /\ Goto(j, "cancelling")
  /\ CloseProgress(j)
  /\ UNCHANGED <<procVars, row, live, flag, startVars, current, lease, cancelReq>>

\* Also: write("running") or a log line of the runner raised.
FnRaises(j) ==
  /\ \/ stage[j] = "running"
     \/ stage[j] = "entered" /\ ~flag[j] /\ "row" \in Faults
  /\ Goto(j, "failing")
  /\ CloseProgress(j)
  /\ UNCHANGED <<procVars, row, live, flag, startVars, current, lease, cancelReq>>

EndRow(j, status) ==
  /\ row' = [row EXCEPT ![j] = status]
  /\ UNCHANGED <<procVars, live, flag, startVars, current, progVars, lease, cancelReq>>

WriteCompleted(j) ==
  stage[j] = "completing" /\ Goto(j, "completed") /\ EndRow(j, "completed")

WriteCancelled(j) ==
  stage[j] = "cancelling" /\ Goto(j, "popping") /\ EndRow(j, "cancelled")

WriteFailed(j) ==
  stage[j] = "failing" /\ Goto(j, "popping") /\ EndRow(j, "failed")

\* log.write("=== completed ===")
LogCompleted(j) ==
  /\ stage[j] = "completed"
  /\ Goto(j, "popping")
  /\ UNCHANGED <<procVars, row, live, flag, startVars, current, progVars,
                 lease, cancelReq>>

\* write("completed") or the line after it raised: the `except Exception` runs.
CompletedRaises(j) ==
  /\ \/ stage[j] = "completing" /\ "row" \in Faults
     \/ stage[j] = "completed" /\ "log" \in Faults
  /\ Goto(j, "failing")
  /\ UNCHANGED <<procVars, row, live, flag, startVars, current, progVars,
                 lease, cancelReq>>

\* An `except` block's own log line or row write raised: only `finally` runs.
HandlerRaises(j) ==
  /\ stage[j] \in {"cancelling", "failing"} /\ Faults # {}
  /\ Goto(j, "popping")
  /\ UNCHANGED <<procVars, row, live, flag, startVars, current, progVars,
                 lease, cancelReq>>

\* Mistake: only a job that was not cancelled leaves the maps.
PopUnlessCancelled(j) ==
  /\ stage[j] = "popping"
  /\ live' = IF flag[j] THEN live ELSE live \ {j}
  /\ flag' = [flag EXCEPT ![j] = FALSE]
  /\ Goto(j, "ended")
  /\ current' = [current EXCEPT ![ClassOf(j)] = NoJob]
  /\ UNCHANGED <<procVars, row, startVars, progVars, lease, cancelReq>>

\* finally: the job leaves both maps (its event with it), the worker is free.
PopRunner(j) ==
  /\ stage[j] = "popping"
  /\ live' = live \ {j}
  /\ flag' = [flag EXCEPT ![j] = FALSE]
  /\ Goto(j, "ended")
  /\ current' = [current EXCEPT ![ClassOf(j)] = NoJob]
  /\ UNCHANGED <<procVars, row, startVars, progVars, lease, cancelReq>>
-----------------------------------------------------------------------------
(* request_cancel, on a threadpool thread (one per job: a bound).          *)

CancelFlag(j) ==
  /\ up /\ row[j] # "none" /\ cancelReq[j] = "idle" /\ j \in live /\ ~flag[j]
  /\ flag' = [flag EXCEPT ![j] = TRUE]
  /\ UNCHANGED <<procVars, row, live, stage, startVars, current, progVars,
                 lease, cancelReq>>

CancelMiss(j) ==
  /\ up /\ row[j] # "none" /\ cancelReq[j] = "idle" /\ j \notin live
  /\ cancelReq' = [cancelReq EXCEPT ![j] = "missed"]
  /\ UNCHANGED <<procVars, row, live, flag, stage, startVars, current,
                 progVars, lease>>

CancelRead(j) ==
  /\ cancelReq[j] = "missed"
  /\ cancelReq' = [cancelReq EXCEPT ![j] =
                     IF row[j] \in Terminal THEN "idle" ELSE "stale"]
  /\ UNCHANGED <<procVars, row, live, flag, stage, startVars, current,
                 progVars, lease>>

CancelOrphan(j) ==
  /\ cancelReq[j] = "stale"
  /\ row' = [row EXCEPT ![j] = "cancelled"]
  /\ cancelReq' = [cancelReq EXCEPT ![j] = "idle"]
  /\ UNCHANGED <<procVars, live, flag, stage, startVars, current, progVars, lease>>
-----------------------------------------------------------------------------
(* The external bench lease, under _state_lock.                            *)

\* acquire_lease returns a holder: a live bench job or another active lease.
LeaseRefused(l) ==
  \/ LiveOfClass("bench") # {}
  \/ \E m \in LeaseId \ {l} : ActiveLease(m)

AcquireLease(l) ==
  /\ up /\ ~LeaseRefused(l)
  /\ lease' = [id |-> l, active |-> TRUE]
  /\ UNCHANGED <<procVars, row, live, flag, stage, startVars, current,
                 progVars, cancelReq>>

ReleaseLease(l) ==
  /\ up /\ LeaseIs(l)
  /\ lease' = NoLease
  /\ UNCHANGED <<procVars, row, live, flag, stage, startVars, current,
                 progVars, cancelReq>>

ExpireLease(l) ==
  /\ ActiveLease(l)
  /\ lease' = [id |-> l, active |-> FALSE]
  /\ UNCHANGED <<procVars, row, live, flag, stage, startVars, current,
                 progVars, cancelReq>>
-----------------------------------------------------------------------------
(* The process is killed: the rows survive, everything in memory is gone.  *)
Crash ==
  /\ up /\ restarts < MaxRestarts
  /\ up' = FALSE
  /\ restarts' = restarts + 1
  /\ live' = {}
  /\ flag' = [j \in Job |-> FALSE]
  /\ stage' = [j \in Job |-> IF stage[j] = "new" THEN "new" ELSE "ended"]
  /\ superseded' = [j \in Job |-> {}]
  /\ queue' = [c \in Class |-> <<>>]
  /\ current' = [c \in Class |-> NoJob]
  /\ timer' = [j \in Job |-> "none"]
  /\ pending' = [j \in Job |-> FALSE]
  /\ lease' = NoLease
  /\ cancelReq' = [j \in Job |-> "idle"]
  /\ UNCHANGED <<row, closed, shown>>

\* Mistake: the startup only looks for jobs that were running.
StartupRunningOnly ==
  /\ ~up
  /\ up' = TRUE
  /\ row' = [j \in Job |-> IF row[j] = "running" THEN "failed" ELSE row[j]]
  /\ UNCHANGED <<restarts, live, flag, stage, startVars, current, progVars,
                 lease, cancelReq>>

\* _lifespan: db.fail_orphaned_jobs(), before the first request.
Startup ==
  /\ ~up
  /\ up' = TRUE
  /\ row' = [j \in Job |-> IF row[j] \in Unfinished THEN "failed" ELSE row[j]]
  /\ UNCHANGED <<restarts, live, flag, stage, startVars, current, progVars,
                 lease, cancelReq>>
-----------------------------------------------------------------------------
StartJob(j) == \/ Register(j)
               \/ \E k \in Job : FlagSuperseded(j, k)
               \/ SupersededDone(j)
               \/ OpenLog(j)
               \/ InsertRow(j)
               \/ Submit(j)

EndFn(j) == FnReturns(j) \/ FnCancelled(j) \/ FnRaises(j)

Runner(j) == \/ SkipCancelled(j)
             \/ StartFn(j)
             \/ ProgressNow(j)
             \/ ProgressLater(j)
             \/ EndFn(j)
             \/ WriteCompleted(j)
             \/ WriteCancelled(j)
             \/ WriteFailed(j)
             \/ LogCompleted(j)
             \/ PopRunner(j)

Timer(j) == TimerFires(j) \/ Flush(j)

RequestCancel(j) == CancelFlag(j) \/ CancelMiss(j) \/ CancelRead(j)

\* Some I/O raises, or a cancel finds the row that such a job left unfinished.
Faulty(j) == \/ StartRaises(j) \/ FlushRaises(j) \/ CompletedRaises(j)
             \/ HandlerRaises(j) \/ CancelOrphan(j)

Steps ==
  \/ \E j \in Job : StartJob(j) \/ Runner(j) \/ Timer(j) \/ RequestCancel(j)
  \/ \E c \in Class : Pick(c)
  \/ \E l \in LeaseId : AcquireLease(l) \/ ReleaseLease(l) \/ ExpireLease(l)
  \/ Crash
  \/ Startup

Next == Steps \/ \E j \in Job : Faulty(j)

(***************************************************************************)
(* The event loop, the workers and the timers are running threads; the     *)
(* supervisor restarts a dead process.  fn ends: each job's work is bound  *)
(* by its own timeouts (readiness, subprocess and HTTP timeouts).  Nobody  *)
(* has to submit, cancel or report progress.                               *)
(***************************************************************************)
Fairness ==
  /\ \A j \in Job :
       /\ WF_vars(StartJob(j) /\ stage[j] # "new")
       /\ WF_vars(SkipCancelled(j) \/ StartFn(j))
       /\ WF_vars(EndFn(j))
       /\ WF_vars(WriteCompleted(j) \/ WriteCancelled(j) \/ WriteFailed(j)
                    \/ LogCompleted(j) \/ PopRunner(j))
       /\ WF_vars(Timer(j))
  /\ \A c \in Class : WF_vars(Pick(c))
  /\ WF_vars(Startup)

Spec == Init /\ [][Next]_vars

\* Sound storage: no log line or row write raises.
FairSpec == Init /\ [][Steps]_vars /\ Fairness
-----------------------------------------------------------------------------
(* What can go wrong                                                       *)

\* The bench lease and a bench job never hold the GPU at the same time: while
\* an external bench has an active lease, no bench job is queued or running
\* here (acquire_lease and start_job check each other under _state_lock).
LeaseExcludesBenchJobs == LeaseHeld => LiveOfClass("bench") = {}

\* A row in a terminal state never changes again: no late timer flush,
\* progress update, cancel request or restart rewrites the outcome of a job
\* that somebody may already have read.
TerminalRowIsFinal == [][\A j \in Job : row[j] \in Terminal => row'[j] = row[j]]_vars

\* Whatever I/O fails, a row that reached a terminal state never goes back to
\* queued or running: a reader that stopped polling at the outcome missed
\* nothing but, at worst, another outcome.
EndedRowNeverRevives ==
  [][\A j \in Job : row[j] \in Terminal => row'[j] \in Terminal]_vars

\* GET /jobs never shows a job as queued or running that nobody works on: while
\* the process serves requests, an unfinished row has a live runner (the order
\* row-then-pop in runner(), registration before the row in start_job, and
\* fail_orphaned_jobs at startup).
UnfinishedRowHasRunner == up => \A j \in Job : row[j] \in Unfinished => j \in live

\* is_live: "True while this process has a runner (queued or running) for the
\* job": a job in the maps is in start_job, in its executor's queue, or on the
\* worker, so the maps never hold the GPU for a job that cannot end.
LiveJobHasRunner ==
  \A j \in live :
    \/ stage[j] \in Starting
    \/ \E i \in 1..Len(queue[ClassOf(j)]) : queue[ClassOf(j)][i] = j
    \/ current[ClassOf(j)] = j

\* A load that waits in the queue when a stop has been accepted never starts:
\* its row goes from queued to cancelled (or failed, if the process restarts).
StoppedLoadNeverStarts ==
  \A s, k \in Job :
    [](( /\ ClassOf(s) = "stop" /\ stage[s] = "submitting"
         /\ ClassOf(k) = "lifecycle" /\ stage[k] = "queued")
       => [](row[k] # "running" /\ row[k] # "completed"))

\* Every job that got a row reaches a terminal state, through its runner, a
\* cancel or a restart.
EveryJobEnds == \A j \in Job : (row[j] \in Unfinished) ~> (row[j] \in Terminal)

\* The runner implements what the rows promise their readers.
Lifecycle == INSTANCE JobLifecycle WITH status <- row
ImplementsLifecycle == Lifecycle!Spec
=============================================================================
