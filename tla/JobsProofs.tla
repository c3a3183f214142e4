----------------------------- MODULE JobsProofs -----------------------------
(***************************************************************************)
(* What the job runner of module Jobs guarantees for every set of jobs,    *)
(* kinds and leases, any number of restarts and, unless a theorem says     *)
(* otherwise, any failing I/O; and what holds of the two things built on   *)
(* it, the agentic suites next to the controller's bench runs and the page *)
(* that follows a job.                                                     *)
(*                                                                         *)
(* The argument: a job's row follows where its runner stands               *)
(* (RowFollowsStage), which holds because a job is in its executor's queue *)
(* once (QueueHoldsQueued), because an update is held only while fn runs   *)
(* or after close_progress (HeldOnlyWhileRunning), and because a cancel    *)
(* request that missed the runner finds a job that is over                 *)
(* (MissedCancelIsLate).                                                   *)
(*                                                                         *)
(* Every step of the suites and of the page is a step of the runner or     *)
(* leaves its variables alone, so that the same holds with them            *)
(* (SuiteRefinesJobs, FollowRefinesJobs).  Two processes measure one GPU   *)
(* one at a time, however the network delays and reorders the requests     *)
(* between them: from the answer to its acquire to its end a run's lease   *)
(* is active, for only an ended run releases it (LeaseOfRun).  And what a  *)
(* suite has started asks only while fn reads its output (FnOutlives),     *)
(* which is while the job is live.  A page that follows a job is told the  *)
(* truth about its runner, shows its log once and keeps its outcome,       *)
(* however the stream breaks: a stream finds no runner only when the job   *)
(* is over (DeadIsOver), and what a stream has sent is what the page has,  *)
(* or less (LogOk).                                                        *)
(***************************************************************************)
EXTENDS AgenticSuite, JobFollow, TLAPS

USE JobsAssumption DEF Goto, CloseProgress, EndRow, procVars, startVars, progVars
-----------------------------------------------------------------------------
\* Every variable keeps its type, whatever fails and however often the process
\* restarts.
THEOREM TypeCorrect == Spec => []TypeOK
<1>1. Init => TypeOK
  BY DEF Init, TypeOK, Stage
<1>2. TypeOK /\ [Next]_vars => TypeOK'
  <2> SUFFICES ASSUME TypeOK, [Next]_vars PROVE TypeOK'
    OBVIOUS
  <2> USE DEF TypeOK, Stage, Starting, InRunner, Class, Unfinished, Terminal
  <2>1. ASSUME NEW j \in Job, Register(j) PROVE TypeOK'
    BY <2>1 DEF Register, LiveOfClass
  <2>2. ASSUME NEW j \in Job, SupersededDone(j) PROVE TypeOK'
    BY <2>2 DEF SupersededDone
  <2>3. ASSUME NEW j \in Job, OpenLog(j) PROVE TypeOK'
    BY <2>3 DEF OpenLog
  <2>4. ASSUME NEW j \in Job, InsertRow(j) PROVE TypeOK'
    BY <2>4 DEF InsertRow
  <2>5. ASSUME NEW j \in Job, StartRaises(j) PROVE TypeOK'
    BY <2>5 DEF StartRaises
  <2>6. ASSUME NEW j \in Job, Submit(j) PROVE TypeOK'
    BY <2>6 DEF Submit, ClassOf, job_class
  <2>7. ASSUME NEW j \in Job, SkipCancelled(j) PROVE TypeOK'
    BY <2>7 DEF SkipCancelled
  <2>8. ASSUME NEW j \in Job, StartFn(j) PROVE TypeOK'
    BY <2>8 DEF StartFn
  <2>9. ASSUME NEW j \in Job, ProgressNow(j) PROVE TypeOK'
    BY <2>9 DEF ProgressNow
  <2>10. ASSUME NEW j \in Job, ProgressLater(j) PROVE TypeOK'
    BY <2>10 DEF ProgressLater
  <2>11. ASSUME NEW j \in Job, FnReturns(j) PROVE TypeOK'
    BY <2>11 DEF FnReturns
  <2>12. ASSUME NEW j \in Job, FnCancelled(j) PROVE TypeOK'
    BY <2>12 DEF FnCancelled
  <2>13. ASSUME NEW j \in Job, FnRaises(j) PROVE TypeOK'
    BY <2>13 DEF FnRaises
  <2>14. ASSUME NEW j \in Job, WriteCompleted(j) PROVE TypeOK'
    BY <2>14 DEF WriteCompleted
  <2>15. ASSUME NEW j \in Job, WriteCancelled(j) PROVE TypeOK'
    BY <2>15 DEF WriteCancelled
  <2>16. ASSUME NEW j \in Job, WriteFailed(j) PROVE TypeOK'
    BY <2>16 DEF WriteFailed
  <2>17. ASSUME NEW j \in Job, LogCompleted(j) PROVE TypeOK'
    BY <2>17 DEF LogCompleted
  <2>18. ASSUME NEW j \in Job, CompletedRaises(j) PROVE TypeOK'
    BY <2>18 DEF CompletedRaises
  <2>19. ASSUME NEW j \in Job, HandlerRaises(j) PROVE TypeOK'
    BY <2>19 DEF HandlerRaises
  <2>20. ASSUME NEW j \in Job, PopRunner(j) PROVE TypeOK'
    BY <2>20 DEF PopRunner, ClassOf, job_class
  <2>21. ASSUME NEW j \in Job, TimerFires(j) PROVE TypeOK'
    BY <2>21 DEF TimerFires
  <2>22. ASSUME NEW j \in Job, Flush(j) PROVE TypeOK'
    <3>1. row' \in [Job -> {"none"} \cup Unfinished \cup Terminal]
      BY SMTT(30), <2>22 DEF Flush
    <3>2. pending' \in [Job -> BOOLEAN] /\ shown' \in [Job -> BOOLEAN]
      BY ZenonT(40), <2>22 DEF Flush
    <3>3. timer' \in [Job -> {"none", "armed", "fired"}]
      BY <2>22 DEF Flush
    <3>. QED
      BY <2>22, <3>1, <3>2, <3>3 DEF Flush
  <2>23. ASSUME NEW j \in Job, FlushRaises(j) PROVE TypeOK'
    BY <2>23 DEF FlushRaises
  <2>24. ASSUME NEW j \in Job, CancelFlag(j) PROVE TypeOK'
    BY <2>24 DEF CancelFlag
  <2>25. ASSUME NEW j \in Job, CancelMiss(j) PROVE TypeOK'
    BY <2>25 DEF CancelMiss
  <2>26. ASSUME NEW j \in Job, CancelRead(j) PROVE TypeOK'
    BY <2>26 DEF CancelRead
  <2>27. ASSUME NEW j \in Job, CancelOrphan(j) PROVE TypeOK'
    BY <2>27 DEF CancelOrphan
  <2>28. ASSUME NEW j \in Job, NEW k \in Job, FlagSuperseded(j, k) PROVE TypeOK'
    BY <2>28 DEF FlagSuperseded
  <2>29. ASSUME NEW c \in Class, Pick(c) PROVE TypeOK'
    BY <2>29 DEF Pick
  <2>30. ASSUME NEW l \in LeaseId, AcquireLease(l) PROVE TypeOK'
    BY <2>30 DEF AcquireLease
  <2>31. ASSUME NEW l \in LeaseId, ReleaseLease(l) PROVE TypeOK'
    BY <2>31 DEF ReleaseLease
  <2>32. ASSUME NEW l \in LeaseId, ExpireLease(l) PROVE TypeOK'
    BY <2>32 DEF ExpireLease
  <2>33. ASSUME Crash PROVE TypeOK'
    <3>1. restarts' \in 0..MaxRestarts
      BY <2>33 DEF Crash, JobsAssumption
    <3>2. stage' \in [Job -> Stage]
      BY <2>33 DEF Crash
    <3>3. queue' \in [Class -> Seq(Job)] /\ current' \in [Class -> Job \cup {NoJob}]
      BY <2>33 DEF Crash
    <3>4. /\ superseded' \in [Job -> SUBSET Job]
          /\ timer' \in [Job -> {"none", "armed", "fired"}]
          /\ cancelReq' \in [Job -> {"idle", "missed", "stale"}]
      BY <2>33 DEF Crash
    <3>5. /\ flag' \in [Job -> BOOLEAN]
          /\ pending' \in [Job -> BOOLEAN]
      BY <2>33 DEF Crash
    <3>. QED
      BY <2>33, <3>1, <3>2, <3>3, <3>4, <3>5 DEF Crash
  <2>34. ASSUME Startup PROVE TypeOK'
    BY <2>34 DEF Startup
  <2>35. ASSUME UNCHANGED vars PROVE TypeOK'
    BY <2>35 DEF vars
  <2>. QED
    BY <2>1, <2>2, <2>3, <2>4, <2>5, <2>6, <2>7, <2>8, <2>9, <2>10, <2>11,
       <2>12, <2>13, <2>14, <2>15, <2>16, <2>17, <2>18, <2>19, <2>20, <2>21,
       <2>22, <2>23, <2>24, <2>25, <2>26, <2>27, <2>28, <2>29, <2>30, <2>31,
       <2>32, <2>33, <2>34, <2>35
    DEF Next, Steps, Faulty, StartJob, Runner, EndFn, Timer, RequestCancel
<1>. QED
  BY <1>1, <1>2, PTL DEF Spec
-----------------------------------------------------------------------------
(* The bench lease                                                         *)

LEMMA LeaseStep ==
  ASSUME LeaseExcludesBenchJobs, [Next]_vars
  PROVE  LeaseExcludesBenchJobs'
<1> USE DEF LeaseExcludesBenchJobs, LeaseHeld, ActiveLease, LeaseIs,
            LiveOfClass, ClassOf
<1>1. \/ UNCHANGED <<live, lease>>
      \/ \E j \in Job : Register(j) \/ PopRunner(j)
      \/ \E l \in LeaseId : AcquireLease(l)
      \/ \E l \in LeaseId : ReleaseLease(l)
      \/ \E l \in LeaseId : ExpireLease(l)
      \/ Crash
  BY DEF Next, Steps, Faulty, vars, StartJob, Runner, EndFn, Timer, RequestCancel,
         SupersededDone, OpenLog, InsertRow, StartRaises, Submit,
         SkipCancelled, StartFn, ProgressNow, ProgressLater, FnReturns,
         FnCancelled, FnRaises, WriteCompleted, WriteCancelled, WriteFailed,
         LogCompleted, CompletedRaises, HandlerRaises, TimerFires, Flush,
         FlushRaises, CancelFlag, CancelMiss, CancelRead, CancelOrphan,
         FlagSuperseded, Pick, Startup
<1>2. CASE UNCHANGED <<live, lease>>
  BY <1>2
<1>3. ASSUME NEW j \in Job, Register(j) PROVE LeaseExcludesBenchJobs'
  BY <1>3 DEF Register
<1>4. ASSUME NEW j \in Job, PopRunner(j) PROVE LeaseExcludesBenchJobs'
  BY <1>4 DEF PopRunner
<1>5. ASSUME NEW l \in LeaseId, AcquireLease(l) PROVE LeaseExcludesBenchJobs'
  BY <1>5 DEF AcquireLease, LeaseRefused
<1>6. ASSUME NEW l \in LeaseId, ReleaseLease(l) PROVE LeaseExcludesBenchJobs'
  BY <1>6 DEF ReleaseLease
<1>7. ASSUME NEW l \in LeaseId, ExpireLease(l) PROVE LeaseExcludesBenchJobs'
  BY <1>7 DEF ExpireLease
<1>8. ASSUME Crash PROVE LeaseExcludesBenchJobs'
  BY <1>8 DEF Crash
<1>. QED
  BY <1>1, <1>2, <1>3, <1>4, <1>5, <1>6, <1>7, <1>8

\* No bench job is accepted while an external bench holds the lease, and none
\* is granted while a bench job is live, whoever comes first (start_job and
\* acquire_lease, each under _state_lock).
THEOREM LeaseCorrect == Spec => []LeaseExcludesBenchJobs
<1>1. Init => LeaseExcludesBenchJobs
  BY DEF Init, LeaseExcludesBenchJobs, LeaseHeld, ActiveLease, LeaseIs
<1>. QED
  BY <1>1, LeaseStep, PTL DEF Spec
-----------------------------------------------------------------------------
(* The row follows the runner                                              *)

\* The live maps hold the jobs whose start_job or runner() is not over.
LiveFollowsStage ==
  \A j \in Job : j \in live <=> stage[j] \notin {"new", "ended"}

\* A dead process works on nothing.
DownIsIdle == ~up => \A j \in Job : stage[j] \in {"new", "ended"}

\* What waits in an executor's queue is of its class, was submitted once, and
\* was not picked up.
QueueHoldsQueued ==
  \A c \in Class : \A i \in 1..Len(queue[c]) :
    /\ ClassOf(queue[c][i]) = c
    /\ stage[queue[c][i]] = "queued"
    /\ \A k \in 1..Len(queue[c]) : queue[c][k] = queue[c][i] => k = i

\* An update that waits for its timer belongs to a job whose fn runs, unless
\* close_progress dropped it.
HeldOnlyWhileRunning ==
  \A j \in Job : (pending[j] /\ ~closed[j]) => stage[j] = "running"

\* Until fn has returned, the row says where the runner stands.
RowFollowsStage ==
  \A j \in Job :
    /\ stage[j] \in {"new", "superseding", "opening", "inserting", "leaked"}
         => row[j] = "none"
    /\ stage[j] \in {"submitting", "queued", "entered"} => row[j] = "queued"
    /\ stage[j] = "running" => row[j] = "running"

\* A request_cancel that did not find the job in the maps is about a job that
\* is over.
MissedCancelIsLate == \A j \in Job : cancelReq[j] # "idle" => stage[j] = "ended"

RunnerInv ==
  /\ LiveFollowsStage
  /\ DownIsIdle
  /\ QueueHoldsQueued
  /\ HeldOnlyWhileRunning
  /\ RowFollowsStage
  /\ MissedCancelIsLate

\* A worker picks a job that waits.
LEMMA PickHead ==
  ASSUME TypeOK, QueueHoldsQueued, NEW c \in Class, Pick(c)
  PROVE  \E j \in Job : /\ j = Head(queue[c])
                       /\ stage[j] = "queued"
                       /\ stage' = [stage EXCEPT ![j] = "entered"]
<1>1. queue[c] \in Seq(Job) /\ queue[c] # <<>>
  BY DEF Pick, TypeOK
<1>2. 1 \in 1..Len(queue[c]) /\ Head(queue[c]) = queue[c][1] /\ queue[c][1] \in Job
  BY <1>1
<1>. QED
  BY <1>2 DEF Pick, QueueHoldsQueued

LEMMA LiveStep ==
  ASSUME TypeOK, LiveFollowsStage, QueueHoldsQueued, [Next]_vars
  PROVE  LiveFollowsStage'
<1> USE DEF TypeOK, LiveFollowsStage, Starting
<1>1. \/ UNCHANGED <<live, stage>>
      \/ \E j \in Job : Register(j) \/ SupersededDone(j) \/ OpenLog(j)
      \/ \E j \in Job : InsertRow(j) \/ StartRaises(j) \/ Submit(j)
      \/ \E j \in Job : SkipCancelled(j) \/ StartFn(j) \/ FnReturns(j)
      \/ \E j \in Job : FnCancelled(j) \/ FnRaises(j) \/ WriteCompleted(j)
      \/ \E j \in Job : WriteCancelled(j) \/ WriteFailed(j) \/ LogCompleted(j)
      \/ \E j \in Job : CompletedRaises(j) \/ HandlerRaises(j) \/ PopRunner(j)
      \/ \E c \in Class : Pick(c)
      \/ Crash
  BY DEF Next, Steps, Faulty, vars, StartJob, Runner, EndFn, Timer, RequestCancel,
         ProgressNow, ProgressLater, TimerFires, Flush, FlushRaises,
         CancelFlag, CancelMiss, CancelRead, CancelOrphan, FlagSuperseded,
         AcquireLease, ReleaseLease, ExpireLease, Startup
<1>2. CASE UNCHANGED <<live, stage>>
  BY <1>2
<1>3. ASSUME NEW j \in Job, Register(j) PROVE LiveFollowsStage'
  BY <1>3 DEF Register
<1>4. ASSUME NEW j \in Job, SupersededDone(j) PROVE LiveFollowsStage'
  BY <1>4 DEF SupersededDone
<1>5. ASSUME NEW j \in Job, OpenLog(j) PROVE LiveFollowsStage'
  BY <1>5 DEF OpenLog
<1>6. ASSUME NEW j \in Job, InsertRow(j) PROVE LiveFollowsStage'
  BY <1>6 DEF InsertRow
<1>7. ASSUME NEW j \in Job, StartRaises(j) PROVE LiveFollowsStage'
  BY <1>7 DEF StartRaises
<1>8. ASSUME NEW j \in Job, Submit(j) PROVE LiveFollowsStage'
  BY <1>8 DEF Submit
<1>9. ASSUME NEW j \in Job, SkipCancelled(j) PROVE LiveFollowsStage'
  BY <1>9 DEF SkipCancelled
<1>10. ASSUME NEW j \in Job, StartFn(j) PROVE LiveFollowsStage'
  BY <1>10 DEF StartFn
<1>11. ASSUME NEW j \in Job, FnReturns(j) PROVE LiveFollowsStage'
  BY <1>11 DEF FnReturns
<1>12. ASSUME NEW j \in Job, FnCancelled(j) PROVE LiveFollowsStage'
  BY <1>12 DEF FnCancelled
<1>13. ASSUME NEW j \in Job, FnRaises(j) PROVE LiveFollowsStage'
  BY <1>13 DEF FnRaises
<1>14. ASSUME NEW j \in Job, WriteCompleted(j) PROVE LiveFollowsStage'
  BY <1>14 DEF WriteCompleted
<1>15. ASSUME NEW j \in Job, WriteCancelled(j) PROVE LiveFollowsStage'
  BY <1>15 DEF WriteCancelled
<1>16. ASSUME NEW j \in Job, WriteFailed(j) PROVE LiveFollowsStage'
  BY <1>16 DEF WriteFailed
<1>17. ASSUME NEW j \in Job, LogCompleted(j) PROVE LiveFollowsStage'
  BY <1>17 DEF LogCompleted
<1>18. ASSUME NEW j \in Job, CompletedRaises(j) PROVE LiveFollowsStage'
  BY <1>18 DEF CompletedRaises
<1>19. ASSUME NEW j \in Job, HandlerRaises(j) PROVE LiveFollowsStage'
  BY <1>19 DEF HandlerRaises
<1>20. ASSUME NEW j \in Job, PopRunner(j) PROVE LiveFollowsStage'
  BY <1>20 DEF PopRunner
<1>21. ASSUME NEW c \in Class, Pick(c) PROVE LiveFollowsStage'
  BY <1>21, PickHead DEF Pick
<1>22. ASSUME Crash PROVE LiveFollowsStage'
  BY <1>22 DEF Crash
<1>. QED
  BY <1>1, <1>2, <1>3, <1>4, <1>5, <1>6, <1>7, <1>8, <1>9, <1>10, <1>11,
     <1>12, <1>13, <1>14, <1>15, <1>16, <1>17, <1>18, <1>19, <1>20, <1>21,
     <1>22

LEMMA DownStep ==
  ASSUME TypeOK, DownIsIdle, QueueHoldsQueued, [Next]_vars
  PROVE  DownIsIdle'
<1> USE DEF TypeOK, DownIsIdle, Starting
<1>1. \/ UNCHANGED <<up, stage>>
      \/ \E j \in Job : Register(j) \/ SupersededDone(j) \/ OpenLog(j)
      \/ \E j \in Job : InsertRow(j) \/ StartRaises(j) \/ Submit(j)
      \/ \E j \in Job : SkipCancelled(j) \/ StartFn(j) \/ FnReturns(j)
      \/ \E j \in Job : FnCancelled(j) \/ FnRaises(j) \/ WriteCompleted(j)
      \/ \E j \in Job : WriteCancelled(j) \/ WriteFailed(j) \/ LogCompleted(j)
      \/ \E j \in Job : CompletedRaises(j) \/ HandlerRaises(j) \/ PopRunner(j)
      \/ \E c \in Class : Pick(c)
      \/ Crash
      \/ Startup
  BY DEF Next, Steps, Faulty, vars, StartJob, Runner, EndFn, Timer, RequestCancel,
         ProgressNow, ProgressLater, TimerFires, Flush, FlushRaises,
         CancelFlag, CancelMiss, CancelRead, CancelOrphan, FlagSuperseded,
         AcquireLease, ReleaseLease, ExpireLease
<1>2. CASE UNCHANGED <<up, stage>>
  BY <1>2
<1>3. ASSUME NEW j \in Job, Register(j) PROVE DownIsIdle'
  BY <1>3 DEF Register
<1>4. ASSUME NEW j \in Job, SupersededDone(j) PROVE DownIsIdle'
  BY <1>4 DEF SupersededDone
<1>5. ASSUME NEW j \in Job, OpenLog(j) PROVE DownIsIdle'
  BY <1>5 DEF OpenLog
<1>6. ASSUME NEW j \in Job, InsertRow(j) PROVE DownIsIdle'
  BY <1>6 DEF InsertRow
<1>7. ASSUME NEW j \in Job, StartRaises(j) PROVE DownIsIdle'
  BY <1>7 DEF StartRaises
<1>8. ASSUME NEW j \in Job, Submit(j) PROVE DownIsIdle'
  BY <1>8 DEF Submit
<1>9. ASSUME NEW j \in Job, SkipCancelled(j) PROVE DownIsIdle'
  BY <1>9 DEF SkipCancelled
<1>10. ASSUME NEW j \in Job, StartFn(j) PROVE DownIsIdle'
  BY <1>10 DEF StartFn
<1>11. ASSUME NEW j \in Job, FnReturns(j) PROVE DownIsIdle'
  BY <1>11 DEF FnReturns
<1>12. ASSUME NEW j \in Job, FnCancelled(j) PROVE DownIsIdle'
  BY <1>12 DEF FnCancelled
<1>13. ASSUME NEW j \in Job, FnRaises(j) PROVE DownIsIdle'
  BY <1>13 DEF FnRaises
<1>14. ASSUME NEW j \in Job, WriteCompleted(j) PROVE DownIsIdle'
  BY <1>14 DEF WriteCompleted
<1>15. ASSUME NEW j \in Job, WriteCancelled(j) PROVE DownIsIdle'
  BY <1>15 DEF WriteCancelled
<1>16. ASSUME NEW j \in Job, WriteFailed(j) PROVE DownIsIdle'
  BY <1>16 DEF WriteFailed
<1>17. ASSUME NEW j \in Job, LogCompleted(j) PROVE DownIsIdle'
  BY <1>17 DEF LogCompleted
<1>18. ASSUME NEW j \in Job, CompletedRaises(j) PROVE DownIsIdle'
  BY <1>18 DEF CompletedRaises
<1>19. ASSUME NEW j \in Job, HandlerRaises(j) PROVE DownIsIdle'
  BY <1>19 DEF HandlerRaises
<1>20. ASSUME NEW j \in Job, PopRunner(j) PROVE DownIsIdle'
  BY <1>20 DEF PopRunner
<1>21. ASSUME NEW c \in Class, Pick(c) PROVE DownIsIdle'
  BY <1>21, PickHead DEF Pick
<1>22. ASSUME Crash PROVE DownIsIdle'
  BY <1>22 DEF Crash
<1>23. ASSUME Startup PROVE DownIsIdle'
  BY <1>23 DEF Startup
<1>. QED
  BY <1>1, <1>2, <1>3, <1>4, <1>5, <1>6, <1>7, <1>8, <1>9, <1>10, <1>11,
     <1>12, <1>13, <1>14, <1>15, <1>16, <1>17, <1>18, <1>19, <1>20, <1>21,
     <1>22, <1>23

LEMMA QueueStep ==
  ASSUME TypeOK, QueueHoldsQueued, [Next]_vars
  PROVE  QueueHoldsQueued'
<1> USE DEF TypeOK, QueueHoldsQueued, Starting, ClassOf
<1>1. \/ UNCHANGED <<queue, stage>>
      \/ \E j \in Job : Register(j) \/ SupersededDone(j) \/ OpenLog(j)
      \/ \E j \in Job : InsertRow(j) \/ StartRaises(j) \/ Submit(j)
      \/ \E j \in Job : SkipCancelled(j) \/ StartFn(j) \/ FnReturns(j)
      \/ \E j \in Job : FnCancelled(j) \/ FnRaises(j) \/ WriteCompleted(j)
      \/ \E j \in Job : WriteCancelled(j) \/ WriteFailed(j) \/ LogCompleted(j)
      \/ \E j \in Job : CompletedRaises(j) \/ HandlerRaises(j) \/ PopRunner(j)
      \/ \E c \in Class : Pick(c)
      \/ Crash
  BY DEF Next, Steps, Faulty, vars, StartJob, Runner, EndFn, Timer, RequestCancel,
         ProgressNow, ProgressLater, TimerFires, Flush, FlushRaises,
         CancelFlag, CancelMiss, CancelRead, CancelOrphan, FlagSuperseded,
         AcquireLease, ReleaseLease, ExpireLease, Startup
<1>2. CASE UNCHANGED <<queue, stage>>
  BY <1>2
<1>3. ASSUME NEW j \in Job, Register(j) PROVE QueueHoldsQueued'
  BY <1>3 DEF Register
<1>4. ASSUME NEW j \in Job, SupersededDone(j) PROVE QueueHoldsQueued'
  BY <1>4 DEF SupersededDone
<1>5. ASSUME NEW j \in Job, OpenLog(j) PROVE QueueHoldsQueued'
  BY <1>5 DEF OpenLog
<1>6. ASSUME NEW j \in Job, InsertRow(j) PROVE QueueHoldsQueued'
  BY <1>6 DEF InsertRow
<1>7. ASSUME NEW j \in Job, StartRaises(j) PROVE QueueHoldsQueued'
  BY <1>7 DEF StartRaises
<1>8. ASSUME NEW j \in Job, Submit(j) PROVE QueueHoldsQueued'
  BY SMTT(30), <1>8 DEF Submit, Class, job_class
<1>9. ASSUME NEW j \in Job, SkipCancelled(j) PROVE QueueHoldsQueued'
  BY <1>9 DEF SkipCancelled
<1>10. ASSUME NEW j \in Job, StartFn(j) PROVE QueueHoldsQueued'
  BY <1>10 DEF StartFn
<1>11. ASSUME NEW j \in Job, FnReturns(j) PROVE QueueHoldsQueued'
  BY <1>11 DEF FnReturns
<1>12. ASSUME NEW j \in Job, FnCancelled(j) PROVE QueueHoldsQueued'
  BY <1>12 DEF FnCancelled
<1>13. ASSUME NEW j \in Job, FnRaises(j) PROVE QueueHoldsQueued'
  BY <1>13 DEF FnRaises
<1>14. ASSUME NEW j \in Job, WriteCompleted(j) PROVE QueueHoldsQueued'
  BY <1>14 DEF WriteCompleted
<1>15. ASSUME NEW j \in Job, WriteCancelled(j) PROVE QueueHoldsQueued'
  BY <1>15 DEF WriteCancelled
<1>16. ASSUME NEW j \in Job, WriteFailed(j) PROVE QueueHoldsQueued'
  BY <1>16 DEF WriteFailed
<1>17. ASSUME NEW j \in Job, LogCompleted(j) PROVE QueueHoldsQueued'
  BY <1>17 DEF LogCompleted
<1>18. ASSUME NEW j \in Job, CompletedRaises(j) PROVE QueueHoldsQueued'
  BY <1>18 DEF CompletedRaises
<1>19. ASSUME NEW j \in Job, HandlerRaises(j) PROVE QueueHoldsQueued'
  BY <1>19 DEF HandlerRaises
<1>20. ASSUME NEW j \in Job, PopRunner(j) PROVE QueueHoldsQueued'
  BY <1>20 DEF PopRunner
<1>21. ASSUME NEW c \in Class, Pick(c) PROVE QueueHoldsQueued'
  <2>1. PICK j \in Job : /\ j = Head(queue[c])
                       /\ stage[j] = "queued"
                       /\ stage' = [stage EXCEPT ![j] = "entered"]
    BY <1>21, PickHead
  <2>2. queue[c] \in Seq(Job) /\ queue[c] # <<>> /\ queue' = [queue EXCEPT ![c] = Tail(@)]
    BY <1>21 DEF Pick
  <2>3. /\ Len(Tail(queue[c])) = Len(queue[c]) - 1
        /\ \A i \in 1..Len(Tail(queue[c])) : Tail(queue[c])[i] = queue[c][i + 1]
        /\ queue[c][1] = j
    BY <2>1, <2>2
  <2>4. ASSUME NEW d \in Class, NEW i \in 1..Len(queue'[d])
        PROVE  /\ ClassOf(queue'[d][i]) = d
               /\ stage'[queue'[d][i]] = "queued"
               /\ \A k \in 1..Len(queue'[d]) : queue'[d][k] = queue'[d][i] => k = i
    <3>1. CASE d = c
      <4>1. queue'[d] = Tail(queue[c])
        BY <2>2, <3>1
      <4>2. i + 1 \in 1..Len(queue[c]) /\ queue'[d][i] = queue[c][i + 1]
        BY <2>2, <2>3, <4>1
      <4>3. queue[c][i + 1] # j /\ queue[c][i + 1] \in Job
        <5>1. 1 \in 1..Len(queue[c]) /\ i + 1 # 1
          BY <2>2
        <5>2. queue[c][i + 1] # queue[c][1]
          BY ZenonT(40), <4>2, <5>1
        <5>. QED
          BY <2>2, <2>3, <4>2, <5>2
      <4>4. ASSUME NEW k \in 1..Len(queue'[d]), queue'[d][k] = queue'[d][i]
            PROVE  k = i
        <5>1. k + 1 \in 1..Len(queue[c]) /\ queue[c][k + 1] = queue[c][i + 1]
          BY SMTT(30), <2>2, <2>3, <4>1, <4>2, <4>4
        <5>2. k + 1 = i + 1
          BY <4>2, <5>1
        <5>3. k \in Nat /\ i \in Nat
          OBVIOUS
        <5>. QED
          BY <5>2, <5>3
      <4>. QED
        BY <2>1, <3>1, <4>2, <4>3, <4>4
    <3>2. CASE d # c
      <4>1. queue'[d] = queue[d]
        BY <2>2, <3>2
      <4>2. queue[d] \in Seq(Job) /\ i \in 1..Len(queue[d])
        BY <4>1
      <4>3. queue[d][i] \in Job /\ ClassOf(queue[d][i]) = d
        BY <4>2
      <4>4. ClassOf(j) = c
        BY <2>2, <2>3
      <4>5. queue[d][i] # j
        BY <3>2, <4>3, <4>4
      <4>. QED
        BY <2>1, <4>1, <4>2, <4>3, <4>5
    <3>. QED
      BY <3>1, <3>2
  <2>. QED
    BY <2>4
<1>22. ASSUME Crash PROVE QueueHoldsQueued'
  BY <1>22 DEF Crash
<1>. QED
  BY <1>1, <1>2, <1>3, <1>4, <1>5, <1>6, <1>7, <1>8, <1>9, <1>10, <1>11,
     <1>12, <1>13, <1>14, <1>15, <1>16, <1>17, <1>18, <1>19, <1>20, <1>21,
     <1>22

LEMMA HeldStep ==
  ASSUME TypeOK, HeldOnlyWhileRunning, QueueHoldsQueued, [Next]_vars
  PROVE  HeldOnlyWhileRunning'
<1> USE DEF TypeOK, HeldOnlyWhileRunning, Starting
<1>1. \/ UNCHANGED <<pending, closed, stage>>
      \/ \E j \in Job : Register(j) \/ SupersededDone(j) \/ OpenLog(j)
      \/ \E j \in Job : InsertRow(j) \/ StartRaises(j) \/ Submit(j)
      \/ \E j \in Job : SkipCancelled(j) \/ StartFn(j) \/ FnReturns(j)
      \/ \E j \in Job : FnCancelled(j) \/ FnRaises(j) \/ WriteCompleted(j)
      \/ \E j \in Job : WriteCancelled(j) \/ WriteFailed(j) \/ LogCompleted(j)
      \/ \E j \in Job : CompletedRaises(j) \/ HandlerRaises(j) \/ PopRunner(j)
      \/ \E j \in Job : ProgressNow(j) \/ ProgressLater(j) \/ Flush(j)
      \/ \E j \in Job : FlushRaises(j)
      \/ \E c \in Class : Pick(c)
      \/ Crash
  BY DEF Next, Steps, Faulty, vars, StartJob, Runner, EndFn, Timer, RequestCancel,
         TimerFires, CancelFlag, CancelMiss, CancelRead, CancelOrphan,
         FlagSuperseded, AcquireLease, ReleaseLease, ExpireLease, Startup
<1>2. CASE UNCHANGED <<pending, closed, stage>>
  BY <1>2
<1>3. ASSUME NEW j \in Job, Register(j) PROVE HeldOnlyWhileRunning'
  BY <1>3 DEF Register
<1>4. ASSUME NEW j \in Job, SupersededDone(j) PROVE HeldOnlyWhileRunning'
  BY <1>4 DEF SupersededDone
<1>5. ASSUME NEW j \in Job, OpenLog(j) PROVE HeldOnlyWhileRunning'
  BY <1>5 DEF OpenLog
<1>6. ASSUME NEW j \in Job, InsertRow(j) PROVE HeldOnlyWhileRunning'
  BY <1>6 DEF InsertRow
<1>7. ASSUME NEW j \in Job, StartRaises(j) PROVE HeldOnlyWhileRunning'
  BY <1>7 DEF StartRaises
<1>8. ASSUME NEW j \in Job, Submit(j) PROVE HeldOnlyWhileRunning'
  BY <1>8 DEF Submit
<1>9. ASSUME NEW j \in Job, SkipCancelled(j) PROVE HeldOnlyWhileRunning'
  BY <1>9 DEF SkipCancelled
<1>10. ASSUME NEW j \in Job, StartFn(j) PROVE HeldOnlyWhileRunning'
  BY <1>10 DEF StartFn
<1>11. ASSUME NEW j \in Job, FnReturns(j) PROVE HeldOnlyWhileRunning'
  BY <1>11 DEF FnReturns
<1>12. ASSUME NEW j \in Job, FnCancelled(j) PROVE HeldOnlyWhileRunning'
  BY <1>12 DEF FnCancelled
<1>13. ASSUME NEW j \in Job, FnRaises(j) PROVE HeldOnlyWhileRunning'
  BY <1>13 DEF FnRaises
<1>14. ASSUME NEW j \in Job, WriteCompleted(j) PROVE HeldOnlyWhileRunning'
  BY <1>14 DEF WriteCompleted
<1>15. ASSUME NEW j \in Job, WriteCancelled(j) PROVE HeldOnlyWhileRunning'
  BY <1>15 DEF WriteCancelled
<1>16. ASSUME NEW j \in Job, WriteFailed(j) PROVE HeldOnlyWhileRunning'
  BY <1>16 DEF WriteFailed
<1>17. ASSUME NEW j \in Job, LogCompleted(j) PROVE HeldOnlyWhileRunning'
  BY <1>17 DEF LogCompleted
<1>18. ASSUME NEW j \in Job, CompletedRaises(j) PROVE HeldOnlyWhileRunning'
  BY <1>18 DEF CompletedRaises
<1>19. ASSUME NEW j \in Job, HandlerRaises(j) PROVE HeldOnlyWhileRunning'
  BY <1>19 DEF HandlerRaises
<1>20. ASSUME NEW j \in Job, PopRunner(j) PROVE HeldOnlyWhileRunning'
  BY <1>20 DEF PopRunner
<1>21. ASSUME NEW c \in Class, Pick(c) PROVE HeldOnlyWhileRunning'
  BY ZenonT(40), <1>21, PickHead DEF Pick
<1>22. ASSUME NEW j \in Job, ProgressNow(j) PROVE HeldOnlyWhileRunning'
  BY <1>22 DEF ProgressNow
<1>23. ASSUME NEW j \in Job, ProgressLater(j) PROVE HeldOnlyWhileRunning'
  BY <1>23 DEF ProgressLater
<1>24. ASSUME NEW j \in Job, Flush(j) PROVE HeldOnlyWhileRunning'
  BY <1>24 DEF Flush
<1>25. ASSUME NEW j \in Job, FlushRaises(j) PROVE HeldOnlyWhileRunning'
  BY <1>25 DEF FlushRaises
<1>26. ASSUME Crash PROVE HeldOnlyWhileRunning'
  BY <1>26 DEF Crash
<1>. QED
  BY <1>1, <1>2, <1>3, <1>4, <1>5, <1>6, <1>7, <1>8, <1>9, <1>10, <1>11,
     <1>12, <1>13, <1>14, <1>15, <1>16, <1>17, <1>18, <1>19, <1>20, <1>21,
     <1>22, <1>23, <1>24, <1>25, <1>26

LEMMA RowStep ==
  ASSUME TypeOK, RowFollowsStage, DownIsIdle, QueueHoldsQueued,
         HeldOnlyWhileRunning, MissedCancelIsLate, [Next]_vars
  PROVE  RowFollowsStage'
<1> USE DEF TypeOK, RowFollowsStage, Starting
<1>1. \/ UNCHANGED <<row, stage>>
      \/ \E j \in Job : Register(j) \/ SupersededDone(j) \/ OpenLog(j)
      \/ \E j \in Job : InsertRow(j) \/ StartRaises(j) \/ Submit(j)
      \/ \E j \in Job : SkipCancelled(j) \/ StartFn(j) \/ FnReturns(j)
      \/ \E j \in Job : FnCancelled(j) \/ FnRaises(j) \/ WriteCompleted(j)
      \/ \E j \in Job : WriteCancelled(j) \/ WriteFailed(j) \/ LogCompleted(j)
      \/ \E j \in Job : CompletedRaises(j) \/ HandlerRaises(j) \/ PopRunner(j)
      \/ \E j \in Job : ProgressNow(j) \/ Flush(j) \/ CancelOrphan(j)
      \/ \E c \in Class : Pick(c)
      \/ Crash
      \/ Startup
  BY DEF Next, Steps, Faulty, vars, StartJob, Runner, EndFn, Timer, RequestCancel,
         ProgressLater, TimerFires, FlushRaises, CancelFlag, CancelMiss,
         CancelRead, FlagSuperseded, AcquireLease, ReleaseLease, ExpireLease
<1>2. CASE UNCHANGED <<row, stage>>
  BY <1>2
<1>3. ASSUME NEW j \in Job, Register(j) PROVE RowFollowsStage'
  BY <1>3 DEF Register
<1>4. ASSUME NEW j \in Job, SupersededDone(j) PROVE RowFollowsStage'
  BY <1>4 DEF SupersededDone
<1>5. ASSUME NEW j \in Job, OpenLog(j) PROVE RowFollowsStage'
  BY <1>5 DEF OpenLog
<1>6. ASSUME NEW j \in Job, InsertRow(j) PROVE RowFollowsStage'
  BY <1>6 DEF InsertRow
<1>7. ASSUME NEW j \in Job, StartRaises(j) PROVE RowFollowsStage'
  BY <1>7 DEF StartRaises
<1>8. ASSUME NEW j \in Job, Submit(j) PROVE RowFollowsStage'
  BY <1>8 DEF Submit
<1>9. ASSUME NEW j \in Job, SkipCancelled(j) PROVE RowFollowsStage'
  BY <1>9 DEF SkipCancelled
<1>10. ASSUME NEW j \in Job, StartFn(j) PROVE RowFollowsStage'
  BY <1>10 DEF StartFn
<1>11. ASSUME NEW j \in Job, FnReturns(j) PROVE RowFollowsStage'
  BY <1>11 DEF FnReturns
<1>12. ASSUME NEW j \in Job, FnCancelled(j) PROVE RowFollowsStage'
  BY <1>12 DEF FnCancelled
<1>13. ASSUME NEW j \in Job, FnRaises(j) PROVE RowFollowsStage'
  BY <1>13 DEF FnRaises
<1>14. ASSUME NEW j \in Job, WriteCompleted(j) PROVE RowFollowsStage'
  BY <1>14 DEF WriteCompleted
<1>15. ASSUME NEW j \in Job, WriteCancelled(j) PROVE RowFollowsStage'
  BY <1>15 DEF WriteCancelled
<1>16. ASSUME NEW j \in Job, WriteFailed(j) PROVE RowFollowsStage'
  BY <1>16 DEF WriteFailed
<1>17. ASSUME NEW j \in Job, LogCompleted(j) PROVE RowFollowsStage'
  BY <1>17 DEF LogCompleted
<1>18. ASSUME NEW j \in Job, CompletedRaises(j) PROVE RowFollowsStage'
  BY <1>18 DEF CompletedRaises
<1>19. ASSUME NEW j \in Job, HandlerRaises(j) PROVE RowFollowsStage'
  BY <1>19 DEF HandlerRaises
<1>20. ASSUME NEW j \in Job, PopRunner(j) PROVE RowFollowsStage'
  BY <1>20 DEF PopRunner
<1>21. ASSUME NEW c \in Class, Pick(c) PROVE RowFollowsStage'
  <2>1. PICK j \in Job : stage[j] = "queued" /\ stage' = [stage EXCEPT ![j] = "entered"]
    BY <1>21, PickHead
  <2>. QED
    BY <1>21, <2>1 DEF Pick
<1>22. ASSUME NEW j \in Job, ProgressNow(j) PROVE RowFollowsStage'
  BY <1>22 DEF ProgressNow
<1>23. ASSUME NEW j \in Job, Flush(j) PROVE RowFollowsStage'
  BY <1>23 DEF Flush, HeldOnlyWhileRunning
<1>24. ASSUME NEW j \in Job, CancelOrphan(j) PROVE RowFollowsStage'
  BY <1>24 DEF CancelOrphan, MissedCancelIsLate
<1>25. ASSUME Crash PROVE RowFollowsStage'
  BY <1>25 DEF Crash
<1>26. ASSUME Startup PROVE RowFollowsStage'
  BY <1>26 DEF Startup, DownIsIdle, Unfinished
<1>. QED
  BY <1>1, <1>2, <1>3, <1>4, <1>5, <1>6, <1>7, <1>8, <1>9, <1>10, <1>11,
     <1>12, <1>13, <1>14, <1>15, <1>16, <1>17, <1>18, <1>19, <1>20, <1>21,
     <1>22, <1>23, <1>24, <1>25, <1>26

LEMMA MissedStep ==
  ASSUME TypeOK, MissedCancelIsLate, QueueHoldsQueued, RowFollowsStage,
         LiveFollowsStage, [Next]_vars
  PROVE  MissedCancelIsLate'
<1> USE DEF TypeOK, MissedCancelIsLate, Starting
<1>1. \/ UNCHANGED <<cancelReq, stage>>
      \/ \E j \in Job : Register(j) \/ SupersededDone(j) \/ OpenLog(j)
      \/ \E j \in Job : InsertRow(j) \/ StartRaises(j) \/ Submit(j)
      \/ \E j \in Job : SkipCancelled(j) \/ StartFn(j) \/ FnReturns(j)
      \/ \E j \in Job : FnCancelled(j) \/ FnRaises(j) \/ WriteCompleted(j)
      \/ \E j \in Job : WriteCancelled(j) \/ WriteFailed(j) \/ LogCompleted(j)
      \/ \E j \in Job : CompletedRaises(j) \/ HandlerRaises(j) \/ PopRunner(j)
      \/ \E j \in Job : CancelMiss(j) \/ CancelRead(j) \/ CancelOrphan(j)
      \/ \E c \in Class : Pick(c)
      \/ Crash
  BY DEF Next, Steps, Faulty, vars, StartJob, Runner, EndFn, Timer, RequestCancel,
         ProgressNow, ProgressLater, TimerFires, Flush, FlushRaises,
         CancelFlag, FlagSuperseded, AcquireLease, ReleaseLease,
         ExpireLease, Startup
<1>2. CASE UNCHANGED <<cancelReq, stage>>
  BY <1>2
<1>3. ASSUME NEW j \in Job, Register(j) PROVE MissedCancelIsLate'
  BY <1>3 DEF Register
<1>4. ASSUME NEW j \in Job, SupersededDone(j) PROVE MissedCancelIsLate'
  BY <1>4 DEF SupersededDone
<1>5. ASSUME NEW j \in Job, OpenLog(j) PROVE MissedCancelIsLate'
  BY <1>5 DEF OpenLog
<1>6. ASSUME NEW j \in Job, InsertRow(j) PROVE MissedCancelIsLate'
  BY <1>6 DEF InsertRow
<1>7. ASSUME NEW j \in Job, StartRaises(j) PROVE MissedCancelIsLate'
  BY <1>7 DEF StartRaises
<1>8. ASSUME NEW j \in Job, Submit(j) PROVE MissedCancelIsLate'
  BY <1>8 DEF Submit
<1>9. ASSUME NEW j \in Job, SkipCancelled(j) PROVE MissedCancelIsLate'
  BY <1>9 DEF SkipCancelled
<1>10. ASSUME NEW j \in Job, StartFn(j) PROVE MissedCancelIsLate'
  BY <1>10 DEF StartFn
<1>11. ASSUME NEW j \in Job, FnReturns(j) PROVE MissedCancelIsLate'
  BY <1>11 DEF FnReturns
<1>12. ASSUME NEW j \in Job, FnCancelled(j) PROVE MissedCancelIsLate'
  BY <1>12 DEF FnCancelled
<1>13. ASSUME NEW j \in Job, FnRaises(j) PROVE MissedCancelIsLate'
  BY <1>13 DEF FnRaises
<1>14. ASSUME NEW j \in Job, WriteCompleted(j) PROVE MissedCancelIsLate'
  BY <1>14 DEF WriteCompleted
<1>15. ASSUME NEW j \in Job, WriteCancelled(j) PROVE MissedCancelIsLate'
  BY <1>15 DEF WriteCancelled
<1>16. ASSUME NEW j \in Job, WriteFailed(j) PROVE MissedCancelIsLate'
  BY <1>16 DEF WriteFailed
<1>17. ASSUME NEW j \in Job, LogCompleted(j) PROVE MissedCancelIsLate'
  BY <1>17 DEF LogCompleted
<1>18. ASSUME NEW j \in Job, CompletedRaises(j) PROVE MissedCancelIsLate'
  BY <1>18 DEF CompletedRaises
<1>19. ASSUME NEW j \in Job, HandlerRaises(j) PROVE MissedCancelIsLate'
  BY <1>19 DEF HandlerRaises
<1>20. ASSUME NEW j \in Job, PopRunner(j) PROVE MissedCancelIsLate'
  BY <1>20 DEF PopRunner
<1>21. ASSUME NEW c \in Class, Pick(c) PROVE MissedCancelIsLate'
  BY <1>21, PickHead DEF Pick
<1>22. ASSUME NEW j \in Job, CancelMiss(j) PROVE MissedCancelIsLate'
  BY <1>22 DEF CancelMiss, RowFollowsStage, LiveFollowsStage
<1>23. ASSUME NEW j \in Job, CancelRead(j) PROVE MissedCancelIsLate'
  BY <1>23 DEF CancelRead
<1>24. ASSUME NEW j \in Job, CancelOrphan(j) PROVE MissedCancelIsLate'
  BY <1>24 DEF CancelOrphan
<1>25. ASSUME Crash PROVE MissedCancelIsLate'
  BY <1>25 DEF Crash
<1>. QED
  BY <1>1, <1>2, <1>3, <1>4, <1>5, <1>6, <1>7, <1>8, <1>9, <1>10, <1>11,
     <1>12, <1>13, <1>14, <1>15, <1>16, <1>17, <1>18, <1>19, <1>20, <1>21,
     <1>22, <1>23, <1>24, <1>25


LEMMA RunnerInvStep == TypeOK /\ RunnerInv /\ [Next]_vars => RunnerInv'
  BY LiveStep, DownStep, QueueStep, HeldStep, RowStep, MissedStep DEF RunnerInv

\* The invariant the theorems about rows rest on: rows, stages, queues, held
\* updates and missed cancels fit together in every reachable state.
THEOREM RunnerCorrect == Spec => []RunnerInv
<1>1. Init => RunnerInv
  BY DEF Init, RunnerInv, LiveFollowsStage, DownIsIdle, QueueHoldsQueued,
         HeldOnlyWhileRunning, RowFollowsStage, MissedCancelIsLate
<1>. QED
  BY <1>1, RunnerInvStep, TypeCorrect, PTL DEF Spec
-----------------------------------------------------------------------------
(* Who works on a job                                                      *)

\* A job that was submitted waits in its executor's queue; the jobs inside
\* runner() are the ones the workers run, one per executor.
PlaceFollowsStage ==
  \A j \in Job :
    /\ stage[j] = "queued"
         => \E i \in 1..Len(queue[ClassOf(j)]) : queue[ClassOf(j)][i] = j
    /\ stage[j] \in InRunner <=> current[ClassOf(j)] = j

\* Where a job may go in one step without being submitted, picked or popped.
LEMMA PlaceMoves ==
  ASSUME TypeOK, [Next]_vars
  PROVE  \/ UNCHANGED <<stage, queue, current>>
         \/ /\ UNCHANGED <<queue, current>>
            /\ \E j \in Job, s \in Stage \ {"queued"} :
                 /\ stage[j] # "queued"
                 /\ stage[j] \in InRunner <=> s \in InRunner
                 /\ stage' = [stage EXCEPT ![j] = s]
         \/ \E j \in Job : Submit(j) \/ PopRunner(j)
         \/ \E c \in Class : Pick(c)
         \/ Crash
<1> DEFINE Moves(j) ==
      /\ UNCHANGED <<queue, current>>
      /\ \E s \in Stage \ {"queued"} :
           /\ stage[j] # "queued"
           /\ stage[j] \in InRunner <=> s \in InRunner
           /\ stage' = [stage EXCEPT ![j] = s]
<1> USE DEF TypeOK, Stage, Starting, InRunner
<1>1. \A j \in Job : Register(j) \/ SupersededDone(j) \/ OpenLog(j) => Moves(j)
  BY DEF Register, SupersededDone, OpenLog
<1>2. \A j \in Job : InsertRow(j) \/ StartRaises(j) => Moves(j)
  BY DEF InsertRow, StartRaises
<1>3. \A j \in Job : SkipCancelled(j) \/ StartFn(j) \/ FnReturns(j) => Moves(j)
  BY DEF SkipCancelled, StartFn, FnReturns
<1>4. \A j \in Job : FnCancelled(j) \/ FnRaises(j) => Moves(j)
  BY DEF FnCancelled, FnRaises
<1>5. \A j \in Job : WriteCompleted(j) \/ WriteCancelled(j) \/ WriteFailed(j) => Moves(j)
  BY DEF WriteCompleted, WriteCancelled, WriteFailed
<1>6. \A j \in Job : LogCompleted(j) \/ CompletedRaises(j) \/ HandlerRaises(j) => Moves(j)
  BY DEF LogCompleted, CompletedRaises, HandlerRaises
<1>7. \/ UNCHANGED <<stage, queue, current>>
      \/ \E j \in Job : Moves(j)
      \/ \E j \in Job : Submit(j) \/ PopRunner(j)
      \/ \E c \in Class : Pick(c)
      \/ Crash
  <2> HIDE DEF Moves
  <2>. QED
    BY <1>1, <1>2, <1>3, <1>4, <1>5, <1>6
    DEF Next, Steps, Faulty, vars, StartJob, Runner, EndFn, Timer, RequestCancel,
        ProgressNow, ProgressLater, TimerFires, Flush, FlushRaises,
        CancelFlag, CancelMiss, CancelRead, CancelOrphan, FlagSuperseded,
        AcquireLease, ReleaseLease, ExpireLease, Startup
<1>. QED
  BY <1>7

LEMMA PlaceStep ==
  ASSUME TypeOK, PlaceFollowsStage, QueueHoldsQueued, [Next]_vars
  PROVE  PlaceFollowsStage'
<1> USE DEF PlaceFollowsStage
<1>0. \A j \in Job : ClassOf(j) \in Class
  BY DEF ClassOf, job_class, Class
<1>1. CASE UNCHANGED <<stage, queue, current>>
  BY <1>1 DEF ClassOf
<1>2. ASSUME UNCHANGED <<queue, current>>, NEW j \in Job, NEW s \in Stage \ {"queued"},
             stage[j] # "queued", stage[j] \in InRunner <=> s \in InRunner,
             stage' = [stage EXCEPT ![j] = s]
      PROVE  PlaceFollowsStage'
  BY <1>2 DEF TypeOK, ClassOf
<1>3. ASSUME NEW j \in Job, Submit(j) PROVE PlaceFollowsStage'
  <2>1. /\ stage' = [stage EXCEPT ![j] = "queued"] /\ current' = current
        /\ queue' = [queue EXCEPT ![ClassOf(j)] = Append(@, j)]
        /\ stage[j] = "submitting"
    BY <1>3 DEF Submit
  <2>2. ASSUME NEW k \in Job, stage'[k] = "queued"
        PROVE  \E i \in 1..Len(queue'[ClassOf(k)]) : queue'[ClassOf(k)][i] = k
    <3> DEFINE q == queue[ClassOf(j)]
    <3>1. q \in Seq(Job) /\ queue'[ClassOf(j)] = Append(q, j)
      BY <1>0, <2>1 DEF TypeOK
    <3>2. /\ Len(Append(q, j)) = Len(q) + 1
          /\ Append(q, j)[Len(q) + 1] = j
          /\ \A i \in 1..Len(q) : Append(q, j)[i] = q[i]
      BY <3>1
    <3>3. CASE k = j
      BY <3>1, <3>2, <3>3
    <3>4. CASE k # j /\ ClassOf(k) = ClassOf(j)
      <4>1. PICK i \in 1..Len(q) : q[i] = k
        BY <2>1, <2>2, <3>4 DEF TypeOK
      <4>2. i \in 1..Len(q) + 1 /\ Append(q, j)[i] = k
        BY <3>1, <3>2, <4>1
      <4>. QED
        BY <3>1, <3>2, <3>4, <4>2
    <3>5. CASE k # j /\ ClassOf(k) # ClassOf(j)
      <4>1. queue'[ClassOf(k)] = queue[ClassOf(k)]
        BY <1>0, <2>1, <3>5 DEF TypeOK
      <4>. QED
        BY <2>1, <2>2, <3>5, <4>1 DEF TypeOK
    <3>. QED
      BY <3>3, <3>4, <3>5
  <2>3. \A k \in Job : stage'[k] \in InRunner <=> current'[ClassOf(k)] = k
    BY <2>1 DEF TypeOK, InRunner
  <2>. QED
    BY <2>2, <2>3 DEF ClassOf
<1>4. ASSUME NEW j \in Job, PopRunner(j) PROVE PlaceFollowsStage'
  <2>1. /\ stage' = [stage EXCEPT ![j] = "ended"] /\ queue' = queue
        /\ current' = [current EXCEPT ![ClassOf(j)] = NoJob]
        /\ current[ClassOf(j)] = j
    BY <1>4 DEF PopRunner, InRunner
  <2>2. \A k \in Job : stage'[k] \in InRunner <=> current'[ClassOf(k)] = k
    BY <1>0, <2>1, JobsAssumption DEF TypeOK, InRunner
  <2>3. \A k \in Job : stage'[k] = "queued" => stage[k] = "queued"
    BY <2>1 DEF TypeOK
  <2>. QED
    BY <2>1, <2>2, <2>3 DEF ClassOf
<1>5. ASSUME NEW c \in Class, Pick(c) PROVE PlaceFollowsStage'
  <2>1. PICK j \in Job : /\ j = Head(queue[c])
                       /\ stage[j] = "queued"
                       /\ stage' = [stage EXCEPT ![j] = "entered"]
    BY <1>5, PickHead
  <2>2. /\ queue[c] \in Seq(Job) /\ queue[c] # <<>>
        /\ queue' = [queue EXCEPT ![c] = Tail(@)]
        /\ current[c] = NoJob /\ current' = [current EXCEPT ![c] = j]
    BY <1>5, <2>1 DEF Pick, TypeOK
  <2>3. /\ Len(Tail(queue[c])) = Len(queue[c]) - 1
        /\ \A i \in 1..Len(Tail(queue[c])) : Tail(queue[c])[i] = queue[c][i + 1]
        /\ queue[c][1] = j /\ 1 \in 1..Len(queue[c])
    BY <2>1, <2>2
  <2>4. ClassOf(j) = c
    BY <2>3 DEF QueueHoldsQueued
  <2>5. ASSUME NEW k \in Job, stage'[k] = "queued"
        PROVE  \E i \in 1..Len(queue'[ClassOf(k)]) : queue'[ClassOf(k)][i] = k
    <3>1. k # j /\ stage[k] = "queued"
      BY <2>1, <2>5 DEF TypeOK
    <3>2. PICK i \in 1..Len(queue[ClassOf(k)]) : queue[ClassOf(k)][i] = k
      BY <3>1
    <3>3. CASE ClassOf(k) = c
      <4>1. i # 1 /\ i \in Nat /\ Len(queue[c]) \in Nat
        BY <2>2, <2>3, <3>1, <3>2, <3>3
      <4>2. i - 1 \in 1..Len(Tail(queue[c])) /\ (i - 1) + 1 = i
        BY <2>3, <3>2, <3>3, <4>1
      <4>3. Tail(queue[c])[i - 1] = k
        BY <2>3, <3>2, <3>3, <4>2
      <4>4. queue'[c] = Tail(queue[c])
        BY <2>2 DEF TypeOK
      <4>. QED
        BY <3>3, <4>2, <4>3, <4>4
    <3>4. CASE ClassOf(k) # c
      <4>1. queue'[ClassOf(k)] = queue[ClassOf(k)]
        BY <1>0, <2>2, <3>4 DEF TypeOK
      <4>. QED
        BY <3>2, <4>1
    <3>. QED
      BY <3>3, <3>4
  <2>6. ASSUME NEW k \in Job
        PROVE  stage'[k] \in InRunner <=> current'[ClassOf(k)] = k
    <3>1. CASE k = j
      BY <2>1, <2>2, <2>4, <3>1 DEF TypeOK, InRunner
    <3>2. CASE k # j /\ ClassOf(k) = c
      BY <2>1, <2>2, <3>2, JobsAssumption DEF TypeOK
    <3>3. CASE ClassOf(k) # c
      BY <1>0, <2>1, <2>2, <2>4, <3>3 DEF TypeOK
    <3>. QED
      BY <3>1, <3>2, <3>3
  <2>. QED
    BY <2>5, <2>6 DEF ClassOf
<1>6. ASSUME Crash PROVE PlaceFollowsStage'
  <2>1. \A k \in Job : stage'[k] \in {"new", "ended"} /\ current'[ClassOf(k)] = NoJob
    BY <1>0, <1>6 DEF Crash
  <2>. QED
    BY <2>1, JobsAssumption DEF PlaceFollowsStage, InRunner, ClassOf
<1>. QED
  BY <1>1, <1>2, <1>3, <1>4, <1>5, <1>6, PlaceMoves

\* Whatever fails, what an executor holds is what the stages say: a submitted
\* job is in the queue or on the one worker of its class, and a worker runs no
\* job of another class and no job that is over.
THEOREM PlaceCorrect == Spec => []PlaceFollowsStage
<1>1. Init => PlaceFollowsStage
  <2>1. \A j \in Job : ClassOf(j) \in Class /\ j # NoJob
    BY JobsAssumption DEF ClassOf, job_class, Class
  <2>2. ASSUME Init, NEW j \in Job
        PROVE  stage[j] = "new" /\ current[ClassOf(j)] = NoJob
    BY <2>1, <2>2 DEF Init
  <2>. QED
    BY <2>1, <2>2 DEF PlaceFollowsStage, InRunner
<1>2. TypeOK /\ RunnerInv /\ PlaceFollowsStage /\ [Next]_vars => PlaceFollowsStage'
  BY PlaceStep DEF RunnerInv
<1>. QED
  BY <1>1, <1>2, TypeCorrect, RunnerCorrect, PTL DEF Spec
-----------------------------------------------------------------------------
(* Outcomes, whatever fails                                                *)

LEMMA OutcomeStays ==
  ASSUME TypeOK, RunnerInv, NEW i \in Job, row[i] \in Terminal, [Next]_vars
  PROVE  row'[i] \in Terminal
<1> USE DEF TypeOK, RunnerInv, RowFollowsStage, HeldOnlyWhileRunning,
            Terminal, Unfinished
<1>1. \/ UNCHANGED <<row>>
      \/ \E j \in Job : InsertRow(j) \/ StartFn(j) \/ ProgressNow(j)
      \/ \E j \in Job : Flush(j) \/ WriteCompleted(j) \/ WriteCancelled(j)
      \/ \E j \in Job : WriteFailed(j) \/ CancelOrphan(j)
      \/ Startup
  BY DEF Next, Steps, Faulty, vars, StartJob, Runner, EndFn, Timer, RequestCancel,
         Register, SupersededDone, OpenLog, StartRaises, Submit,
         SkipCancelled, ProgressLater, FnReturns, FnCancelled, FnRaises,
         LogCompleted, CompletedRaises, HandlerRaises, PopRunner,
         TimerFires, FlushRaises, CancelFlag, CancelMiss, CancelRead,
         FlagSuperseded, Pick, AcquireLease, ReleaseLease, ExpireLease,
         Crash
<1>2. CASE UNCHANGED <<row>>
  BY <1>2
<1>3. ASSUME NEW j \in Job, InsertRow(j) PROVE row'[i] \in Terminal
  BY <1>3 DEF InsertRow
<1>4. ASSUME NEW j \in Job, StartFn(j) PROVE row'[i] \in Terminal
  BY <1>4 DEF StartFn
<1>5. ASSUME NEW j \in Job, ProgressNow(j) PROVE row'[i] \in Terminal
  BY <1>5 DEF ProgressNow
<1>6. ASSUME NEW j \in Job, Flush(j) PROVE row'[i] \in Terminal
  BY <1>6 DEF Flush
<1>7. ASSUME NEW j \in Job, WriteCompleted(j) PROVE row'[i] \in Terminal
  BY <1>7 DEF WriteCompleted
<1>8. ASSUME NEW j \in Job, WriteCancelled(j) PROVE row'[i] \in Terminal
  BY <1>8 DEF WriteCancelled
<1>9. ASSUME NEW j \in Job, WriteFailed(j) PROVE row'[i] \in Terminal
  BY <1>9 DEF WriteFailed
<1>10. ASSUME NEW j \in Job, CancelOrphan(j) PROVE row'[i] \in Terminal
  BY <1>10 DEF CancelOrphan
<1>11. ASSUME Startup PROVE row'[i] \in Terminal
  BY <1>11 DEF Startup
<1>. QED
  BY <1>1, <1>2, <1>3, <1>4, <1>5, <1>6, <1>7, <1>8, <1>9, <1>10, <1>11

\* Whatever I/O fails, a job that ended never shows as queued or running again.
THEOREM EndedRowsStay == Spec => EndedRowNeverRevives
<1>1. TypeOK /\ RunnerInv /\ [Next]_vars
        => [\A j \in Job : row[j] \in Terminal => row'[j] \in Terminal]_vars
  BY OutcomeStays
<1>. QED
  BY <1>1, TypeCorrect, RunnerCorrect, PTL DEF Spec, EndedRowNeverRevives
-----------------------------------------------------------------------------
(* Outcomes, when no I/O fails                                             *)

\* The rest of the runner: it is over only with an outcome in the row, and a
\* cancel request that missed it finds that outcome.
OutcomeInv ==
  \A j \in Job :
    /\ stage[j] # "leaked"
    /\ stage[j] \in {"completing", "cancelling", "failing"} => row[j] \in Unfinished
    /\ stage[j] \in {"completed", "popping"} => row[j] \in Terminal
    /\ (up /\ stage[j] = "ended") => row[j] \in {"none"} \cup Terminal
    /\ cancelReq[j] # "idle" => (up /\ row[j] \in Terminal)
    /\ cancelReq[j] # "stale"

LEMMA OutcomeStep ==
  ASSUME Faults = {}, TypeOK, RunnerInv, OutcomeInv, [Next]_vars
  PROVE  OutcomeInv'
<1> USE DEF TypeOK, OutcomeInv, RunnerInv, RowFollowsStage, LiveFollowsStage,
            HeldOnlyWhileRunning, Unfinished, Terminal, Starting
<1>1. \/ UNCHANGED <<row, stage, cancelReq, up>>
      \/ \E j \in Job : Register(j) \/ SupersededDone(j) \/ OpenLog(j)
      \/ \E j \in Job : InsertRow(j) \/ StartRaises(j) \/ Submit(j)
      \/ \E j \in Job : SkipCancelled(j) \/ StartFn(j) \/ FnReturns(j)
      \/ \E j \in Job : FnCancelled(j) \/ FnRaises(j) \/ WriteCompleted(j)
      \/ \E j \in Job : WriteCancelled(j) \/ WriteFailed(j) \/ LogCompleted(j)
      \/ \E j \in Job : CompletedRaises(j) \/ HandlerRaises(j) \/ PopRunner(j)
      \/ \E j \in Job : ProgressNow(j) \/ Flush(j) \/ CancelMiss(j)
      \/ \E j \in Job : CancelRead(j) \/ CancelOrphan(j)
      \/ \E c \in Class : Pick(c)
      \/ Crash
      \/ Startup
  BY DEF Next, Steps, Faulty, vars, StartJob, Runner, EndFn, Timer, RequestCancel,
         ProgressLater, TimerFires, FlushRaises, CancelFlag, FlagSuperseded,
         AcquireLease, ReleaseLease, ExpireLease
<1>2. CASE UNCHANGED <<row, stage, cancelReq, up>>
  BY <1>2
<1>3. ASSUME NEW j \in Job, Register(j) PROVE OutcomeInv'
  BY <1>3 DEF Register
<1>4. ASSUME NEW j \in Job, SupersededDone(j) PROVE OutcomeInv'
  BY <1>4 DEF SupersededDone
<1>5. ASSUME NEW j \in Job, OpenLog(j) PROVE OutcomeInv'
  BY <1>5 DEF OpenLog
<1>6. ASSUME NEW j \in Job, InsertRow(j) PROVE OutcomeInv'
  BY <1>6 DEF InsertRow
<1>7. ASSUME NEW j \in Job, StartRaises(j) PROVE OutcomeInv'
  BY <1>7 DEF StartRaises
<1>8. ASSUME NEW j \in Job, Submit(j) PROVE OutcomeInv'
  BY <1>8 DEF Submit
<1>9. ASSUME NEW j \in Job, SkipCancelled(j) PROVE OutcomeInv'
  BY <1>9 DEF SkipCancelled
<1>10. ASSUME NEW j \in Job, StartFn(j) PROVE OutcomeInv'
  BY <1>10 DEF StartFn
<1>11. ASSUME NEW j \in Job, FnReturns(j) PROVE OutcomeInv'
  BY <1>11 DEF FnReturns
<1>12. ASSUME NEW j \in Job, FnCancelled(j) PROVE OutcomeInv'
  BY <1>12 DEF FnCancelled
<1>13. ASSUME NEW j \in Job, FnRaises(j) PROVE OutcomeInv'
  BY <1>13 DEF FnRaises
<1>14. ASSUME NEW j \in Job, WriteCompleted(j) PROVE OutcomeInv'
  BY <1>14 DEF WriteCompleted
<1>15. ASSUME NEW j \in Job, WriteCancelled(j) PROVE OutcomeInv'
  BY <1>15 DEF WriteCancelled
<1>16. ASSUME NEW j \in Job, WriteFailed(j) PROVE OutcomeInv'
  BY <1>16 DEF WriteFailed
<1>17. ASSUME NEW j \in Job, LogCompleted(j) PROVE OutcomeInv'
  BY <1>17 DEF LogCompleted
<1>18. ASSUME NEW j \in Job, CompletedRaises(j) PROVE OutcomeInv'
  BY <1>18 DEF CompletedRaises
<1>19. ASSUME NEW j \in Job, HandlerRaises(j) PROVE OutcomeInv'
  BY <1>19 DEF HandlerRaises
<1>20. ASSUME NEW j \in Job, PopRunner(j) PROVE OutcomeInv'
  BY <1>20 DEF PopRunner
<1>21. ASSUME NEW c \in Class, Pick(c) PROVE OutcomeInv'
  <2>1. PICK j \in Job : stage[j] = "queued" /\ stage' = [stage EXCEPT ![j] = "entered"]
    BY <1>21, PickHead
  <2>. QED
    BY <1>21, <2>1 DEF Pick
<1>22. ASSUME NEW j \in Job, ProgressNow(j) PROVE OutcomeInv'
  BY <1>22 DEF ProgressNow
<1>23. ASSUME NEW j \in Job, Flush(j) PROVE OutcomeInv'
  BY <1>23 DEF Flush
<1>24. ASSUME NEW j \in Job, CancelMiss(j) PROVE OutcomeInv'
  BY <1>24 DEF CancelMiss
<1>25. ASSUME NEW j \in Job, CancelRead(j) PROVE OutcomeInv'
  BY <1>25 DEF CancelRead
<1>26. ASSUME NEW j \in Job, CancelOrphan(j) PROVE OutcomeInv'
  BY <1>26 DEF CancelOrphan
<1>27. ASSUME Crash PROVE OutcomeInv'
  BY <1>27 DEF Crash
<1>28. ASSUME Startup PROVE OutcomeInv'
  BY <1>28 DEF Startup, DownIsIdle
<1>. QED
  BY <1>1, <1>2, <1>3, <1>4, <1>5, <1>6, <1>7, <1>8, <1>9, <1>10, <1>11,
     <1>12, <1>13, <1>14, <1>15, <1>16, <1>17, <1>18, <1>19, <1>20, <1>21,
     <1>22, <1>23, <1>24, <1>25, <1>26, <1>27, <1>28

LEMMA OutcomeCorrect ==
  ASSUME Faults = {}
  PROVE  Spec => []OutcomeInv
<1>1. Init => OutcomeInv
  BY DEF Init, OutcomeInv
<1>2. TypeOK /\ RunnerInv /\ OutcomeInv /\ [Next]_vars => OutcomeInv'
  BY OutcomeStep
<1>. QED
  BY <1>1, <1>2, TypeCorrect, RunnerCorrect, PTL DEF Spec

\* Without failing I/O nobody reads an unfinished row that no thread works on,
\* restarts included.
THEOREM NoLostRow ==
  ASSUME Faults = {}
  PROVE  Spec => []UnfinishedRowHasRunner
<1>1. TypeOK /\ RunnerInv /\ OutcomeInv => UnfinishedRowHasRunner
  BY DEF TypeOK, RunnerInv, OutcomeInv, LiveFollowsStage, RowFollowsStage,
         UnfinishedRowHasRunner, Unfinished, Terminal
<1>. QED
  BY <1>1, TypeCorrect, RunnerCorrect, OutcomeCorrect, PTL

\* Without failing I/O every job in the live maps has something that will end
\* it: the event loop is in its start_job, its executor's queue holds it, or
\* the worker runs it.  A log file that cannot be opened breaks this (the job
\* leaks out of start_job and stays in the maps).
THEOREM LiveJobsAreServed ==
  ASSUME Faults = {}
  PROVE  Spec => []LiveJobHasRunner
<1>1. TypeOK /\ RunnerInv /\ PlaceFollowsStage /\ OutcomeInv => LiveJobHasRunner
  <2> SUFFICES ASSUME TypeOK, RunnerInv, PlaceFollowsStage, OutcomeInv,
                      NEW j \in live
               PROVE  \/ stage[j] \in Starting
                      \/ \E i \in 1..Len(queue[ClassOf(j)]) : queue[ClassOf(j)][i] = j
                      \/ current[ClassOf(j)] = j
    BY DEF LiveJobHasRunner
  <2>1. j \in Job /\ stage[j] \in Stage \ {"new", "ended", "leaked"}
    BY DEF TypeOK, RunnerInv, LiveFollowsStage, OutcomeInv
  <2>. QED
    BY <2>1 DEF PlaceFollowsStage, Stage
<1>. QED
  BY <1>1, TypeCorrect, RunnerCorrect, PlaceCorrect, OutcomeCorrect, PTL

LEMMA LifecycleStep ==
  ASSUME Faults = {}, TypeOK, RunnerInv, OutcomeInv, [Next]_vars
  PROVE  [Lifecycle!Next]_row
<1> USE DEF TypeOK, RunnerInv, RowFollowsStage, HeldOnlyWhileRunning,
            MissedCancelIsLate, OutcomeInv, Terminal, Unfinished,
            Lifecycle!Next, Lifecycle!Unfinished, Lifecycle!Terminal
<1>1. \/ UNCHANGED <<row>>
      \/ \E j \in Job : InsertRow(j) \/ StartFn(j) \/ ProgressNow(j)
      \/ \E j \in Job : Flush(j) \/ WriteCompleted(j) \/ WriteCancelled(j)
      \/ \E j \in Job : WriteFailed(j) \/ CancelOrphan(j)
      \/ Startup
  BY DEF Next, Steps, Faulty, vars, StartJob, Runner, EndFn, Timer, RequestCancel,
         Register, SupersededDone, OpenLog, StartRaises, Submit,
         SkipCancelled, ProgressLater, FnReturns, FnCancelled, FnRaises,
         LogCompleted, CompletedRaises, HandlerRaises, PopRunner,
         TimerFires, FlushRaises, CancelFlag, CancelMiss, CancelRead,
         FlagSuperseded, Pick, AcquireLease, ReleaseLease, ExpireLease,
         Crash
<1>2. CASE UNCHANGED <<row>>
  BY <1>2
<1>3. ASSUME NEW j \in Job, InsertRow(j) PROVE [Lifecycle!Next]_row
  BY <1>3 DEF InsertRow, Lifecycle!Accept
<1>4. ASSUME NEW j \in Job, StartFn(j) PROVE [Lifecycle!Next]_row
  BY <1>4 DEF StartFn, Lifecycle!Begin
<1>5. ASSUME NEW j \in Job, ProgressNow(j) PROVE [Lifecycle!Next]_row
  BY <1>5 DEF ProgressNow
<1>6. ASSUME NEW j \in Job, Flush(j) PROVE [Lifecycle!Next]_row
  BY <1>6 DEF Flush
<1>7. ASSUME NEW j \in Job, WriteCompleted(j) PROVE [Lifecycle!Next]_row
  BY <1>7 DEF WriteCompleted, Lifecycle!End
<1>8. ASSUME NEW j \in Job, WriteCancelled(j) PROVE [Lifecycle!Next]_row
  BY <1>8 DEF WriteCancelled, Lifecycle!End
<1>9. ASSUME NEW j \in Job, WriteFailed(j) PROVE [Lifecycle!Next]_row
  BY <1>9 DEF WriteFailed, Lifecycle!End
<1>10. ASSUME NEW j \in Job, CancelOrphan(j) PROVE [Lifecycle!Next]_row
  BY <1>10 DEF CancelOrphan
<1>11. ASSUME Startup PROVE [Lifecycle!Next]_row
  BY <1>11 DEF Startup, Lifecycle!Interrupt
<1>. QED
  BY <1>1, <1>2, <1>3, <1>4, <1>5, <1>6, <1>7, <1>8, <1>9, <1>10, <1>11

\* Every step of the runner is a step of the job's life as JobLifecycle has it:
\* queued, running, one outcome, or all unfinished jobs failed by a restart.
THEOREM RunnerImplementsLifecycle ==
  ASSUME Faults = {}
  PROVE  Spec => Lifecycle!Safety
<1>1. Init => Lifecycle!Init
  BY DEF Init, Lifecycle!Init
<1>2. TypeOK /\ RunnerInv /\ OutcomeInv /\ [Next]_vars => [Lifecycle!Next]_row
  BY LifecycleStep
<1>. QED
  BY <1>1, <1>2, TypeCorrect, RunnerCorrect, OutcomeCorrect, PTL
     DEF Spec, Lifecycle!Safety

\* The outcome of a job is final: no late flush, update, cancel or restart
\* rewrites it.
THEOREM OutcomeIsFinal ==
  ASSUME Faults = {}
  PROVE  Spec => TerminalRowIsFinal
<1>1. ASSUME TypeOK, [Lifecycle!Next]_row, NEW j \in Job, row[j] \in Terminal
      PROVE  row'[j] = row[j]
  <2> USE DEF TypeOK, Terminal, Unfinished, Lifecycle!Unfinished, Lifecycle!Terminal
  <2>1. CASE Lifecycle!Interrupt
    BY <1>1, <2>1 DEF Lifecycle!Interrupt
  <2>2. ASSUME NEW k \in Job, Lifecycle!Accept(k) \/ Lifecycle!Begin(k) \/ Lifecycle!End(k)
        PROVE  row'[j] = row[j]
    BY <1>1, <2>2 DEF Lifecycle!Accept, Lifecycle!Begin, Lifecycle!End
  <2>3. CASE UNCHANGED row
    BY <2>3
  <2>. QED
    BY <1>1, <2>1, <2>2, <2>3 DEF Lifecycle!Next
<1>2. TypeOK /\ RunnerInv /\ OutcomeInv /\ [Next]_vars
        => [\A j \in Job : row[j] \in Terminal => row'[j] = row[j]]_vars
  BY <1>1, LifecycleStep
<1>. QED
  BY <1>2, TypeCorrect, RunnerCorrect, OutcomeCorrect, PTL
     DEF Spec, TerminalRowIsFinal
-----------------------------------------------------------------------------
(* The agentic suites, and the page.                                       *)

HIDE JobsAssumption
USE DEF runVars, stepVars, exVars, suiteVars, procVars, startVars, progVars,
        Goto, CloseProgress, EndRow, Enter, Spend, Req, Run

RunStage == {"idle", "acquiring", "probing", "measuring", "ended"}
Suites == [at : {"none", "starting", "cases", "reading", "read"}, done : Nat,
           leader : {"off", "up", "gone"}, kids : BOOLEAN, signalled : BOOLEAN,
           scored : BOOLEAN, watcher : {"off", "polling", "waiting", "over"}]

SuiteTyped ==
  /\ run \in [Run -> RunStage]
  /\ answer \in [Run -> {"none", "ok", "busy"}]
  /\ holds \in [Run -> BOOLEAN]
  /\ renewing \in [Run -> BOOLEAN]
  /\ net \subseteq Request
  /\ age \in 0..Ttl
  /\ unheard \in BOOLEAN
  /\ suite \in [Job -> Suites]

Heard == ~unheard /\ restarts = 0

\* A run that may count on its lease.
Granted(r) == (run[r] = "acquiring" /\ answer[r] = "ok") \/ run[r] \in {"probing", "measuring"}

\* Only an ended run's release is under way.  From the grant on the lease is active and
\* younger than its limit: a period old at most, and then a renewal is under way.
LeaseOfRun ==
  /\ \A r \in Run : run[r] = "idle" => answer[r] = "none"
  /\ \A m \in net : m.type = "release" => run[m.run] = "ended"
  /\ Heard => \A r \in Run : Granted(r) =>
       /\ ActiveLease(r)
       /\ run[r] # "acquiring" => holds[r]
       /\ run[r] = "measuring" => renewing[r]
       /\ \/ age = 0
          \/ age = 1 /\ run[r] = "measuring" /\ Req("renew", r) \in net

\* The processes a suite has started end before its job goes on.
FnOutlives ==
  restarts = 0 =>
    /\ up
    /\ \A j \in Job : Busy(j) => stage[j] = "running" /\ suite[j].at = "reading"

SuiteInv == SuiteTyped /\ LeaseOfRun /\ FnOutlives
-----------------------------------------------------------------------------
LEMMA SuiteInitOK == SuiteInit => SuiteInv
<1>. SUFFICES ASSUME SuiteInit PROVE SuiteInv
  OBVIOUS
<1>1. Unstarted \in Suites /\ Unstarted.leader = "off" /\ ~Unstarted.kids
  BY DEF Unstarted, Suites
<1>2. SuiteTyped
  <2>1. suite \in [Job -> Suites] /\ age \in 0..Ttl
    BY <1>1 DEF SuiteInit, ExInit, Ttl
  <2>2. net \subseteq Request
    BY DEF SuiteInit, ExInit
  <2>3. /\ run \in [Run -> RunStage] /\ answer \in [Run -> {"none", "ok", "busy"}]
        /\ holds \in [Run -> BOOLEAN] /\ renewing \in [Run -> BOOLEAN] /\ unheard \in BOOLEAN
    BY DEF SuiteInit, ExInit, RunStage
  <2>. QED
    BY <2>1, <2>2, <2>3 DEF SuiteTyped
<1>3. LeaseOfRun
  BY DEF SuiteInit, ExInit, LeaseOfRun, Granted
<1>4. FnOutlives
  BY <1>1 DEF SuiteInit, ExInit, Init, FnOutlives, Busy
<1>. QED
  BY <1>2, <1>3, <1>4 DEF SuiteInv

\* Every step is a step of the job runner, or none of it.
LEMMA ExIsJobs == SuiteTyped /\ ExNext => [Next]_vars
<1>. SUFFICES ASSUME SuiteTyped, ExNext PROVE [Next]_vars
  OBVIOUS
<1>1. CASE JobStep
  BY <1>1 DEF JobStep, Next, Steps
<1>2. ASSUME NEW r \in Run, Controller(r) PROVE UNCHANGED vars
  BY <1>2 DEF Controller, AskLease, LeaseGranted, BenchBusy, LeaseUnknown, Conflict,
     StartMeasuring, StopMeasuring, EndMeasuring
<1>3. ASSUME NEW r \in Run, Expire(r) PROVE Next
  BY <1>3 DEF Expire, Next, Steps
<1>4. ASSUME NEW m \in net, Handle(m) \/ LoseRequest(m) PROVE [Next]_vars
  <2>1. m.run \in LeaseId
    BY DEF SuiteTyped, Request
  <2>. QED
    BY <1>4, <2>1 DEF Handle, HandleAcquire, HandleRelease, LoseRequest, Next, Steps
<1>5. CASE Tick
  BY <1>5 DEF Tick
<1>. QED
  BY <1>1, <1>2, <1>3, <1>4, <1>5 DEF ExNext

LEMMA SuiteIsJobs == SuiteTyped /\ [SuiteNext]_suiteVars => [Next]_vars
<1>1. ASSUME NEW j \in Job, Golden(j) \/ Spawn(j) \/ Command(j) \/ Watcher(j) \/ Eof(j)
      PROVE  UNCHANGED exVars
  BY <1>1 DEF Golden, Spawn, Command, Watcher, Eof, FirstCase, NextCase, Forks, KidsEnd, LeaderEnds,
     WatcherPolls, WatcherWaits, Change
<1>. QED
  BY <1>1, ExIsJobs DEF SuiteNext, RunnerStep
-----------------------------------------------------------------------------
(* The types.                                                              *)

ExTyped ==
  /\ run \in [Run -> RunStage]
  /\ answer \in [Run -> {"none", "ok", "busy"}]
  /\ holds \in [Run -> BOOLEAN] /\ renewing \in [Run -> BOOLEAN]
  /\ net \subseteq Request
  /\ age \in 0..Ttl
  /\ unheard \in BOOLEAN

LEMMA ExTypes ==
  ASSUME SuiteTyped, ExNext
  PROVE  ExTyped'
<1>. USE DEF RunStage, ExTyped
<1>1. ExTyped
  BY DEF SuiteTyped
<1>2. CASE JobStep
  BY <1>1, <1>2 DEF JobStep
<1>3. ASSUME NEW r \in Run, Controller(r) PROVE ExTyped'
  <2>1. \A t \in {"acquire", "renew", "release"} : Req(t, r) \in Request
    BY DEF Request
  <2>. HIDE DEF Req
  <2>. QED
    BY <1>1, <1>3, <2>1 DEF Controller, AskLease, LeaseGranted, BenchBusy, LeaseUnknown, Conflict,
       StartMeasuring, StopMeasuring, EndMeasuring
<1>4. ASSUME NEW r \in Run, Expire(r) PROVE UNCHANGED runVars
  BY <1>4 DEF Expire
<1>5. ASSUME NEW m \in net, Handle(m) \/ LoseRequest(m) PROVE ExTyped'
  <2>1. /\ run' = run /\ holds' = holds /\ renewing' = renewing /\ net' \subseteq net
        /\ unheard' \in {unheard, TRUE} /\ age' \in {age, 0}
    BY <1>5 DEF Handle, HandleAcquire, HandleRelease, LoseRequest
  <2>2. answer' \in [Run -> {"none", "ok", "busy"}]
    BY <1>1, <1>5 DEF Handle, HandleAcquire, HandleRelease, LoseRequest
  <2>3. age' \in 0..Ttl
    BY <1>1, <2>1 DEF Ttl
  <2>4. net' \subseteq Request /\ unheard' \in BOOLEAN
    BY <1>1, <2>1
  <2>. QED
    BY <1>1, <2>1, <2>2, <2>3, <2>4
<1>6. CASE Tick
  BY <1>1, <1>6 DEF Tick, Request, Ttl
<1>. QED
  BY <1>1, <1>2, <1>3, <1>4, <1>5, <1>6 DEF ExNext

LEMMA StepTypes ==
  ASSUME SuiteTyped, [SuiteNext]_suiteVars
  PROVE  SuiteTyped'
<1>. USE DEF SuiteTyped
<1>1. CASE RunnerStep
  <2>1. [Unstarted EXCEPT !.at = "starting"] \in Suites
    BY DEF Unstarted, Suites
  <2>2. \A j \in Job : [suite[j] EXCEPT !.at = "none", !.watcher = "over"] \in Suites
    BY ZenonT(40) DEF Suites
  <2>3. suite' \in [Job -> Suites]
    BY <1>1, <2>1, <2>2 DEF RunnerStep
  <2>. QED
    BY <1>1, <2>3, ExTypes DEF RunnerStep, ExTyped
<1>2. ASSUME NEW j \in Job, Golden(j) \/ Spawn(j) \/ Command(j) \/ Watcher(j) \/ Eof(j)
      PROVE  SuiteTyped'
  <2>1. PICK s \in Suites : Change(j, s)
    <3>1. suite[j] \in Suites
      OBVIOUS
    <3>2. CASE Golden(j)
      BY <3>1, <3>2 DEF Golden, FirstCase, NextCase, Suites
    <3>3. CASE Spawn(j) \/ Eof(j)
      BY <3>1, <3>3 DEF Spawn, Eof, Suites
    <3>4. CASE Command(j)
      BY <3>1, <3>4 DEF Command, Forks, KidsEnd, LeaderEnds, Suites
    <3>5. CASE Watcher(j)
      <4>1. Busy(j) \in BOOLEAN
        BY DEF Busy, Suites
      <4>. QED
        BY <3>1, <3>5, <4>1 DEF Watcher, WatcherPolls, WatcherWaits, Suites
    <3>. QED
      BY <1>2, <3>2, <3>3, <3>4, <3>5
  <2>. QED
    BY <2>1 DEF Change
<1>3. CASE UNCHANGED suiteVars
  BY <1>3
<1>. QED
  BY <1>1, <1>2, <1>3 DEF SuiteNext
-----------------------------------------------------------------------------
(* The lease of a run.                                                     *)

\* What the job runner does to the lease: nothing, unless it restarts.
LEMMA JobStepLease ==
  ASSUME JobStep, restarts \in Nat, restarts' = 0
  PROVE  lease' = lease /\ restarts = 0
<1>1. CASE UNCHANGED <<lease, restarts>>
  BY <1>1
<1>2. CASE Crash
  BY <1>2 DEF Crash
<1>3. ASSUME NEW j \in Job, StartJob(j) \/ Runner(j) \/ Timer(j) \/ RequestCancel(j)
      PROVE  UNCHANGED <<lease, restarts>>
  BY <1>3 DEF StartJob, Register, FlagSuperseded, SupersededDone, OpenLog, InsertRow, Submit,
     Runner, SkipCancelled, StartFn, ProgressNow, ProgressLater, EndFn, FnReturns, FnCancelled,
     FnRaises, WriteCompleted, WriteCancelled, WriteFailed, LogCompleted, PopRunner,
     Timer, TimerFires, Flush, RequestCancel, CancelFlag, CancelMiss, CancelRead
<1>4. CASE Startup \/ \E c \in Class : Pick(c)
  BY <1>4 DEF Startup, Pick
<1>. QED
  BY <1>1, <1>2, <1>3, <1>4 DEF JobStep

LEMMA ControllerLease ==
  ASSUME SuiteTyped, LeaseOfRun, NEW r \in Run, Controller(r)
  PROVE  LeaseOfRun'
<1>. USE DEF SuiteTyped, LeaseOfRun, RunStage, Request
<1>1. UNCHANGED <<lease, restarts>>
  BY DEF Controller, AskLease, LeaseGranted, BenchBusy, LeaseUnknown, Conflict,
     StartMeasuring, StopMeasuring, EndMeasuring, vars, procVars
<1>2. \A s \in Run \ {r} : run'[s] = run[s] /\ answer'[s] = answer[s]
  BY DEF Controller, AskLease, LeaseGranted, BenchBusy, LeaseUnknown, Conflict,
     StartMeasuring, StopMeasuring, EndMeasuring
<1>3. run'[r] # "idle" /\ (run[r] = "ended" => run'[r] = "ended")
  BY DEF Controller, AskLease, LeaseGranted, BenchBusy, LeaseUnknown, Conflict,
     StartMeasuring, StopMeasuring, EndMeasuring
<1>4. \A m \in net' : m.type = "release" => m \in net \/ (m.run = r /\ run'[r] = "ended")
  BY DEF Controller, AskLease, LeaseGranted, BenchBusy, LeaseUnknown, Conflict,
     StartMeasuring, StopMeasuring, EndMeasuring
<1>5. ~unheard' => ~unheard /\ (Granted(r)' => Granted(r))
  BY DEF Controller, AskLease, LeaseGranted, BenchBusy, LeaseUnknown, Conflict,
     StartMeasuring, StopMeasuring, EndMeasuring, Granted
<1>6. age' = age /\ \A m \in net : ~unheard' => m \in net'
  BY DEF Controller, AskLease, LeaseGranted, BenchBusy, LeaseUnknown, Conflict,
     StartMeasuring, StopMeasuring, EndMeasuring
<1>7. \A s \in Run \ {r} : holds'[s] = holds[s] /\ renewing'[s] = renewing[s]
  BY DEF Controller, AskLease, LeaseGranted, BenchBusy, LeaseUnknown, Conflict,
     StartMeasuring, StopMeasuring, EndMeasuring
<1>8. ASSUME ~unheard', run'[r] \in {"probing", "measuring"}
      PROVE  \/ run[r] = "acquiring" /\ answer[r] = "ok" /\ run'[r] = "probing" /\ holds'[r]
             \/ run[r] = "probing" /\ run'[r] = "measuring" /\ holds'[r] = holds[r]
                /\ renewing'[r] = holds[r]
  BY <1>8 DEF Controller, AskLease, LeaseGranted, BenchBusy, LeaseUnknown, Conflict,
     StartMeasuring, StopMeasuring, EndMeasuring
<1>9. run'[r] = "acquiring" => ~Granted(r)'
  BY DEF Controller, AskLease, LeaseGranted, BenchBusy, LeaseUnknown, Conflict,
     StartMeasuring, StopMeasuring, EndMeasuring, Granted
<1>10. ASSUME Heard', NEW s \in Run, Granted(s)'
       PROVE  /\ ActiveLease(s)'
              /\ run'[s] # "acquiring" => holds'[s]
              /\ run'[s] = "measuring" => renewing'[s]
              /\ \/ age' = 0
                 \/ age' = 1 /\ run'[s] = "measuring" /\ Req("renew", s) \in net'
  <2>1. Heard /\ Granted(s)
    BY <1>1, <1>2, <1>5, <1>10 DEF Heard, Granted
  <2>2. CASE s = r
    BY <1>1, <1>5, <1>6, <1>8, <1>9, <1>10, <2>1, <2>2 DEF Heard, Granted, ActiveLease, LeaseIs
  <2>3. CASE s # r
    BY <1>1, <1>2, <1>6, <1>7, <1>10, <2>1, <2>3 DEF Heard, Granted, ActiveLease, LeaseIs
  <2>. QED
    BY <2>2, <2>3
<1>. QED
  BY <1>2, <1>3, <1>4, <1>10

\* The serve-engine answers an acquire with the lease it grants, gives a renewal only a
\* lease that is free or the run's own, never refuses the holder's, and takes a lease
\* away on its run's release.
LEMMA HandleLease ==
  ASSUME SuiteTyped, LeaseOfRun, LeaseExcludesBenchJobs, NEW m \in net, Handle(m) \/ LoseRequest(m)
  PROVE  LeaseOfRun'
<1>. USE DEF SuiteTyped, LeaseOfRun, RunStage, Request
<1>1. /\ UNCHANGED <<run, holds, renewing>> /\ net' = net \ {m}
      /\ restarts' = restarts /\ (~unheard' => ~unheard) /\ m.run \in Run
  BY DEF Handle, HandleAcquire, HandleRelease, LoseRequest, AcquireLease, ReleaseLease, vars, procVars
<1>2. \A r \in Run : run[r] # "acquiring" => answer'[r] = answer[r]
  BY <1>1 DEF Handle, HandleAcquire, HandleRelease, LoseRequest
<1>3. ASSUME Heard, Heard', NEW r \in Run, Granted(r)'
      PROVE  /\ ActiveLease(r)'
             /\ \/ age' = 0
                \/ age' = 1 /\ run[r] = "measuring" /\ Req("renew", r) \in net'
             /\ run[r] # "acquiring" => Granted(r)
  <2>1. CASE LoseRequest(m)
    BY <1>3, <2>1 DEF LoseRequest, Heard
  <2>2. CASE HandleAcquire(m)
    <3>1. CASE AcquireLease(m.run)
      <4>1. ActiveLease(m.run)'
        <5>1. m.run \in LeaseId /\ lease' = [id |-> m.run, active |-> TRUE]
          BY <1>1, <3>1 DEF AcquireLease
        <5>2. lease' \in [id : LeaseId, active : BOOLEAN]
          BY <5>1
        <5>. QED
          BY <5>1, <5>2, LeaseAssumption DEF ActiveLease, LeaseIs
      <4>2. Granted(r) => r = m.run
        BY <1>1, <1>3, <3>1 DEF AcquireLease, LeaseRefused, Granted
      <4>3. ~Granted(r) => r = m.run /\ run[r] = "acquiring"
        BY <1>1, <1>3, <2>2 DEF HandleAcquire, Granted
      <4>4. age' = 0
        BY <2>2, <3>1 DEF HandleAcquire, AcquireLease
      <4>. QED
        BY <4>1, <4>2, <4>3, <4>4
    <3>2. CASE LeaseRefused(m.run) /\ UNCHANGED vars
      <4>1. Granted(r)
        BY <1>1, <1>3, <2>2, <3>2 DEF HandleAcquire, Granted
      <4>2. ActiveLease(r) /\ age' = age
        BY <1>3, <2>2, <3>2, <4>1 DEF HandleAcquire
      <4>3. m.run # r
        BY <1>1, <3>2, <4>2 DEF LeaseRefused, LeaseExcludesBenchJobs, LeaseHeld, ActiveLease, LeaseIs
      <4>4. Req("renew", r) \in net => Req("renew", r) \in net'
        BY <1>1, <4>3
      <4>. QED
        BY <1>3, <3>2, <4>1, <4>2, <4>4 DEF Granted, ActiveLease, LeaseIs, vars
    <3>. QED
      BY <2>2, <3>1, <3>2 DEF HandleAcquire
  <2>3. CASE HandleRelease(m)
    <3>1. Granted(r) /\ run[m.run] = "ended"
      BY <1>1, <1>3, <2>3 DEF HandleRelease, Granted
    <3>2. ActiveLease(r) /\ r # m.run
      BY <1>3, <3>1 DEF Granted
    <3>3. age' = age /\ (Req("renew", r) \in net => Req("renew", r) \in net')
      BY <1>1, <2>3, <3>2 DEF HandleRelease
    <3>. QED
      BY <1>3, <2>3, <3>1, <3>2, <3>3 DEF HandleRelease, ReleaseLease, ActiveLease, LeaseIs, vars
  <2>. QED
    BY <2>1, <2>2, <2>3 DEF Handle
<1>. QED
  BY <1>1, <1>2, <1>3 DEF Heard, Granted

\* A period passes: the renewals of the last one were heard, so that the lease was new.
LEMMA TickLease ==
  ASSUME SuiteTyped, LeaseOfRun, Tick
  PROVE  LeaseOfRun'
<1>. USE DEF SuiteTyped, LeaseOfRun, RunStage, Request, Tick
<1>1. \A m \in net' : m.type = "release" => m \in net
  OBVIOUS
<1>2. ASSUME Heard', NEW r \in Run, Granted(r)'
      PROVE  /\ ActiveLease(r)' /\ holds'[r] /\ renewing'[r]
             /\ age' = 1 /\ run'[r] = "measuring" /\ Req("renew", r) \in net'
  <2>1. Heard /\ net = {} /\ run[r] = "measuring"
    BY <1>2 DEF Heard, Granted, vars, procVars
  <2>2. ActiveLease(r) /\ holds[r] /\ renewing[r] /\ age = 0
    BY <2>1 DEF Granted
  <2>. QED
    BY <2>1, <2>2 DEF LeaseHeld, Ttl, ActiveLease, LeaseIs, vars
<1>. QED
  BY <1>1, <1>2

LEMMA LeaseOfRunStep ==
  ASSUME SuiteTyped, TypeOK, LeaseOfRun, LeaseExcludesBenchJobs, [SuiteNext]_suiteVars
  PROVE  LeaseOfRun'
<1>. USE DEF LeaseOfRun, Heard, ActiveLease, LeaseIs, Granted
<1>1. CASE JobStep
  <2>1. restarts \in Nat /\ UNCHANGED runVars
    BY <1>1 DEF TypeOK, JobStep
  <2>. QED
    BY <1>1, <2>1, JobStepLease
<1>2. ASSUME NEW r \in Run, Expire(r) PROVE LeaseOfRun'
  BY <1>2 DEF Expire, ExpireLease, SuiteTyped, Ttl, vars, procVars
<1>3. CASE ExNext
  BY <1>1, <1>2, <1>3, ControllerLease, HandleLease, TickLease DEF ExNext
<1>4. CASE UNCHANGED exVars
  BY <1>4 DEF vars
<1>. QED
  BY <1>3, <1>4 DEF SuiteNext, RunnerStep, Golden, Spawn, Command, Watcher, Eof, FirstCase, NextCase,
     Forks, KidsEnd, LeaderEnds, WatcherPolls, WatcherWaits, Change
-----------------------------------------------------------------------------
(* The processes of a suite.                                               *)

LEMMA NoCrash ==
  ASSUME TypeOK, [Next]_vars, restarts' = 0
  PROVE  restarts = 0 /\ (up => up')
<1>1. \/ restarts' = restarts /\ (up => up')
      \/ restarts' = restarts + 1
  <2>1. ASSUME NEW k \in Job, StartJob(k) \/ Runner(k) \/ Timer(k) \/ RequestCancel(k) \/ Faulty(k)
        PROVE  restarts' = restarts /\ up' = up
    BY <2>1 DEF StartJob, Register, FlagSuperseded, SupersededDone, OpenLog, InsertRow, Submit,
       Runner, SkipCancelled, StartFn, ProgressNow, ProgressLater, EndFn, FnReturns, FnCancelled,
       FnRaises, WriteCompleted, WriteCancelled, WriteFailed, LogCompleted, PopRunner,
       Timer, TimerFires, Flush, RequestCancel, CancelFlag, CancelMiss, CancelRead,
       Faulty, StartRaises, FlushRaises, CompletedRaises, HandlerRaises, CancelOrphan
  <2>2. (\E c \in Class : Pick(c)) => restarts' = restarts /\ up' = up
    BY DEF Pick
  <2>3. ASSUME NEW l \in LeaseId, AcquireLease(l) \/ ReleaseLease(l) \/ ExpireLease(l)
        PROVE  restarts' = restarts /\ up' = up
    BY <2>3 DEF AcquireLease, ReleaseLease, ExpireLease
  <2>. QED
    BY <2>1, <2>2, <2>3 DEF Next, Steps, Crash, Startup, vars
<1>. QED
  BY <1>1 DEF TypeOK

\* A job whose fn runs goes on with it, ends it, or dies with the process.
LEMMA FnEnds ==
  ASSUME TypeOK, QueueHoldsQueued, [Next]_vars, restarts = 0, restarts' = 0, up, NEW j \in Job
  PROVE  stage[j] = "running" => stage'[j] \in {"running", "completing", "cancelling", "failing"}
<1>. USE DEF TypeOK, Stage, Starting, InRunner
<1>1. CASE UNCHANGED stage
  BY <1>1
<1>2. ASSUME NEW k \in Job, StartJob(k) \/ StartRaises(k)
      PROVE  stage[j] = "running" => stage'[j] = "running"
  BY <1>2 DEF StartJob, Register, FlagSuperseded, SupersededDone, OpenLog, InsertRow, Submit, StartRaises
<1>3. ASSUME NEW k \in Job, Runner(k) \/ CompletedRaises(k) \/ HandlerRaises(k)
      PROVE  stage[j] = "running" =>
               stage'[j] \in {"running", "completing", "cancelling", "failing"}
  BY <1>3 DEF Runner, SkipCancelled, StartFn, ProgressNow, ProgressLater, EndFn, FnReturns,
     FnCancelled, FnRaises, WriteCompleted, WriteCancelled, WriteFailed, LogCompleted, PopRunner,
     CompletedRaises, HandlerRaises
<1>4. ASSUME NEW k \in Job, Timer(k) \/ RequestCancel(k) \/ FlushRaises(k) \/ CancelOrphan(k)
      PROVE  UNCHANGED stage
  BY <1>4 DEF Timer, TimerFires, Flush, RequestCancel, CancelFlag, CancelMiss, CancelRead,
     FlushRaises, CancelOrphan
<1>5. ASSUME NEW c \in Class, Pick(c)
      PROVE  stage[j] = "running" => stage'[j] = "running"
  <2>1. PICK k \in Job : stage[k] = "queued" /\ stage' = [stage EXCEPT ![k] = "entered"]
    BY <1>5, PickHead
  <2>. QED
    BY <1>5, <2>1 DEF Pick
<1>6. ASSUME NEW l \in LeaseId, AcquireLease(l) \/ ReleaseLease(l) \/ ExpireLease(l)
      PROVE  UNCHANGED stage
  BY <1>6 DEF AcquireLease, ReleaseLease, ExpireLease
<1>7. ~Crash /\ ~Startup
  BY DEF Crash, Startup
<1>. QED
  BY <1>1, <1>2, <1>3, <1>4, <1>5, <1>6, <1>7 DEF Next, Steps, Faulty, vars

LEMMA FnOutlivesStep ==
  ASSUME Faults = {}, SuiteTyped, TypeOK, QueueHoldsQueued, FnOutlives, [SuiteNext]_suiteVars
  PROVE  FnOutlives'
<1>. USE DEF FnOutlives, SuiteTyped
<1>. SUFFICES ASSUME restarts' = 0
              PROVE  up' /\ \A j \in Job : Busy(j)' => stage'[j] = "running" /\ suite'[j].at = "reading"
  OBVIOUS
<1>1. CASE RunnerStep
  <2>1. [Next]_vars
    BY <1>1, ExIsJobs DEF RunnerStep
  <2>2. restarts = 0
    BY <2>1, NoCrash
  <2>3. up'
    BY <2>1, <2>2, NoCrash
  <2>4. ASSUME NEW j \in Job, Busy(j)' PROVE stage'[j] = "running" /\ suite'[j].at = "reading"
    <3>1. Unstarted.leader = "off" /\ ~Unstarted.kids
          /\ [Unstarted EXCEPT !.at = "starting"].leader = "off" /\ ~[Unstarted EXCEPT !.at = "starting"].kids
      BY DEF Unstarted
    <3>2. suite'[j] = suite[j]
      BY <1>1, <2>3, <2>4, <3>1 DEF RunnerStep, Busy
    <3>3. stage[j] = "running" /\ suite[j].at = "reading"
      BY <2>2, <2>4, <3>2 DEF Busy
    <3>4. ~MayReturn(j) /\ ~MayCancel(j) /\ ~MayRaise(j)
      BY <3>3 DEF MayReturn, MayCancel, MayRaise, AllAsked
    <3>5. stage'[j] \notin {"completing", "cancelling", "failing"}
      BY <1>1, <3>3, <3>4 DEF RunnerStep, Ends
    <3>. QED
      BY <2>1, <2>2, <3>2, <3>3, <3>5, FnEnds
  <2>. QED
    BY <2>3, <2>4
<1>2. ASSUME NEW j \in Job, Golden(j) \/ Spawn(j) \/ Command(j) \/ Watcher(j) \/ Eof(j)
      PROVE  up' /\ \A k \in Job : Busy(k)' => stage'[k] = "running" /\ suite'[k].at = "reading"
  <2>1. UNCHANGED vars /\ \A k \in Job \ {j} : suite'[k] = suite[k]
    BY <1>2 DEF Golden, Spawn, Command, Watcher, Eof, FirstCase, NextCase, Forks, KidsEnd, LeaderEnds,
       WatcherPolls, WatcherWaits, Change
  <2>2. restarts = 0 /\ UNCHANGED <<up, stage>>
    BY <2>1 DEF vars
  <2>3. suite[j] \in Suites
    OBVIOUS
  <2>4. Busy(j)' => stage[j] = "running" /\ suite'[j].at = "reading"
    <3>1. CASE Golden(j)
      <4>1. suite'[j].leader = suite[j].leader /\ suite'[j].kids = suite[j].kids
        BY <2>3, <3>1 DEF Golden, FirstCase, NextCase, Change, Suites
      <4>2. suite[j].at # "reading"
        BY <3>1 DEF Golden, FirstCase, NextCase, Asking
      <4>. QED
        BY <2>2, <4>1, <4>2 DEF Busy
    <3>2. CASE Spawn(j)
      BY <2>3, <3>2 DEF Spawn, Change, Suites
    <3>3. CASE Command(j)
      <4>1. (Busy(j)' => Busy(j)) /\ suite'[j].at = suite[j].at
        <5>1. CASE Forks(j)
          BY <2>3, <5>1 DEF Forks, Busy, Change, Suites
        <5>2. CASE KidsEnd(j)
          BY <2>3, <5>2 DEF KidsEnd, Busy, Change, Suites
        <5>3. CASE LeaderEnds(j)
          <6>1. PICK b \in BOOLEAN : Change(j, [suite[j] EXCEPT !.leader = "gone", !.scored = b])
            BY <5>3 DEF LeaderEnds
          <6>. QED
            BY <2>3, <5>3, <6>1 DEF LeaderEnds, Busy, Change, Suites
        <5>. QED
          BY <3>3, <5>1, <5>2, <5>3 DEF Command
      <4>. QED
        BY <2>2, <4>1
    <3>4. CASE Watcher(j)
      <4>1. /\ suite'[j].leader = suite[j].leader /\ suite'[j].kids = suite[j].kids
            /\ suite'[j].at = suite[j].at
        <5>1. CASE WatcherPolls(j)
          BY <2>3, <5>1 DEF WatcherPolls, Change, Suites
        <5>2. CASE WatcherWaits(j)
          <6>1. PICK b \in BOOLEAN : Change(j, IF flag[j]
                  THEN [suite[j] EXCEPT !.watcher = "over", !.signalled = b]
                  ELSE [suite[j] EXCEPT !.watcher = "polling"])
            BY <2>3, <5>2 DEF WatcherWaits, Busy, Suites
          <6>. QED
            BY <2>3, <6>1 DEF Change, Suites
        <5>. QED
          BY <3>4, <5>1, <5>2 DEF Watcher
      <4>. QED
        BY <2>2, <4>1 DEF Busy
    <3>5. CASE Eof(j)
      BY <2>3, <3>5 DEF Eof, Change, Busy, Suites
    <3>. QED
      BY <1>2, <3>1, <3>2, <3>3, <3>4, <3>5
  <2>. QED
    BY <2>1, <2>2, <2>4 DEF Busy
<1>3. CASE UNCHANGED suiteVars
  BY <1>3 DEF vars, Busy
<1>. QED
  BY <1>1, <1>2, <1>3 DEF SuiteNext
-----------------------------------------------------------------------------
\* The suites, the controller's lease calls and the network between them add no step to
\* the job runner that it does not take alone: what holds of Jobs holds here.
THEOREM SuiteRefinesJobs == SuiteSpec => Spec /\ []SuiteTyped
<1>1. SuiteInit => Init /\ SuiteTyped
  BY SuiteInitOK DEF SuiteInit, ExInit, SuiteInv
<1>2. SuiteTyped /\ [SuiteNext]_suiteVars => SuiteTyped'
  BY StepTypes
<1>3. SuiteTyped /\ [SuiteNext]_suiteVars => [Next]_vars
  BY SuiteIsJobs
<1>. QED
  BY <1>1, <1>2, <1>3, PTL DEF SuiteSpec, Spec

LEMMA LeaseOfRunHolds == SuiteSpec => []LeaseOfRun
<1>1. SuiteInit => LeaseOfRun
  BY SuiteInitOK DEF SuiteInv
<1>2. SuiteTyped /\ TypeOK /\ LeaseExcludesBenchJobs /\ LeaseOfRun /\ [SuiteNext]_suiteVars
        => LeaseOfRun'
  BY LeaseOfRunStep
<1>. QED
  BY <1>1, <1>2, SuiteRefinesJobs, TypeCorrect, LeaseCorrect, PTL DEF SuiteSpec

LEMMA FnOutlivesHolds ==
  ASSUME Faults = {}
  PROVE  SuiteSpec => []FnOutlives
<1>1. SuiteInit => FnOutlives
  BY SuiteInitOK DEF SuiteInv
<1>2. SuiteTyped /\ TypeOK /\ RunnerInv /\ FnOutlives /\ [SuiteNext]_suiteVars => FnOutlives'
  BY FnOutlivesStep DEF RunnerInv
<1>. QED
  BY <1>1, <1>2, SuiteRefinesJobs, TypeCorrect, RunnerCorrect, PTL DEF SuiteSpec

\* As long as the serve-engine goes on, answers every lease call and no log line fails,
\* one bench measures at a time: no second run of the controller, no golden case and no
\* process of a suite (createRun in streams/engine.ts, acquire_lease in jobs.py and the
\* suites of agentic.py together).
THEOREM MeasurementIsAlone ==
  ASSUME Faults = {}, \A j \in Job : ClassOf(j) = "bench"
  PROVE  SuiteSpec => []OneMeasurement
<1>1. SuiteTyped /\ LeaseOfRun /\ FnOutlives /\ LiveFollowsStage /\ LeaseExcludesBenchJobs => OneMeasurement
  <2>. SUFFICES ASSUME SuiteTyped, LeaseOfRun, FnOutlives, LiveFollowsStage, LeaseExcludesBenchJobs,
                       Heard, NEW r \in Measuring
                PROVE  Measuring = {r} /\ \A j \in Job : ~Asking(j) /\ ~Busy(j)
    BY DEF OneMeasurement, Heard
  <2>1. \A s \in Measuring : s \in LeaseId /\ ActiveLease(s)
    BY DEF Measuring, LeaseOfRun, Granted
  <2>2. Measuring = {r}
    BY <2>1 DEF ActiveLease, LeaseIs
  <2>3. \A j \in Job : stage[j] # "running"
    BY <2>1 DEF LeaseHeld, LeaseExcludesBenchJobs, LiveOfClass, LiveFollowsStage
  <2>4. \A j \in Job : ~Busy(j)
    BY <2>3 DEF FnOutlives, Heard
  <2>. QED
    BY <2>2, <2>3, <2>4 DEF Asking
<1>. QED
  BY <1>1, LeaseOfRunHolds, FnOutlivesHolds, SuiteRefinesJobs, RunnerCorrect, LeaseCorrect, PTL DEF RunnerInv
-----------------------------------------------------------------------------
(* The page that follows a job.                                            *)

USE DEF watchVars, followVars, pageVars, logVars

Pages == [at : {"off", "connecting", "open", "asking", "waiting", "closed"}, errors : Nat]

\* The types the theorems need.
FollowTyped ==
  /\ watch \in [Job -> WatchState]
  /\ told \in [Job -> {"none", "orphaned"} \cup Unfinished \cup Terminal]
  /\ page \in [Job -> Pages]
  /\ written \in [Job -> Nat] /\ offset \in [Job -> Nat] /\ seen \in [Job -> Nat]
  /\ delivered \in [Job -> Nat] /\ log \in [Job -> Seq(Nat)]
  /\ status \in [Job -> Reply] /\ last \in [Job -> Reply] /\ reply \in [Job -> Reply]

\* A stream found no runner only once the runner is gone, and said so only of a job
\* that will not complete.
DeadIsOver ==
  \A j \in Job :
    /\ watch[j] # "off" => row[j] # "none"
    /\ watch[j] = "dead" => stage[j] = "ended"
    /\ told[j] = "orphaned" => stage[j] = "ended" /\ row[j] # "completed"

\* The page has what the stream has sent, or more.
LogOk(j) ==
  /\ page[j].at = "open" =>
       seen[j] = offset[j] /\ offset[j] <= written[j] /\ offset[j] <= delivered[j]
  /\ log[j] = [k \in 1..delivered[j] |-> k]

LogFollows == \A j \in Job : LogOk(j)

FollowInv == FollowTyped /\ DeadIsOver /\ LogFollows
-----------------------------------------------------------------------------
\* What the job runner never takes back.
LEMMA RunnerStays ==
  ASSUME TypeOK, RunnerInv, NEW j \in Job, [Next]_vars
  PROVE  /\ row[j] # "none" => row'[j] # "none"
         /\ stage[j] = "ended" => stage'[j] = "ended"
         /\ stage[j] = "ended" /\ row[j] # "completed" => row'[j] # "completed"
<1> USE DEF TypeOK, Terminal, Unfinished
<1>1. ASSUME NEW i \in Job, StartJob(i) \/ Timer(i) \/ RequestCancel(i)
      PROVE  /\ row[j] # "none" => row'[j] # "none"
             /\ stage[j] = "ended" => stage'[j] = "ended"
             /\ stage[j] = "ended" /\ row[j] # "completed" => row'[j] # "completed"
  BY <1>1 DEF StartJob, Timer, RequestCancel, Register, FlagSuperseded, SupersededDone, OpenLog, InsertRow,
     Submit, TimerFires, Flush, CancelFlag, CancelMiss, CancelRead
<1>2. ASSUME NEW i \in Job, Runner(i)
      PROVE  /\ row[j] # "none" => row'[j] # "none"
             /\ stage[j] = "ended" => stage'[j] = "ended"
             /\ stage[j] = "ended" /\ row[j] # "completed" => row'[j] # "completed"
  BY <1>2 DEF Runner, EndFn, SkipCancelled, StartFn, ProgressNow, ProgressLater, FnReturns, FnCancelled,
     FnRaises, WriteCompleted, WriteCancelled, WriteFailed, LogCompleted, PopRunner
<1>3. ASSUME NEW i \in Job, Faulty(i)
      PROVE  /\ row[j] # "none" => row'[j] # "none"
             /\ stage[j] = "ended" => stage'[j] = "ended"
             /\ stage[j] = "ended" /\ row[j] # "completed" => row'[j] # "completed"
  BY <1>3 DEF Faulty, StartRaises, FlushRaises, CompletedRaises, HandlerRaises, CancelOrphan
<1>4. ASSUME NEW c \in Class, Pick(c) PROVE stage[j] = "ended" => stage'[j] = "ended"
  BY <1>4, PickHead DEF RunnerInv
<1>5. ASSUME NEW c \in Class, Pick(c) PROVE row' = row
  BY <1>5 DEF Pick
<1>6. CASE Crash \/ Startup \/ UNCHANGED vars
  BY <1>6 DEF Crash, Startup, vars
<1>7. ASSUME NEW l \in LeaseId, AcquireLease(l) \/ ReleaseLease(l) \/ ExpireLease(l)
      PROVE  UNCHANGED <<row, stage>>
  BY <1>7 DEF AcquireLease, ReleaseLease, ExpireLease
<1>. QED
  BY <1>1, <1>2, <1>3, <1>4, <1>5, <1>6, <1>7 DEF Next, Steps

\* The page and its stream leave the runner alone.
LEMMA FollowRefines == [FollowNext]_everything => [Next]_vars
<1>1. ASSUME NEW j \in Job, Page(j) \/ PollLiveness(j) \/ WriteLog(j) PROVE UNCHANGED vars
  BY <1>1 DEF Page, Track, Clear, Connect, OpenStream, ConnectFails, StreamCloses, Receive, PollRow,
     CheckJob, CheckAgain, AskCancel, CancelAnswers, PollLiveness, WriteLog, allVars
<1>2. System => Next
  BY DEF System
<1>3. UNCHANGED everything => UNCHANGED vars
  BY DEF everything, allVars
<1>. QED
  BY <1>1, <1>2, <1>3 DEF FollowNext
-----------------------------------------------------------------------------
LEMMA FollowInitOK == FollowInit => FollowInv /\ Init
<1>. SUFFICES ASSUME FollowInit PROVE FollowInv /\ Init
  OBVIOUS
<1>1. <<>> \in Seq(Nat) /\ <<>> = [k \in 1..0 |-> k]
  OBVIOUS
<1>2. FollowTyped
  BY <1>1 DEF FollowInit, WatchInit, FollowTyped, WatchState, Pages, Reply, NoAnswer, NotTracking
<1>3. DeadIsOver
  BY DEF FollowInit, WatchInit, DeadIsOver
<1>4. LogFollows
  BY <1>1 DEF FollowInit, LogFollows, LogOk, NotTracking, NoAnswer
<1>. QED
  BY <1>2, <1>3, <1>4 DEF FollowInv, FollowInit, WatchInit

\* A step of the runner, or of none.
LEMMA RunnerKeeps ==
  ASSUME TypeOK, RunnerInv, FollowInv, System /\ UNCHANGED pageVars
  PROVE  FollowInv'
<1>1. \/ UNCHANGED <<watch, told>>
      \/ watch' = [j \in Job |-> "off"] /\ told' = [j \in Job |-> "none"]
  BY DEF System
<1>2. FollowTyped'
  BY <1>1 DEF FollowInv, FollowTyped, WatchState
<1>3. DeadIsOver'
  BY <1>1, RunnerStays DEF System, FollowInv, DeadIsOver
<1>4. LogFollows'
  BY DEF FollowInv, LogFollows, LogOk
<1>. QED
  BY <1>2, <1>3, <1>4 DEF FollowInv

\* What a poll of the stream, and the log, do.
LEMMA StreamKeeps ==
  ASSUME TypeOK, RunnerInv, FollowInv, NEW j \in Job,
         (PollLiveness(j) /\ UNCHANGED followVars) \/ WriteLog(j)
  PROVE  FollowInv'
<1>1. UNCHANGED <<row, stage, told>>
  BY DEF PollLiveness, WriteLog, allVars, vars
<1>2. CASE PollLiveness(j) /\ UNCHANGED followVars
  <2>1. watch[j] = "open" /\ watch' = [watch EXCEPT ![j] = IF j \in live THEN "live" ELSE "dead"]
    BY <1>2 DEF PollLiveness, IsLive
  <2>2. j \notin live => stage[j] = "ended"
    BY <2>1 DEF FollowInv, DeadIsOver, RunnerInv, LiveFollowsStage, RowFollowsStage
  <2>3. FollowTyped'
    BY <1>1, <1>2, <2>1 DEF FollowInv, FollowTyped, WatchState
  <2>4. DeadIsOver'
    BY <1>1, <2>1, <2>2 DEF FollowInv, FollowTyped, DeadIsOver
  <2>5. LogFollows'
    BY <1>2 DEF FollowInv, LogFollows, LogOk
  <2>. QED
    BY <2>3, <2>4, <2>5 DEF FollowInv
<1>3. CASE WriteLog(j)
  <2>1. /\ written[j] \in Nat /\ written' = [written EXCEPT ![j] = written[j] + 1]
        /\ UNCHANGED <<watch, told, page, offset, seen, delivered, log, status, last, reply>>
    BY <1>3 DEF WriteLog, allVars, FollowInv, FollowTyped
  <2>2. FollowTyped'
    BY <2>1 DEF FollowInv, FollowTyped
  <2>3. DeadIsOver'
    BY <1>1, <2>1 DEF FollowInv, DeadIsOver
  <2>4. LogFollows'
    BY <2>1 DEF FollowInv, FollowTyped, LogFollows, LogOk
  <2>. QED
    BY <2>2, <2>3, <2>4 DEF FollowInv
<1>. QED
  BY <1>2, <1>3
-----------------------------------------------------------------------------
\* The pieces a poll brings are those the page does not have yet.
LEMMA PiecesFit ==
  ASSUME FollowInv, NEW j \in Job, page[j].at = "open"
  PROVE  /\ NewPieces(j) \in Seq(Nat)
         /\ delivered[j] + Len(NewPieces(j)) \in Nat
         /\ written[j] <= delivered[j] + Len(NewPieces(j))
         /\ log[j] \o NewPieces(j) = [k \in 1..(delivered[j] + Len(NewPieces(j))) |-> k]
<1>. DEFINE length == written[j] - offset[j]
            ahead == delivered[j] - seen[j]
            skip == IF ahead < 0 THEN 0 ELSE IF ahead < length THEN ahead ELSE length
            n == length - skip
            d == delivered[j]
<1>1. /\ written[j] \in Nat /\ offset[j] \in Nat /\ seen[j] \in Nat /\ d \in Nat
      /\ seen[j] = offset[j] /\ offset[j] <= written[j] /\ offset[j] <= d
      /\ log[j] = [k \in 1..d |-> k]
  BY DEF FollowInv, FollowTyped, LogFollows, LogOk
<1>2. n \in Nat /\ (n > 0 => offset[j] + skip = d) /\ written[j] <= d + n /\ offset[j] + skip \in Nat
  BY SMTT(40), <1>1
<1>3. NewPieces(j) = [k \in 1..n |-> offset[j] + skip + k]
  BY DEF NewPieces
<1>. HIDE DEF n, skip, d
<1>4. NewPieces(j) \in Seq(Nat) /\ Len(NewPieces(j)) = n /\ d + n \in Nat
  BY <1>1, <1>2, <1>3
<1>5. log[j] \in Seq(Nat) /\ Len(log[j]) = d
  BY <1>1
<1>6. log[j] \o NewPieces(j) = [k \in 1..(d + n) |-> k]
  <2>0. \A a, b \in Seq(Nat) :
          /\ a \o b \in Seq(Nat) /\ Len(a \o b) = Len(a) + Len(b)
          /\ \A k \in 1..(Len(a) + Len(b)) : (a \o b)[k] = IF k <= Len(a) THEN a[k] ELSE b[k - Len(a)]
    OBVIOUS
  <2>1. /\ log[j] \o NewPieces(j) \in Seq(Nat) /\ Len(log[j] \o NewPieces(j)) = d + n
        /\ \A k \in 1..(d + n) : (log[j] \o NewPieces(j))[k]
             = IF k <= d THEN log[j][k] ELSE NewPieces(j)[k - d]
    BY <1>4, <1>5, <2>0
  <2>2. \A k \in 1..(d + n) : (log[j] \o NewPieces(j))[k] = k
    BY <1>1, <1>2, <1>3, <2>1
  <2>3. \A r \in Seq(Nat) : r = [k \in 1..Len(r) |-> r[k]]
    OBVIOUS
  <2>. HIDE DEF length
  <2>4. log[j] \o NewPieces(j) = [k \in 1..(d + n) |-> (log[j] \o NewPieces(j))[k]]
    BY <2>1, <2>3
  <2>. QED
    BY <2>2, <2>4
<1>. QED
  BY <1>2, <1>4, <1>6 DEF d

\* Where the page of j goes.
LEMMA PageMoves ==
  ASSUME FollowTyped, NEW j \in Job
  PROVE  /\ NotTracking \in Pages /\ NotTracking.at = "off"
         /\ \A s \in {"connecting", "open", "asking", "waiting", "closed"} :
              At(j, s) \in [Job -> Pages] /\ At(j, s)[j].at = s
         /\ Failed(j) => page' \in [Job -> Pages] /\ page'[j].at \in {"asking", "connecting"}
<1>1. NotTracking \in Pages /\ NotTracking.at = "off"
  BY DEF Pages, NotTracking
<1>2. page \in [Job -> Pages]
  BY DEF FollowTyped
<1>3. ASSUME NEW s \in {"connecting", "open", "asking", "waiting", "closed"}
      PROVE  At(j, s) \in [Job -> Pages] /\ At(j, s)[j].at = s
  <2>1. [page[j] EXCEPT !.at = s] \in Pages /\ [page[j] EXCEPT !.at = s].at = s
    BY <1>2 DEF Pages
  <2>2. At(j, s) = [page EXCEPT ![j] = [page[j] EXCEPT !.at = s]]
    BY DEF At
  <2>. QED
    BY <1>2, <2>1, <2>2
<1>4. ASSUME Failed(j) PROVE page' \in [Job -> Pages] /\ page'[j].at \in {"asking", "connecting"}
  <2>. DEFINE asks == [at |-> "asking", errors |-> 0]
              again == [at |-> "connecting", errors |-> page[j].errors + 1]
  <2>1. page[j].errors \in Nat
    BY <1>2 DEF Pages
  <2>2. asks \in Pages /\ again \in Pages /\ asks.at = "asking" /\ again.at = "connecting"
    BY <2>1 DEF Pages
  <2>3. page' = [page EXCEPT ![j] = asks] \/ page' = [page EXCEPT ![j] = again]
    BY <1>4 DEF Failed
  <2>. HIDE DEF asks, again
  <2>. QED
    BY <1>2, <2>2, <2>3
<1>. QED
  BY <1>1, <1>3, <1>4

\* A page of another job stays as it is.
Apart(j) ==
  \A i \in Job \ {j} :
    /\ page'[i] = page[i] /\ status'[i] = status[i] /\ last'[i] = last[i] /\ reply'[i] = reply[i]
    /\ offset'[i] = offset[i] /\ seen'[i] = seen[i] /\ delivered'[i] = delivered[i]
    /\ log'[i] = log[i] /\ watch'[i] = watch[i] /\ told'[i] = told[i]

LEMMA PageApart ==
  ASSUME FollowTyped, NEW j \in Job, Page(j)
  PROVE  Apart(j) /\ written' = written /\ UNCHANGED vars
<1>. USE DEF FollowTyped, Apart, At, Told, Shows
<1>1. CASE Track(j) \/ Clear(j)
  BY <1>1 DEF Track, Clear, allVars
<1>2. CASE Connect(j)
  BY <1>2 DEF Connect, OpenStream
<1>3. CASE ConnectFails(j)
  BY <1>3 DEF ConnectFails, Failed, allVars
<1>4. CASE StreamCloses(j)
  BY <1>4 DEF StreamCloses, Failed
<1>5. CASE Receive(j)
  <2>. HIDE DEF At
  <2>1. UNCHANGED <<vars, written, reply>> /\ PollRow(j)
    BY <1>5 DEF Receive, PollRow
  <2>2. \A i \in Job \ {j} : watch'[i] = watch[i] /\ told'[i] = told[i]
    BY <2>1 DEF PollRow
  <2>3. \A i \in Job \ {j} : /\ page'[i] = page[i] /\ status'[i] = status[i] /\ last'[i] = last[i]
                             /\ offset'[i] = offset[i] /\ seen'[i] = seen[i]
    BY <1>5 DEF Receive
  <2>4. \A i \in Job \ {j} : delivered'[i] = delivered[i] /\ log'[i] = log[i]
    BY <1>5 DEF Receive
  <2>. QED
    BY <2>1, <2>2, <2>3, <2>4
<1>6. CASE CheckJob(j)
  BY <1>6 DEF CheckJob, RowAnswers, allVars
<1>7. CASE CheckAgain(j) \/ AskCancel(j) \/ CancelAnswers(j)
  BY <1>7 DEF CheckAgain, AskCancel, CancelAnswers, allVars
<1>. QED
  BY <1>1, <1>2, <1>3, <1>4, <1>5, <1>6, <1>7 DEF Page

LEMMA PageTypes ==
  ASSUME TypeOK, FollowInv, NEW j \in Job, Page(j)
  PROVE  FollowTyped'
<1>. USE DEF FollowInv, FollowTyped
<1>. DEFINE Others == UNCHANGED <<written, offset, seen, delivered, log>>
            Streams == watch' \in [Job -> WatchState]
                       /\ told' \in [Job -> {"none", "orphaned"} \cup Unfinished \cup Terminal]
            Pieces == /\ written' \in [Job -> Nat] /\ offset' \in [Job -> Nat] /\ seen' \in [Job -> Nat]
                      /\ delivered' \in [Job -> Nat] /\ log' \in [Job -> Seq(Nat)]
            Says2 == status' \in [Job -> Reply] /\ last' \in [Job -> Reply] /\ reply' \in [Job -> Reply]
<1>1. page' \in [Job -> Pages]
  <2>1. CASE Receive(j)
    <3>. DEFINE p == [at |-> IF told'[j] \in Terminal /\ result[j] THEN "closed" ELSE "open", errors |-> 0]
    <3>1. p \in Pages
      BY DEF Pages
    <3>2. page' = [page EXCEPT ![j] = p]
      BY <2>1 DEF Receive
    <3>. HIDE DEF p
    <3>. QED
      BY <3>1, <3>2
  <2>2. CASE Track(j) \/ Connect(j) \/ CheckJob(j) \/ CheckAgain(j)
    <3>1. \E s \in {"connecting", "open", "asking", "waiting", "closed"} : page' = At(j, s)
      BY <2>2 DEF Track, Connect, CheckJob, RowAnswers, CheckAgain
    <3>. QED
      BY SMTT(40), <3>1, PageMoves
  <2>5. CASE Clear(j)
    BY <2>5, PageMoves DEF Clear
  <2>3. CASE ConnectFails(j) \/ StreamCloses(j)
    BY <2>3, PageMoves DEF ConnectFails, StreamCloses
  <2>4. CASE AskCancel(j) \/ CancelAnswers(j)
    BY <2>4 DEF AskCancel, CancelAnswers
  <2>. QED
    BY <2>1, <2>2, <2>3, <2>4, <2>5 DEF Page
<1>2. Streams
  <2>1. CASE Receive(j)
    BY <2>1 DEF Receive, PollRow, DeadIsOver, TypeOK, WatchState
  <2>2. CASE Clear(j) \/ Connect(j) \/ StreamCloses(j)
    BY <2>2 DEF Clear, Connect, OpenStream, StreamCloses, WatchState
  <2>3. CASE UNCHANGED <<watch, told>>
    BY <2>3
  <2>. QED
    BY <2>1, <2>2, <2>3 DEF Page, Track, ConnectFails, CheckJob, CheckAgain, AskCancel, CancelAnswers, allVars
<1>3. Pieces
  <2>1. CASE Receive(j)
    <3>0. page[j].at = "open"
      BY <2>1 DEF Receive
    <3>1. /\ NewPieces(j) \in Seq(Nat) /\ delivered[j] + Len(NewPieces(j)) \in Nat
          /\ seen[j] + (written[j] - offset[j]) \in Nat
      <4>1. offset[j] <= written[j] /\ offset[j] \in Nat /\ written[j] \in Nat /\ seen[j] \in Nat
        BY <3>0 DEF LogFollows, LogOk
      <4>2. NewPieces(j) \in Seq(Nat) /\ delivered[j] + Len(NewPieces(j)) \in Nat
        BY <3>0, PiecesFit
      <4>. QED
        BY <4>1, <4>2
    <3>2. log[j] \o NewPieces(j) \in Seq(Nat)
      BY <3>1
    <3>. HIDE DEF NewPieces
    <3>3. log' \in [Job -> Seq(Nat)]
      BY <2>1, <3>2 DEF Receive
    <3>4. delivered' \in [Job -> Nat] /\ seen' \in [Job -> Nat]
      BY <2>1, <3>1 DEF Receive
    <3>5. offset' \in [Job -> Nat] /\ written' = written
      BY <2>1 DEF Receive
    <3>. QED
      BY <3>3, <3>4, <3>5
  <2>2. CASE Clear(j) \/ Connect(j)
    <3>1. <<>> \in Seq(Nat)
      OBVIOUS
    <3>2. /\ log' \in {log, [log EXCEPT ![j] = <<>>]} /\ delivered' \in {delivered, [delivered EXCEPT ![j] = 0]}
          /\ offset' \in {offset, [offset EXCEPT ![j] = 0]} /\ seen' \in {seen, [seen EXCEPT ![j] = 0]}
      BY <2>2 DEF Clear, Connect
    <3>3. written' = written
      BY PageApart
    <3>4. log' \in [Job -> Seq(Nat)]
      BY <3>1, <3>2
    <3>5. \A f \in [Job -> Nat] : [f EXCEPT ![j] = 0] \in [Job -> Nat]
      OBVIOUS
    <3>6. delivered' \in [Job -> Nat]
      <4>1. delivered \in [Job -> Nat] /\ delivered' \in {delivered, [delivered EXCEPT ![j] = 0]}
        BY <3>2
      <4>2. CASE delivered' = delivered
        BY <4>1, <4>2
      <4>3. CASE delivered' = [delivered EXCEPT ![j] = 0]
        BY <3>5, <4>1, <4>3
      <4>. QED
        BY <4>1, <4>2, <4>3
    <3>7. offset' \in [Job -> Nat]
      <4>1. CASE offset' = offset
        BY <4>1
      <4>2. CASE offset' = [offset EXCEPT ![j] = 0]
        BY <3>5, <4>2
      <4>. QED
        BY <3>2, <4>1, <4>2
    <3>8. seen' \in [Job -> Nat]
      <4>1. CASE seen' = seen
        BY <4>1
      <4>2. CASE seen' = [seen EXCEPT ![j] = 0]
        BY <3>5, <4>2
      <4>. QED
        BY <3>2, <4>1, <4>2
    <3>. QED
      BY <3>3, <3>4, <3>6, <3>7, <3>8
  <2>3. CASE Others
    BY <2>3
  <2>. QED
    BY <2>1, <2>2, <2>3 DEF Page, Track, ConnectFails, StreamCloses, CheckJob, CheckAgain, AskCancel, CancelAnswers
<1>4. Says2
  <2>. USE DEF Reply, NoAnswer, Unfinished, Terminal, Told, Shows
  <2>1. CASE Receive(j)
    <3>1. Says(told'[j]) \in Reply
      BY <2>1 DEF Receive, PollRow, DeadIsOver, TypeOK, Says
    <3>. QED
      BY <2>1, <3>1 DEF Receive
  <2>2. CASE Track(j)
    BY <2>2 DEF Track
  <2>5. CASE Clear(j)
    <3>1. /\ status' = [status EXCEPT ![j] = NoAnswer] /\ last' = [last EXCEPT ![j] = NoAnswer]
          /\ reply' \in {reply, [reply EXCEPT ![j] = NoAnswer]}
      BY <2>5 DEF Clear
    <3>. QED
      BY <3>1
  <2>3. CASE CheckJob(j) \/ AskCancel(j) \/ CancelAnswers(j)
    <3>1. {row[j], status[j], last[j], reply[j]} \subseteq Reply
      BY DEF TypeOK
    <3>2. /\ \E x \in {row[j], status[j], last[j], reply[j]} : status' \in {status, [status EXCEPT ![j] = x]}
          /\ last' \in {last, [last EXCEPT ![j] = row[j]]}
          /\ reply' \in {reply, [reply EXCEPT ![j] = row[j]], [reply EXCEPT ![j] = NoAnswer]}
      BY <2>3 DEF CheckJob, RowAnswers, AskCancel, CancelAnswers
    <3>. QED
      BY <3>1, <3>2
  <2>4. CASE UNCHANGED <<status, last, reply>>
    BY <2>4
  <2>. QED
    BY <2>1, <2>2, <2>3, <2>4, <2>5 DEF Page, Connect, ConnectFails, StreamCloses, CheckAgain
<1>. QED
  BY <1>1, <1>2, <1>3, <1>4

LEMMA PageKeepsDead ==
  ASSUME TypeOK, FollowInv, NEW j \in Job, Page(j)
  PROVE  DeadIsOver'
<1>. USE DEF FollowInv, FollowTyped, DeadIsOver
<1>0. UNCHANGED <<row, stage>>
  BY DEF Page, Track, Clear, Connect, OpenStream, ConnectFails, StreamCloses, Receive, PollRow, CheckJob,
         CheckAgain, AskCancel, CancelAnswers, allVars, vars
<1>1. CASE Clear(j) \/ Connect(j) \/ StreamCloses(j)
  BY <1>0, <1>1 DEF Clear, Connect, OpenStream, StreamCloses
<1>2. CASE Receive(j)
  BY <1>0, <1>2 DEF Receive, PollRow, TypeOK, Terminal, Unfinished
<1>3. CASE UNCHANGED <<watch, told>>
  BY <1>0, <1>3
<1>. QED
  BY <1>1, <1>2, <1>3 DEF Page, Track, ConnectFails, CheckJob, CheckAgain, AskCancel, CancelAnswers, allVars

LEMMA LogApart ==
  ASSUME LogFollows, NEW j \in Job, Apart(j), written' = written, LogOk(j)'
  PROVE  LogFollows'
<1>1. ASSUME NEW i \in Job \ {j} PROVE LogOk(i)'
  <2>1. LogOk(i) /\ i \in Job
    BY DEF LogFollows
  <2>2. /\ page'[i] = page[i]
        /\ offset'[i] = offset[i] /\ seen'[i] = seen[i] /\ delivered'[i] = delivered[i]
        /\ log'[i] = log[i] /\ written'[i] = written[i]
    BY DEF Apart
  <2>. QED
    BY <2>1, <2>2 DEF LogOk
<1>. QED
  BY <1>1 DEF LogFollows

LEMMA PageKeepsLog ==
  ASSUME TypeOK, FollowInv, NEW j \in Job, Page(j)
  PROVE  LogFollows'
<1>. SUFFICES LogOk(j)'
  BY PageApart, LogApart DEF FollowInv
<1>0. LogOk(j) /\ FollowTyped /\ written' = written
  BY PageApart DEF FollowInv, LogFollows
<1>1. CASE Track(j) \/ Connect(j) \/ CheckJob(j) \/ CheckAgain(j)
  <2>1. page'[j].at # "off" /\ UNCHANGED <<delivered, log, written>>
    BY <1>1, <1>0, PageMoves DEF Track, Connect, CheckJob, RowAnswers, CheckAgain, logVars
  <2>2. page'[j].at = "open" => seen'[j] = 0 /\ offset'[j] = 0
    <3>1. CASE Connect(j)
      BY <1>0, <3>1 DEF Connect, FollowTyped
    <3>2. CASE Track(j) \/ CheckJob(j) \/ CheckAgain(j)
      <4>1. \E s \in {"connecting", "asking", "waiting", "closed"} : page' = At(j, s)
        BY <3>2 DEF Track, CheckJob, RowAnswers, CheckAgain
      <4>. QED
        BY <1>0, <4>1, PageMoves
    <3>. QED
      BY <1>1, <3>1, <3>2
  <2>. QED
    BY <1>0, <2>1, <2>2 DEF LogOk, FollowTyped
<1>2. CASE Clear(j)
  <2>1. <<>> = [k \in 1..0 |-> k]
    OBVIOUS
  <2>2. page'[j].at = "off" /\ delivered'[j] = 0 /\ log'[j] = <<>>
    BY <1>2, <1>0 DEF Clear, NotTracking, FollowTyped
  <2>. QED
    BY <1>0, <2>1, <2>2 DEF LogOk, FollowTyped
<1>3. CASE ConnectFails(j) \/ StreamCloses(j)
  <2>1. page'[j].at \in {"asking", "connecting"} /\ UNCHANGED <<delivered, log>>
    BY <1>3, <1>0, PageMoves DEF ConnectFails, StreamCloses
  <2>. QED
    BY <1>0, <2>1 DEF LogOk
<1>4. CASE Receive(j)
  <2>. HIDE DEF NewPieces
  <2>1. /\ page[j].at = "open" /\ page'[j].at \in {"open", "closed"} /\ written' = written
        /\ seen'[j] = seen[j] + (written[j] - offset[j]) /\ offset'[j] = written[j]
    BY <1>0, <1>4 DEF Receive, FollowTyped
  <2>2. /\ log' = [log EXCEPT ![j] = log[j] \o NewPieces(j)]
        /\ delivered' = [delivered EXCEPT ![j] = delivered[j] + Len(NewPieces(j))]
    BY <1>4 DEF Receive
  <2>3. log'[j] = log[j] \o NewPieces(j) /\ delivered'[j] = delivered[j] + Len(NewPieces(j))
    BY <1>0, <2>2 DEF FollowTyped
  <2>4. log'[j] = [k \in 1..delivered'[j] |-> k] /\ offset'[j] <= delivered'[j]
    BY <2>1, <2>3, PiecesFit
  <2>5. seen'[j] = offset'[j] /\ offset'[j] <= written'[j]
    BY <1>0, <2>1 DEF LogOk, FollowTyped
  <2>. QED
    BY <1>0, <2>1, <2>4, <2>5 DEF LogOk
<1>5. CASE AskCancel(j) \/ CancelAnswers(j)
  <2>1. UNCHANGED <<page, written, offset, seen, delivered, log>>
    BY <1>5 DEF AskCancel, CancelAnswers
  <2>. QED
    BY <1>0, <2>1 DEF LogOk
<1>. QED
  BY <1>1, <1>2, <1>3, <1>4, <1>5 DEF Page

-----------------------------------------------------------------------------
LEMMA FollowStep == TypeOK /\ RunnerInv /\ FollowInv /\ [FollowNext]_everything => FollowInv'
<1>. SUFFICES ASSUME TypeOK, RunnerInv, FollowInv, [FollowNext]_everything PROVE FollowInv'
  OBVIOUS
<1>1. CASE UNCHANGED everything
  BY <1>1 DEF everything, allVars, vars, FollowInv, FollowTyped, DeadIsOver, LogFollows, LogOk
<1>2. ASSUME NEW j \in Job, Page(j) PROVE FollowInv'
  BY <1>2, PageTypes, PageKeepsDead, PageKeepsLog DEF FollowInv
<1>. QED
  BY <1>1, <1>2, RunnerKeeps, StreamKeeps DEF FollowNext

\* The page and its event streams, however they break and ask again, implement the job
\* runner: every step is one of its steps or leaves its rows, queues and maps alone.
THEOREM FollowRefinesJobs == FollowSpec => Spec /\ []FollowInv
<1>1. FollowInit => Init /\ FollowInv
  BY FollowInitOK
<1>2. FollowSpec => Spec
  BY <1>1, FollowRefines, PTL DEF FollowSpec, Spec
<1>. QED
  BY <1>1, <1>2, FollowStep, TypeCorrect, RunnerCorrect, PTL DEF FollowSpec

\* A client is told that a job has no runner only when no thread works on it any more,
\* and such a job never turns out to have completed: the job that finishes between the
\* two reads of a poll is not taken for a lost one (routes.py job_logs_sse poll).
THEOREM OrphansAreLost == FollowSpec => []OrphanIsLost
<1>1. FollowInv /\ RunnerInv => OrphanIsLost
  BY DEF FollowInv, DeadIsOver, RunnerInv, LiveFollowsStage, OrphanIsLost
<1>. QED
  BY <1>1, FollowRefinesJobs, RunnerCorrect, PTL

\* However often the stream breaks and the log is replayed from its first byte, the
\* page shows every piece once and in order (lib/api.ts watchJob).
THEOREM LogShownOnce == FollowSpec => []LogOnce
<1>1. FollowInv => LogOnce
  BY DEF FollowInv, LogFollows, LogOk, LogOnce
<1>. QED
  BY <1>1, FollowRefinesJobs, PTL

\* The page keeps the outcome it shows, or its watch, which does not know it, reconnects.
Kept(j) ==
  \/ status'[j] \in Terminal
  \/ last[j] \notin Terminal /\ page[j].at = "asking" /\ page'[j].at = "waiting"

\* An outcome on the page is not taken back by a late answer of the cancel route, a
\* replayed stream or a row that was read again, but only by the "reconnecting..." of a
\* watch that was not told it (lib/use-job-watch.ts, lib/api.ts checkJob).
THEOREM OutcomeShownStays == FollowSpec => SettledStays
<1>1. ASSUME TypeOK, FollowInv, [FollowNext]_everything, NEW j \in Job,
             status[j] \in Terminal, row[j] \in Terminal, page[j].at # "off", page'[j].at # "off"
      PROVE  Kept(j)
  <2>. USE DEF Terminal, Told, Shows, Kept
  <2>1. CASE status'[j] = status[j]
    BY <1>1, <2>1
  <2>2. ASSUME NEW i \in Job, Page(i) PROVE Kept(j)
    <3>1. CASE i # j
      BY <1>1, <2>2, <3>1, PageApart DEF FollowInv, Apart
    <3>2. CASE Track(j) \/ Clear(j)
      BY <1>1, <3>2 DEF Track, Clear, NotTracking, FollowInv, FollowTyped
    <3>3. CASE Receive(j)
      BY <1>1, <3>3 DEF Receive, PollRow, Says, FollowInv, FollowTyped
    <3>4. CASE CheckJob(j)
      <4>1. CASE RowAnswers(j)
        BY <1>1, <4>1 DEF RowAnswers, FollowInv, FollowTyped
      <4>2. CASE page' = At(j, "waiting") /\ Shows(j, last[j])
        BY <1>1, <3>4, <4>2, PageMoves DEF CheckJob, FollowInv, FollowTyped
      <4>. QED
        BY <3>4, <4>1, <4>2 DEF CheckJob
    <3>5. CASE CancelAnswers(j)
      BY <1>1, <3>5 DEF CancelAnswers, FollowInv, FollowTyped
    <3>6. CASE status' = status
      BY <1>1, <3>6
    <3>. QED
      BY <2>2, <3>1, <3>2, <3>3, <3>4, <3>5, <3>6
      DEF Page, Connect, ConnectFails, StreamCloses, CheckAgain, AskCancel
  <2>3. (\E i \in Job : Page(i)) \/ status' = status
    BY <1>1 DEF FollowNext, WriteLog, everything
  <2>. QED
    BY <1>1, <2>2, <2>3
<1>2. TypeOK /\ FollowInv /\ [FollowNext]_everything =>
        [\A j \in Job : /\ status[j] \in Terminal /\ row[j] \in Terminal
                        /\ page[j].at # "off" /\ page'[j].at # "off"
           => \/ status'[j] \in Terminal
              \/ last[j] \notin Terminal /\ page[j].at = "asking" /\ page'[j].at = "waiting"]_everything
  BY <1>1 DEF Kept
<1>. QED
  BY <1>2, FollowRefinesJobs, TypeCorrect, PTL DEF FollowSpec, SettledStays
=============================================================================
