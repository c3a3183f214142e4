---------------------------- MODULE AgenticSuite ----------------------------
(***************************************************************************)
(* The work of a bench job: the two agentic suites of the serve-engine     *)
(* (run_golden_tools and run_tool_eval_bench in services/agentic.py,       *)
(* started by POST /bench/agentic), as the fn that module Jobs runs, next  *)
(* to the controller's benches of module BenchExclusion.                   *)
(*                                                                         *)
(* The golden suite asks the endpoint itself, case by case.  tool-eval-    *)
(* bench is a command in a process group of its own: its leader and the    *)
(* children it starts measure, and hold the pipe the job's thread reads.   *)
(* A watcher thread looks for the cancel flag.                             *)
(***************************************************************************)
EXTENDS BenchExclusion

CONSTANT Cases   \* Len(GOLDEN_CASES)

ASSUME CasesAssumption == Cases \in Nat \ {0}

VARIABLES
  kind,    \* kind[j]: body.suite of the request: "golden" or "tool_eval"
  suite    \* suite[j]: what fn of job j has done and started

suiteVars == <<kind, suite, exVars>>

\* at: where fn stands; done: golden cases asked; leader, kids: the processes;
\* scored: the leader left a result; watcher: the thread watch_cancel.
Unstarted == [at |-> "none", done |-> 0, leader |-> "off", kids |-> FALSE,
              signalled |-> FALSE, scored |-> FALSE, watcher |-> "off"]

\* A process of the suite asks the endpoint.
Busy(j) == suite[j].leader = "up" \/ suite[j].kids
Asking(j) == stage[j] = "running" /\ suite[j].at = "cases"

SuiteInit ==
  /\ ExInit
  /\ kind \in [Job -> {"golden", "tool_eval"}]
  /\ suite = [j \in Job |-> Unstarted]

Change(j, s) == suite' = [suite EXCEPT ![j] = s] /\ UNCHANGED <<kind, exVars>>
-----------------------------------------------------------------------------
(* run_golden_tools                                                        *)

\* The model list and the tools probe answered.
FirstCase(j) ==
  /\ stage[j] = "running" /\ kind[j] = "golden" /\ suite[j].at = "starting"
  /\ Change(j, [suite[j] EXCEPT !.at = "cases"])

\* `cancel` is checked before each case; a case that fails is a wrong answer.
NextCase(j) ==
  /\ Asking(j) /\ ~flag[j] /\ suite[j].done < Cases
  /\ Change(j, [suite[j] EXCEPT !.done = @ + 1])
-----------------------------------------------------------------------------
(* run_tool_eval_bench                                                     *)

\* Popen(start_new_session=True) and the watcher thread.
Spawn(j) ==
  /\ stage[j] = "running" /\ kind[j] = "tool_eval" /\ suite[j].at = "starting"
  /\ Change(j, [suite[j] EXCEPT !.at = "reading", !.leader = "up", !.watcher = "polling"])

\* The command starts children; they end; it ends, with a result or without.
Forks(j) ==
  /\ suite[j].leader = "up" /\ ~suite[j].kids /\ ~suite[j].signalled
  /\ Change(j, [suite[j] EXCEPT !.kids = TRUE])
KidsEnd(j) ==
  /\ suite[j].kids
  /\ Change(j, [suite[j] EXCEPT !.kids = FALSE])
LeaderEnds(j) ==
  /\ suite[j].leader = "up"
  /\ \E scored \in BOOLEAN :
       Change(j, [suite[j] EXCEPT !.leader = "gone", !.scored = scored])

\* while proc.poll() is None: ...
WatcherPolls(j) ==
  /\ suite[j].watcher = "polling"
  /\ Change(j, [suite[j] EXCEPT !.watcher = IF suite[j].leader = "up" THEN "waiting" ELSE "over"])

\* ... if cancel.wait(0.5): os.killpg(proc.pid, SIGTERM); return
WatcherWaits(j) ==
  /\ suite[j].watcher = "waiting"
  /\ Change(j, IF flag[j] THEN [suite[j] EXCEPT !.watcher = "over", !.signalled = Busy(j)]
                          ELSE [suite[j] EXCEPT !.watcher = "polling"])

\* Mistake: fn waits for the command only, not for the end of its output.
EofOfLeader(j) ==
  /\ suite[j].at = "reading" /\ suite[j].leader = "gone"
  /\ Change(j, [suite[j] EXCEPT !.at = "read"])

\* `for line in proc.stdout` ends when nobody holds the pipe; proc.wait().
Eof(j) ==
  /\ suite[j].at = "reading" /\ ~Busy(j)
  /\ Change(j, [suite[j] EXCEPT !.at = "read"])
-----------------------------------------------------------------------------
(* The suite as the fn of its job                                          *)

AllAsked(j) == suite[j].at = "cases" /\ suite[j].done = Cases

\* A golden result stands even if a cancel came after the last case.
MayReturn(j) == AllAsked(j) \/ (suite[j].at = "read" /\ ~flag[j] /\ suite[j].scored)

MayCancel(j) ==
  \/ suite[j].at = "cases" /\ suite[j].done < Cases
  \/ suite[j].at = "read"

\* The endpoint or the command is not there; the command failed; the result
\* could not be stored; and each line read is logged.
MayRaise(j) ==
  \/ suite[j].at = "starting"
  \/ suite[j].at = "read" /\ ~flag[j]
  \/ AllAsked(j)
  \/ suite[j].at \in {"cases", "reading"} /\ Faults # {}

Ends(j, outcome) == stage[j] = "running" /\ stage'[j] = outcome

\* fn is called with the runner's first write, and ends as the suite lets it.
\* A restart takes the watcher along and leaves the command alone.
RunnerStep ==
  /\ ExNext
  /\ \A j \in Job : /\ Ends(j, "completing") => MayReturn(j)
                    /\ Ends(j, "cancelling") => MayCancel(j)
                    /\ Ends(j, "failing") => MayRaise(j)
  /\ suite' = [j \in Job |->
       IF stage[j] # "running" /\ stage'[j] = "running"
         THEN [Unstarted EXCEPT !.at = "starting"]
       ELSE IF ~up' THEN [suite[j] EXCEPT !.at = "none", !.watcher = "over"]
       ELSE suite[j]]
  /\ UNCHANGED kind

Golden(j) == FirstCase(j) \/ NextCase(j)
Command(j) == Forks(j) \/ KidsEnd(j) \/ LeaderEnds(j)
Watcher(j) == WatcherPolls(j) \/ WatcherWaits(j)

SuiteNext ==
  \/ RunnerStep
  \/ \E j \in Job : Golden(j) \/ Spawn(j) \/ Command(j) \/ Watcher(j) \/ Eof(j)

SuiteSpec == SuiteInit /\ [][SuiteNext]_suiteVars

\* Nothing of a suite has to go on for the lease to be freed.
SuiteLeaseSpec == SuiteSpec /\ ExFairness

\* Threads run, the job's own among them, requests have timeouts, a signalled command
\* ends, and so does one that nobody signals, unless it hangs: then only a cancel can end
\* it.
SuiteFairSpec ==
  /\ SuiteSpec
  /\ \A j \in Job :
       /\ WF_suiteVars(Golden(j)) /\ WF_suiteVars(Spawn(j)) /\ WF_suiteVars(Eof(j))
       /\ WF_suiteVars(EndFn(j) /\ RunnerStep)
       /\ WF_suiteVars(WatcherPolls(j)) /\ WF_suiteVars(WatcherWaits(j))
       /\ WF_suiteVars(suite[j].signalled /\ (KidsEnd(j) \/ LeaderEnds(j)))
-----------------------------------------------------------------------------
\* The header of jobs.py: the controller's streams benches "take the bench
\* lease so they and a bench job never overlap either"; nor do two of them.
\* As long as the serve-engine goes on and answers every lease call, while one
\* bench measures, no other run measures, and neither does a bench job or a
\* process that one has started: fn outlives what it starts.
OneMeasurement ==
  (~unheard /\ restarts = 0) =>
    \A r \in Measuring :
      /\ Measuring = {r}
      /\ \A j \in Job : ~Asking(j) /\ ~Busy(j)

\* "cancel must reach children that hold stdout open too": a cancelled suite
\* ends, although its processes hang.
CancelEndsSuite ==
  \A j \in Job : (suite[j].at = "reading" /\ flag[j]) ~> (stage[j] # "running")
=============================================================================
