------------------------------ MODULE JobWatch ------------------------------
(***************************************************************************)
(* GET /jobs/{id}/logs: the server-sent events a client follows a job with *)
(* (job_logs_sse in app/api/routes.py), composed with the job runner.      *)
(*                                                                         *)
(* Each poll runs in a threadpool thread and reads twice: is_live, then    *)
(* the row.  The runner goes on between the two reads.  A process that     *)
(* dies takes its event streams with it.  The client is JobFollow's page.  *)
(***************************************************************************)
EXTENDS Jobs

VARIABLES
  watch,  \* watch[j]: the stream following j, at most one (a bound)
  told    \* told[j]: the status the stream's last event carried

watchVars == <<watch, told>>
allVars == <<vars, watchVars>>

\* "live" and "dead": between the two reads of a poll, with what is_live said.
WatchState == {"off", "open", "live", "dead", "ended"}

WatchTypeOK ==
  /\ watch \in [Job -> WatchState]
  /\ told \in [Job -> {"none", "orphaned"} \cup Unfinished \cup Terminal]

WatchInit == /\ Init
             /\ watch = [j \in Job |-> "off"]
             /\ told = [j \in Job |-> "none"]

\* 404 while there is no row.
OpenStream(j) ==
  /\ up /\ watch[j] = "off" /\ row[j] # "none"
  /\ watch' = [watch EXCEPT ![j] = "open"]
  /\ UNCHANGED <<vars, told>>

PollLiveness(j) ==
  /\ watch[j] = "open"
  /\ watch' = [watch EXCEPT ![j] = IF IsLive(j) THEN "live" ELSE "dead"]
  /\ UNCHANGED <<vars, told>>

\* An unfinished row without a runner is reported failed, "no runner in this
\* process (orphaned)"; the stream ends at a terminal status.
PollRow(j) ==
  /\ watch[j] \in {"live", "dead"}
  /\ LET orphan == watch[j] = "dead" /\ row[j] \notin Terminal IN
       /\ told' = [told EXCEPT ![j] = IF orphan THEN "orphaned" ELSE row[j]]
       /\ watch' = [watch EXCEPT ![j] =
                      IF orphan \/ row[j] \in Terminal THEN "ended" ELSE "open"]
  /\ UNCHANGED vars

\* A step of the runner; a crash cuts the streams.
System ==
  /\ Next
  /\ IF up' THEN UNCHANGED watchVars
            ELSE /\ watch' = [j \in Job |-> "off"]
                 /\ told' = [j \in Job |-> "none"]

-----------------------------------------------------------------------------
\* A client is told "orphaned" only of a job no thread works on any more, and
\* such a job never turns out to have completed: neither a job that waits in an
\* executor's queue nor one that finishes between the two reads of a poll is
\* taken for a lost one ("Liveness before the row" in poll), whatever I/O fails.
OrphanIsLost ==
  \A j \in Job : told[j] = "orphaned" => j \notin live /\ row[j] # "completed"
=============================================================================
